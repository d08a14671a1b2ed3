--------------------------- MODULE WorkspaceProofs ---------------------------
(***************************************************************************)
(* What a build has of its workspace: the libraries pekit.lock pins, and   *)
(* the files it puts by their stamps.                                      *)
(*                                                                         *)
(* That a lock pins what the imports reach and leaves it so, and that a    *)
(* strict build loads what is pinned, for any commands, libraries and      *)
(* commits, if no library's path is within another's.  Since a command     *)
(* that is calm began, only it has changed the workspace.  So of a build   *)
(* each library pinned is yet to be seen to, or found to differ, or being  *)
(* exported, or as its pin has it; and of a lock each pinned is at its     *)
(* commit, with what it imports seen or yet to be, all of which every set  *)
(* closed under the imports has.                                           *)
(*                                                                         *)
(* That a stamp a build trusts is true, and what a put gives is what the   *)
(* file is, for any builds, files, contents and nodes, and however long    *)
(* the clock runs, while no directory is renamed as a build reads a file   *)
(* in it.  A trusted stamp is older than its put, and so than anything     *)
(* that is done to a file since: a node whose change time is still the     *)
(* stamp's is where it was, with the contents that were read.              *)
(***************************************************************************)
EXTENDS Lock, Stamps, TLAPS

Flat == \A l \in Libs : Within[l] = {l}

\* What is at which step.
Shape(r) ==
    /\ r.lib = None <=> r.at \in {"next", "checking"}
    /\ r.lib # None => r.pin # None
    /\ r.at \in {"archiving", "removing", "renaming", "pinning"} => r.pin.commit # 0
    /\ r.at = "pinning" => r.kind \in {"lock", "update"}
    /\ r.at = "checking" => r.kind \notin {"lock", "update"}
    /\ r.kind \notin {"lock", "update"} => r.todo \subseteq Pinned(r.lock)

\* A pinned library is as its pin says, or as its commit has it.
AsPinned(l) == Tree(l) \in {lock[l].tree, Committed(l, lock[l].commit)}

Restoring(r) ==
    /\ r.lock = lock
    /\ r.lib # None => r.lib \in Pinned(lock) /\ r.pin = lock[r.lib]
    /\ \A l \in Pinned(lock) : l \in r.todo \cup r.differ \/ l = r.lib \/ AsPinned(l)
    /\ r.at = "checking" =>
          /\ r.todo = {}
          /\ \A l \in Libs : r.loaded[l] # None => r.loaded[l] = Tree(l)

\* Sets of libraries that have what the workspace imports, and what those
\* of them that are pinned so far import.
Closed(T, pins) ==
    T \subseteq Libs /\ imports \subseteq T /\ \A l \in T : Followed(pins)[l] \subseteq T

Following(r) ==
    /\ imports \subseteq r.seen \cup r.todo
    /\ r.seen \cap r.todo = {}
    /\ \A l \in Libs : l \in r.seen <=> (r.pins[l] # None \/ l = r.lib)
    /\ r.lib # None => r.pins[r.lib] = None
    /\ \A l \in Libs : r.pins[l] # None => disk[l] = r.pins[l].commit
    /\ \A l \in Libs : Followed(r.pins)[l] \subseteq r.seen \cup r.todo
    /\ r.at = "pinning" => disk[r.lib] = r.pin.commit
    /\ \A T \in SUBSET Libs : Closed(T, r.pins) => r.seen \cup r.todo \subseteq T

Sound(p) ==
    run[p] # None =>
        /\ Shape(run[p])
        /\ p \in calm => IF Locking(p) THEN Following(run[p]) ELSE Restoring(run[p])

IInv ==
    /\ TypeOK
    /\ \A p \in calm : run[p] # None
    /\ \A p \in Commands : Sound(p)
-----------------------------------------------------------------------------
(* What a step leaves alone. *)

\* What a command is at is a record, and None is none.
LEMMA Running ==
    ASSUME IInv, NEW p \in Commands, run[p] # None
    PROVE  run[p] \in Runs
BY DEF IInv, TypeOK

LEMMA NotNone == ASSUME NEW r \in Runs PROVE r # None
BY ConstantsApart

\* A step of others that leaves the workspace as it is, or ends the calm.
LEMMA Undisturbed ==
    ASSUME IInv, NEW q \in Commands,
           run'[q] = run[q],
           q \in calm' => q \in calm /\ UNCHANGED workspace
    PROVE  Sound(q)'
<1> SUFFICES ASSUME run[q] # None PROVE Sound(q)'
  BY DEF Sound
<1>1. Sound(q)
  BY DEF IInv
<1>2. Shape(run[q])'
  BY <1>1 DEF Sound, Shape
<1>3. ASSUME q \in calm' PROVE IF Locking(q)' THEN Following(run[q])' ELSE Restoring(run[q])'
  <2>1. UNCHANGED <<lock, imports, disk>> /\ (Locking(q)' <=> Locking(q))
    BY <1>3 DEF workspace, Locking
  <2>2. CASE Locking(q)
    <3>1. Following(run[q])
      BY <1>1, <1>3, <2>2 DEF Sound
    <3>2. Following(run[q])'
      BY <2>1, <3>1 DEF Following, Closed, Followed
    <3> QED BY <2>1, <2>2, <3>2
  <2>3. CASE ~Locking(q)
    <3>1. Restoring(run[q])
      BY <1>1, <1>3, <2>3 DEF Sound
    <3>2. Restoring(run[q])'
      BY <2>1, <3>1 DEF Restoring, AsPinned, Tree, Committed, Pinned
    <3> QED BY <2>1, <2>3, <3>2
  <2> QED BY <2>2, <2>3
<1> QED BY <1>2, <1>3 DEF Sound, Shape

\* A step of a command keeps the invariant if it does of the command itself.
LEMMA Alone ==
    ASSUME IInv, NEW p \in Commands, TypeOK',
           \A q \in Commands \ {p} : run'[q] = run[q],
           \A q \in calm' \ {p} : q \in calm /\ UNCHANGED workspace,
           p \in calm' => run'[p] # None,
           Sound(p)'
    PROVE  IInv'
<1>1. \A q \in calm' : run'[q] # None
  BY DEF IInv, TypeOK
<1>2. ASSUME NEW q \in Commands PROVE Sound(q)'
  BY Undisturbed
<1> QED BY <1>1, <1>2 DEF IInv

\* A command that is over.
LEMMA DoneKeeps ==
    ASSUME IInv, NEW p \in Commands, Done(p), UNCHANGED <<workspace, tip>>,
           repo' \in Commits \cup {None}
    PROVE  IInv'
<1>1. TypeOK' /\ run'[p] = None /\ p \notin calm'
  BY DEF Done, IInv, TypeOK, workspace
<1>2. \A q \in Commands \ {p} : run'[q] = run[q]
  BY DEF Done, IInv, TypeOK
<1>3. \A q \in calm' \ {p} : q \in calm
  BY DEF Done
<1> QED BY <1>1, <1>2, <1>3, Alone DEF Sound

-----------------------------------------------------------------------------
(* An export, to where it has the commit. *)

\* What a command becomes, of which no more than where it is and what it
\* wants changes, while it exports the same.
LEMMA GoesKeeps ==
    ASSUME IInv, NEW p \in Commands, run[p] # None, run[p].lib # None,
           NEW at \in {"cached", "cloning", "fetching", "archiving", "removing", "renaming"},
           NEW pin \in Wanted,
           pin = run[p].pin \/ run[p].pin.commit = 0,
           at \in {"archiving", "removing", "renaming"} => pin.commit # 0,
           run' = [run EXCEPT ![p] = [run[p] EXCEPT !.at = at, !.pin = pin]],
           UNCHANGED <<workspace, tip, calm>>,
           repo' \in Commits \cup {None}
    PROVE  IInv'
<1>1. PICK r \in Runs : r = run[p]
  BY Running
<1>2. PICK s \in Runs : s = [r EXCEPT !.at = at, !.pin = pin]
  BY <1>1 DEF Runs, Places
<1>3. /\ s.kind = r.kind /\ s.lock = r.lock /\ s.lib = r.lib /\ s.todo = r.todo
      /\ s.seen = r.seen /\ s.pins = r.pins /\ s.differ = r.differ
      /\ s.at = at /\ s.pin = pin
  BY <1>2 DEF Runs
<1>4. run'[p] = s /\ \A q \in Commands \ {p} : run'[q] = run[q]
  BY <1>1, <1>2 DEF IInv, TypeOK
<1>5. TypeOK'
  BY <1>1, <1>2 DEF IInv, TypeOK, workspace
<1>6. Shape(r) /\ (p \in calm => IF Locking(p) THEN Following(r) ELSE Restoring(r))
  BY <1>1 DEF IInv, Sound
<1>7. Sound(p)'
  <2>1. Shape(s)
    BY <1>3, <1>1, <1>6, ConstantsApart DEF Shape
  <2>2. ASSUME p \in calm, Locking(p) PROVE Following(s)'
    <3>1. Following(r)
      BY <1>6, <2>2
    <3>2. UNCHANGED <<disk, imports>> /\ s.at # "pinning"
      BY <1>3 DEF workspace
    <3>3. \A T \in SUBSET Libs : Closed(T, s.pins)' => Closed(T, r.pins)
      BY <1>3, <3>2 DEF Closed, Followed
    <3> QED BY <1>3, <3>1, <3>2, <3>3 DEF Following, Followed
  <2>3. ASSUME p \in calm, ~Locking(p) PROVE Restoring(s)'
    <3>1. Restoring(r)
      BY <1>6, <2>3
    <3>2. pin = r.pin
      BY <1>1, <3>1, ConstantsApart DEF Restoring, Pinned, IInv, TypeOK, Locks, Pins
    <3> QED BY <1>3, <3>1, <3>2 DEF Restoring, AsPinned, Tree, Committed, Pinned, workspace
  <2>4. Locking(p)' <=> Locking(p)
    BY <1>1, <1>3, <1>4 DEF Locking
  <2>5. Shape(s)'
    BY <2>1 DEF Shape
  <2> QED BY <1>4, <2>2, <2>3, <2>4, <2>5 DEF Sound
<1>8. run'[p] # None
  BY <1>2, <1>4, NotNone
<1> QED BY <1>4, <1>5, <1>7, <1>8, Alone DEF workspace

LEMMA CachedKeeps == ASSUME IInv, NEW p \in Commands, Cached(p) PROVE IInv'
<1> DEFINE r == run[p]
<1>1. r \in Runs /\ r # None /\ Shape(r)
  BY Running DEF Cached, At, IInv, Sound
<1>2. r.lib # None /\ r.pin \in Wanted
  BY <1>1 DEF Cached, At, Shape, Runs
<1>3. PICK at \in {"cloning", "fetching", "archiving"} :
        Goes(p, at) /\ (at = "archiving" => r.pin.commit # 0)
  BY DEF Cached
<1>4. run' = [run EXCEPT ![p] = [r EXCEPT !.at = at, !.pin = r.pin]]
  BY <1>1, <1>3 DEF Goes, IInv, TypeOK, Runs
<1> QED BY <1>1, <1>2, <1>3, <1>4, GoesKeeps DEF Cached, IInv, TypeOK

LEMMA CloneKeeps == ASSUME IInv, NEW p \in Commands, Clone(p) PROVE IInv'
<1> DEFINE r == run[p]
<1>1. r \in Runs /\ r # None /\ Shape(r)
  BY Running DEF Clone, At, IInv, Sound
<1>2. CASE repo = None
  <2>1. r.lib # None /\ r.pin \in Wanted
    BY <1>1 DEF Clone, At, Shape, Runs
  <2>2. run' = [run EXCEPT ![p] = [r EXCEPT !.at = "cached", !.pin = r.pin]]
    BY <1>1, <1>2 DEF Clone, Goes, IInv, TypeOK, Runs
  <2>3. repo' \in Commits \cup {None} /\ UNCHANGED <<workspace, tip, calm>>
    BY <1>2 DEF Clone, IInv, TypeOK
  <2> QED BY <1>1, <2>1, <2>2, <2>3, GoesKeeps
<1>3. CASE repo # None
  BY <1>3, DoneKeeps DEF Clone
<1> QED BY <1>2, <1>3

LEMMA FetchKeeps == ASSUME IInv, NEW p \in Commands, Fetch(p) PROVE IInv'
<1> DEFINE r == run[p]
<1>1. r \in Runs /\ r # None /\ Shape(r)
  BY Running DEF Fetch, At, IInv, Sound
<1>2. r.lib # None /\ r.pin \in Wanted
  BY <1>1 DEF Fetch, At, Shape, Runs
<1>3. repo' \in Commits \cup {None} /\ UNCHANGED <<workspace, tip, calm>>
  BY DEF Fetch, IInv, TypeOK
<1>4. CASE r.pin.commit = 0
  <2> DEFINE pin == [r.pin EXCEPT !.commit = tip]
  <2>1. pin \in Wanted
    BY <1>2 DEF Wanted, IInv, TypeOK
  <2>2. run' = [run EXCEPT ![p] = [r EXCEPT !.at = "cached", !.pin = pin]]
    BY <1>1, <1>4 DEF Fetch, IInv, TypeOK, Runs
  <2> QED BY <1>1, <1>2, <1>3, <1>4, <2>1, <2>2, GoesKeeps
<1>5. CASE r.pin.commit # 0
  <2>1. run' = [run EXCEPT ![p] = [r EXCEPT !.at = "archiving", !.pin = r.pin]]
    BY <1>1, <1>5 DEF Fetch, IInv, TypeOK, Runs
  <2> QED BY <1>1, <1>2, <1>3, <1>5, <2>1, GoesKeeps
<1> QED BY <1>4, <1>5

LEMMA ArchiveKeeps == ASSUME IInv, NEW p \in Commands, Archive(p) PROVE IInv'
<1> DEFINE r == run[p]
<1>1. r \in Runs /\ r # None /\ Shape(r)
  BY Running DEF Archive, At, IInv, Sound
<1>2. r.lib # None /\ r.pin \in Wanted /\ r.pin.commit # 0
  BY <1>1 DEF Archive, At, Shape, Runs
<1>3. PICK at \in {"removing", "renaming"} : Goes(p, at)
  BY DEF Archive
<1>4. run' = [run EXCEPT ![p] = [r EXCEPT !.at = at, !.pin = r.pin]]
  BY <1>1, <1>3 DEF Goes, IInv, TypeOK, Runs
<1> QED BY <1>1, <1>2, <1>3, <1>4, GoesKeeps DEF Archive, IInv, TypeOK

-----------------------------------------------------------------------------
(* What comes next, and what an export does. *)

\* A command that becomes `s`.
LEMMA Becomes ==
    ASSUME IInv, NEW p \in Commands, NEW s \in Runs,
           run' = [run EXCEPT ![p] = s],
           lock' \in Locks \cup {None}, imports' \subseteq Libs, disk' \in [Libs -> Parts],
           UNCHANGED <<tip, repo>>, calm' \subseteq Commands,
           \A q \in calm' \ {p} : q \in calm /\ UNCHANGED workspace,
           Shape(s),
           p \in calm' => IF s.kind \in {"lock", "update"} THEN Following(s)' ELSE Restoring(s)'
    PROVE  IInv'
<1>1. TypeOK'
  BY DEF IInv, TypeOK
<1>2. run'[p] = s /\ s # None /\ \A q \in Commands \ {p} : run'[q] = run[q]
  BY NotNone DEF IInv, TypeOK
<1>3. Shape(s)'
  BY DEF Shape
<1>4. Sound(p)'
  BY <1>2, <1>3 DEF Sound, Locking
<1> QED BY <1>1, <1>2, <1>4, Alone

LEMMA BeginKeeps ==
    ASSUME IInv, NEW p \in Commands, NEW kind \in Kinds, Begin(p, kind) PROVE IInv'
<1> DEFINE todo == IF kind \in {"lock", "update"} THEN imports ELSE Pinned(lock)
<1>1. todo \subseteq Libs /\ Unpinned \in Locks /\ Unpinned \in [Libs -> Trees \cup {None}]
  BY DEF IInv, TypeOK, Pinned, Unpinned, Locks
<1>2. PICK s \in Runs :
        s = [kind |-> kind, at |-> "next", lock |-> lock, lib |-> None, pin |-> None,
             todo |-> todo, seen |-> {}, pins |-> Unpinned, differ |-> {}, loaded |-> Unpinned]
  BY <1>1 DEF Runs, Places, IInv, TypeOK
<1>3. run' = [run EXCEPT ![p] = s] /\ calm' = calm \cup {p} /\ UNCHANGED <<workspace, tip, repo>>
  BY <1>2 DEF Begin
<1>4. Shape(s)
  BY <1>2 DEF Shape, Pinned
<1>5. ASSUME kind \in {"lock", "update"} PROVE Following(s)'
  <2>1. s.seen = {} /\ s.todo = imports /\ s.lib = None /\ s.at = "next" /\ imports' = imports
        /\ \A l \in Libs : s.pins[l] = None
    BY <1>2, <1>3, <1>5 DEF Unpinned, workspace
  <2>2. \A l \in Libs : Followed(s.pins)[l] = {}
    BY <2>1 DEF Followed
  <2>3. \A T \in SUBSET Libs : Closed(T, s.pins)' => imports \subseteq T
    BY <2>1 DEF Closed
  <2> QED BY <2>1, <2>2, <2>3, ConstantsApart DEF Following, Followed
<1>6. ASSUME kind \notin {"lock", "update"} PROVE Restoring(s)'
  BY <1>2, <1>3, <1>6 DEF Restoring, Pinned, workspace
<1> QED BY <1>2, <1>3, <1>4, <1>5, <1>6, Becomes DEF IInv, TypeOK, workspace

\* The next library is exported.
LEMMA ExportsKeep ==
    ASSUME IInv, NEW p \in Commands, NEW l \in Libs, NEW pin \in Wanted,
           At(p, "next"), l \in run[p].todo,
           ~Locking(p) => pin = run[p].lock[l],
           Exports(p, l, pin), UNCHANGED <<workspace, tip, repo, calm>>
    PROVE  IInv'
<1>1. PICK r \in Runs : r = run[p]
  BY Running DEF At
<1>2. r.at = "next" /\ r.lib = None /\ Shape(r)
      /\ (p \in calm => IF Locking(p) THEN Following(r) ELSE Restoring(r))
  BY <1>1 DEF IInv, Sound, At, Shape
<1>3. PICK s \in Runs : s = [r EXCEPT !.at = "cached", !.lib = l, !.pin = pin,
                                     !.todo = @ \ {l}, !.seen = @ \cup {l}]
  BY <1>1 DEF Runs, Places
<1>4. /\ s.kind = r.kind /\ s.lock = r.lock /\ s.pins = r.pins /\ s.differ = r.differ
      /\ s.at = "cached" /\ s.lib = l /\ s.pin = pin
      /\ s.todo = r.todo \ {l} /\ s.seen = r.seen \cup {l} /\ l \in r.todo
  BY <1>1, <1>3 DEF Runs
<1>5. run' = [run EXCEPT ![p] = s]
  BY <1>1, <1>3 DEF Exports, IInv, TypeOK
<1>6. l # None /\ pin # None
  BY ConstantsApart
<1>7. Shape(s)
  BY <1>2, <1>4, <1>6 DEF Shape
<1>8. ASSUME p \in calm, Locking(p) PROVE Following(s)'
  <2>1. Following(r) /\ UNCHANGED <<imports, disk>>
    BY <1>2, <1>8 DEF workspace
  <2>2. s.seen \cup s.todo = r.seen \cup r.todo
    BY <1>4
  <2>3. \A T \in SUBSET Libs : Closed(T, s.pins)' => Closed(T, r.pins)
    BY <1>4, <2>1 DEF Closed, Followed
  <2>4. \A k \in Libs : k \in r.seen <=> r.pins[k] # None
    BY <1>2, <2>1, ConstantsApart DEF Following
  <2>5. r.pins[l] = None /\ l \notin r.seen
    BY <1>4, <2>1, <2>4 DEF Following
  <2> QED BY <1>4, <2>1, <2>2, <2>3, <2>4, <2>5 DEF Following, Followed
<1>9. ASSUME p \in calm, ~Locking(p) PROVE Restoring(s)'
  <2>1. Restoring(r) /\ UNCHANGED <<lock, disk>>
    BY <1>2, <1>9 DEF workspace
  <2>2. r.todo \subseteq Pinned(lock) /\ l \in Pinned(lock) /\ pin = lock[l]
    BY <1>1, <1>2, <1>4, <1>9, <2>1 DEF Shape, Restoring, Locking
  <2>3. \A k \in Pinned(lock) : k \in s.todo \cup s.differ \/ k = s.lib \/ AsPinned(k)
    BY <1>2, <1>4, <2>1, ConstantsApart DEF Restoring, Pinned
  <2> QED BY <1>4, <2>1, <2>2, <2>3 DEF Restoring, AsPinned, Tree, Committed, Pinned
<1> QED BY <1>1, <1>4, <1>5, <1>7, <1>8, <1>9, Becomes DEF IInv, TypeOK, workspace, Locking

LEMMA LockNextKeeps ==
    ASSUME IInv, NEW p \in Commands, NEW l \in Libs, LockNext(p, l) PROVE IInv'
<1>1. PICK r \in Runs : r = run[p]
  BY Running DEF LockNext, At
<1> DEFINE pin == IF l \in Pinned(r.lock) /\ r.kind = "lock"
                  THEN r.lock[l] ELSE [commit |-> 0, tree |-> None]
<1>2. pin \in Wanted
  BY <1>1 DEF Runs, Pinned, Locks, Pins, Wanted
<1>3. At(p, "next") /\ Locking(p) /\ l \in run[p].todo /\ Exports(p, l, pin)
      /\ UNCHANGED <<workspace, tip, repo, calm>>
  BY <1>1 DEF LockNext
<1> QED BY <1>2, <1>3, ExportsKeep

LEMMA RestoreNextKeeps ==
    ASSUME IInv, NEW p \in Commands, NEW l \in Libs, RestoreNext(p, l) PROVE IInv'
<1>1. PICK r \in Runs : r = run[p]
  BY Running DEF RestoreNext, At
<1> DEFINE pin == r.lock[l]
<1>2. r.at = "next" /\ r.lib = None /\ l \in r.todo /\ ~Locking(p) /\ Shape(r)
      /\ (p \in calm => Restoring(r)) /\ UNCHANGED <<workspace, tip, repo, calm>>
  BY <1>1 DEF IInv, Sound, At, Shape, RestoreNext
<1>3. CASE ~Exists(l)
  <2>1. pin \in Wanted
    BY <1>1, <1>2 DEF Shape, Locking, Pinned, Runs, Locks, Pins, Wanted
  <2> QED BY <1>1, <1>2, <1>3, <2>1, ExportsKeep DEF RestoreNext, At
<1>4. CASE Exists(l)
  <2> DEFINE differ == IF Tree(l) = pin.tree THEN r.differ ELSE r.differ \cup {l}
  <2>1. PICK s \in Runs : s = [r EXCEPT !.todo = @ \ {l}, !.differ = differ]
    BY <1>1 DEF Runs
  <2>2. /\ s.kind = r.kind /\ s.lock = r.lock /\ s.pins = r.pins /\ s.differ = differ
        /\ s.at = r.at /\ s.lib = r.lib /\ s.pin = r.pin /\ s.todo = r.todo \ {l}
    BY <1>1, <2>1 DEF Runs
  <2>3. run' = [run EXCEPT ![p] = s]
    BY <1>1, <1>4, <2>1 DEF RestoreNext, IInv, TypeOK, Runs
  <2>4. Shape(s)
    BY <1>2, <2>2 DEF Shape
  <2>5. ASSUME p \in calm PROVE Restoring(s)'
    <3>1. Restoring(r) /\ UNCHANGED <<lock, disk>>
      BY <1>2, <2>5 DEF workspace
    <3>2. l \notin differ => AsPinned(l)
      BY <3>1 DEF AsPinned, Restoring
    <3> QED BY <1>2, <2>2, <3>1, <3>2 DEF Restoring, AsPinned, Tree, Committed, Pinned
  <2> QED BY <1>1, <1>2, <2>2, <2>3, <2>4, <2>5, Becomes DEF IInv, TypeOK, workspace, Locking
<1> QED BY <1>3, <1>4

-----------------------------------------------------------------------------
(* What changes the libraries. *)

\* A library some of which is removed is any part but its pin's; with none
\* within another, no other changes.
LEMMA RemovedLeaves ==
    ASSUME Flat, IInv, NEW l \in Libs, Removed(l)
    PROVE  disk' \in [Libs -> Parts] /\ \A k \in Libs \ {l} : disk'[k] = disk[k]
BY DEF Flat, Removed, Parts, IInv, TypeOK

\* What other libraries than the one exported are is as it was.
LEMMA OtherPartsKeep ==
    ASSUME Flat, NEW l \in Libs, NEW k \in Libs \ {l}, disk'[k] = disk[k], lock' = lock
    PROVE  AsPinned(k)' <=> AsPinned(k)
BY DEF Flat, AsPinned, Tree, Committed

LEMMA RemoveKeeps == ASSUME Flat, IInv, NEW p \in Commands, Remove(p) PROVE IInv'
<1>1. PICK r \in Runs : r = run[p]
  BY Running DEF Remove, At
<1>2. PICK l \in Libs : l = r.lib
  BY <1>1 DEF Remove, At, IInv, Sound, Shape, Runs
<1>3. /\ r.at = "removing" /\ r.pin # None /\ r.pin.commit # 0 /\ Shape(r)
      /\ (p \in calm => IF Locking(p) THEN Following(r) ELSE Restoring(r))
  BY <1>1, <1>2, ConstantsApart DEF IInv, Sound, At, Shape, Remove
<1>4. disk' \in [Libs -> Parts] /\ \A k \in Libs \ {l} : disk'[k] = disk[k]
  BY <1>1, <1>2, RemovedLeaves DEF Remove
<1>5. UNCHANGED <<lock, imports, tip, repo>> /\ calm' = calm \cap {p}
  BY DEF Remove, Alters
<1>6. PICK at \in {"removing", "renaming"} : run' = [run EXCEPT ![p] = [r EXCEPT !.at = at]]
  BY <1>1, <1>3 DEF Remove, Goes, IInv, TypeOK, Runs
<1>7. PICK s \in Runs : s = [r EXCEPT !.at = at]
  BY <1>1 DEF Runs, Places
<1>8. /\ s.kind = r.kind /\ s.lock = r.lock /\ s.lib = r.lib /\ s.todo = r.todo
      /\ s.seen = r.seen /\ s.pins = r.pins /\ s.differ = r.differ
      /\ s.at = at /\ s.pin = r.pin
  BY <1>7 DEF Runs
<1>9. Shape(s)
  BY <1>2, <1>3, <1>8, ConstantsApart DEF Shape
<1>10. ASSUME p \in calm, Locking(p) PROVE Following(s)'
  <2>1. Following(r)
    BY <1>3, <1>10
  <2>2. \A T \in SUBSET Libs : Closed(T, s.pins)' => Closed(T, r.pins)
    BY <1>5, <1>8 DEF Closed, Followed
  <2>3. \A k \in Libs : r.pins[k] # None => disk'[k] = r.pins[k].commit
    BY <1>2, <1>4, <2>1, ConstantsApart DEF Following
  <2> QED BY <1>5, <1>8, <2>1, <2>2, <2>3 DEF Following, Followed
<1>11. ASSUME p \in calm, ~Locking(p) PROVE Restoring(s)'
  <2>1. Restoring(r)
    BY <1>3, <1>11
  <2>2. \A k \in Pinned(lock) \ {l} : AsPinned(k) => AsPinned(k)'
    BY <1>4, <1>5, OtherPartsKeep DEF Pinned
  <2> QED BY <1>2, <1>5, <1>8, <2>1, <2>2 DEF Restoring, Pinned
<1> QED BY <1>1, <1>4, <1>5, <1>6, <1>7, <1>8, <1>9, <1>10, <1>11, Becomes
        DEF IInv, TypeOK, Locking

LEMMA RenameKeeps == ASSUME Flat, IInv, NEW p \in Commands, Rename(p) PROVE IInv'
<1>1. PICK r \in Runs : r = run[p]
  BY Running DEF Rename, At
<1>2. PICK l \in Libs : l = r.lib
  BY <1>1 DEF Rename, At, IInv, Sound, Shape, Runs
<1>3. /\ r.at = "renaming" /\ r.pin # None /\ r.pin.commit # 0 /\ Shape(r)
      /\ (p \in calm => IF Locking(p) THEN Following(r) ELSE Restoring(r))
  BY <1>1, <1>2, ConstantsApart DEF IInv, Sound, At, Shape, Rename
<1>4. r.pin.commit \in Commits
  BY <1>3 DEF Runs, Wanted
<1>5. /\ disk' \in [Libs -> Parts] /\ disk'[l] = r.pin.commit
      /\ \A k \in Libs \ {l} : disk'[k] = disk[k]
  BY <1>1, <1>2, <1>4 DEF Rename, Flat, IInv, TypeOK, Parts
<1>6. UNCHANGED <<lock, imports, tip, repo>> /\ calm' = calm \cap {p}
  BY DEF Rename, Alters
<1>7. l # None
  BY ConstantsApart
<1>8. CASE Locking(p)
  <2>1. PICK s \in Runs : s = [r EXCEPT !.at = "pinning"]
    BY <1>1 DEF Runs, Places
  <2>2. /\ s.kind = r.kind /\ s.lock = r.lock /\ s.lib = r.lib /\ s.todo = r.todo
        /\ s.seen = r.seen /\ s.pins = r.pins /\ s.at = "pinning" /\ s.pin = r.pin
    BY <2>1 DEF Runs
  <2>3. run' = [run EXCEPT ![p] = s]
    BY <1>1, <1>8, <2>1 DEF Rename, IInv, TypeOK, Runs
  <2>4. Shape(s)
    BY <1>1, <1>2, <1>3, <1>7, <1>8, <2>2 DEF Shape, Locking
  <2>5. ASSUME p \in calm PROVE Following(s)'
    <3>1. Following(r)
      BY <1>3, <1>8, <2>5
    <3>2. \A T \in SUBSET Libs : Closed(T, s.pins)' => Closed(T, r.pins)
      BY <1>6, <2>2 DEF Closed, Followed
    <3>3. \A k \in Libs : r.pins[k] # None => disk'[k] = r.pins[k].commit
      BY <1>2, <1>5, <1>7, <3>1 DEF Following
    <3> QED BY <1>2, <1>5, <1>6, <2>2, <3>1, <3>2, <3>3 DEF Following, Followed
  <2> QED BY <1>1, <1>5, <1>6, <1>8, <2>2, <2>3, <2>4, <2>5, Becomes DEF IInv, TypeOK, Locking
<1>9. CASE ~Locking(p)
  <2>1. PICK s \in Runs : s = Cleared(r)
    BY <1>1 DEF Runs, Places, Cleared
  <2>2. /\ s.kind = r.kind /\ s.lock = r.lock /\ s.lib = None /\ s.todo = r.todo
        /\ s.differ = r.differ /\ s.at = "next"
    BY <2>1 DEF Runs, Cleared
  <2>3. run' = [run EXCEPT ![p] = s]
    BY <1>1, <1>9, <2>1 DEF Rename, IInv, TypeOK
  <2>4. Shape(s)
    BY <1>3, <2>2 DEF Shape
  <2>5. ASSUME p \in calm PROVE Restoring(s)'
    <3>1. Restoring(r)
      BY <1>3, <1>9, <2>5
    <3>2. AsPinned(l)'
      BY <1>2, <1>5, <1>6, <1>7, <3>1 DEF Restoring, AsPinned, Tree, Committed, Flat
    <3>3. \A k \in Pinned(lock) \ {l} : AsPinned(k) => AsPinned(k)'
      BY <1>5, <1>6, OtherPartsKeep DEF Pinned
    <3> QED BY <1>2, <1>6, <2>2, <3>1, <3>2, <3>3 DEF Restoring, Pinned
  <2> QED BY <1>1, <1>5, <1>6, <1>9, <2>2, <2>3, <2>4, <2>5, Becomes DEF IInv, TypeOK, Locking
<1> QED BY <1>8, <1>9

LEMMA DropKeeps ==
    ASSUME Flat, IInv, NEW p \in Commands, NEW l \in Libs, Drop(p, l) PROVE IInv'
<1>1. PICK r \in Runs : r = run[p]
  BY Running DEF Drop, At
<1>2. r.at = "next" /\ Locking(p) /\ l \notin r.seen /\ Shape(r) /\ (p \in calm => Following(r))
  BY <1>1 DEF Drop, Stale, At, IInv, Sound
<1>3. disk' \in [Libs -> Parts] /\ \A k \in Libs \ {l} : disk'[k] = disk[k]
  BY RemovedLeaves DEF Drop
<1>4. run' = [run EXCEPT ![p] = r] /\ UNCHANGED <<lock, imports, tip, repo>> /\ calm' = calm \cap {p}
  BY <1>1 DEF Drop, Alters, IInv, TypeOK
<1>5. ASSUME p \in calm PROVE Following(r)'
  <2>1. Following(r)
    BY <1>2, <1>5
  <2>2. \A T \in SUBSET Libs : Closed(T, r.pins)' => Closed(T, r.pins)
    BY <1>4 DEF Closed, Followed
  <2>3. \A k \in Libs : r.pins[k] # None => disk'[k] = r.pins[k].commit
    BY <1>2, <1>3, <2>1 DEF Following
  <2> QED BY <1>2, <1>4, <2>1, <2>2, <2>3 DEF Following, Followed
<1> QED BY <1>1, <1>2, <1>3, <1>4, <1>5, Becomes DEF IInv, TypeOK, Locking

-----------------------------------------------------------------------------
(* What a lock writes, and what a build loads. *)

LEMMA TreesAreTrees == ASSUME IInv, NEW l \in Libs PROVE Tree(l) \in Trees
BY ConstantsApart DEF Tree, Trees, IInv, TypeOK

LEMMA PinKeeps == ASSUME IInv, NEW p \in Commands, Pin(p) PROVE IInv'
<1>1. PICK r \in Runs : r = run[p]
  BY Running DEF Pin, At
<1>2. PICK l \in Libs : l = r.lib
  BY <1>1 DEF Pin, At, IInv, Sound, Shape, Runs
<1>3. /\ r.at = "pinning" /\ r.pin # None /\ r.pin.commit # 0 /\ Locking(p)
      /\ Shape(r) /\ (p \in calm => Following(r))
  BY <1>1, <1>2, ConstantsApart DEF IInv, Sound, At, Shape, Pin, Locking
<1>4. PICK pin \in Pins :
        /\ pin = IF r.pin.tree = None THEN [r.pin EXCEPT !.tree = Tree(l)] ELSE r.pin
        /\ pin.commit = r.pin.commit
  <2>1. r.pin \in Wanted /\ r.pin.commit \in Commits /\ Tree(l) \in Trees
    BY <1>3, TreesAreTrees DEF Runs, Wanted
  <2>2. CASE r.pin.tree = None
    <3>1. PICK pin \in Pins : pin = [r.pin EXCEPT !.tree = Tree(l)]
      BY <2>1 DEF Wanted, Pins
    <3> QED BY <2>1, <2>2, <3>1 DEF Wanted
  <2>3. CASE r.pin.tree # None
    BY <2>1, <2>3 DEF Wanted, Pins
  <2> QED BY <2>2, <2>3
<1> DEFINE todo == (r.todo \cup ImportsIn(l, disk[l])) \ r.seen
<1>5. ImportsIn(l, disk[l]) \subseteq Libs
  <2>1. Imports[l] \in [Commits -> SUBSET Libs]
    BY ConstantsApart
  <2> QED BY <2>1 DEF ImportsIn
<1>6. PICK s \in Runs : s = [Cleared(r) EXCEPT !.pins[l] = pin,
                                              !.todo = todo]
  BY <1>1, <1>5 DEF Runs, Places, Cleared, Locks
<1>7. /\ s.kind = r.kind /\ s.lock = r.lock /\ s.lib = None /\ s.todo = todo
      /\ s.seen = r.seen /\ s.at = "next" /\ s.pins = [r.pins EXCEPT ![l] = pin]
  BY <1>6 DEF Runs, Cleared
<1>8. UNCHANGED <<workspace, tip, repo, calm>> /\ run' = [run EXCEPT ![p] = s]
  <2>1. pin = IF run[p].pin.tree = None THEN [run[p].pin EXCEPT !.tree = Tree(run[p].lib)] ELSE run[p].pin
    BY <1>1, <1>2, <1>4
  <2> QED BY <1>1, <1>2, <1>6, <2>1 DEF Pin
<1>9. Shape(s)
  BY <1>1, <1>3, <1>7 DEF Shape, Locking
<1>10. ASSUME p \in calm PROVE Following(s)'
  <2>1. Following(r) /\ UNCHANGED <<imports, disk>>
    BY <1>3, <1>8, <1>10 DEF workspace
  <2>2. disk[l] = pin.commit /\ pin.commit \in Commits /\ pin # None
    BY <1>2, <1>3, <1>4, <2>1, ConstantsApart DEF Following, Pins, Wanted
  <2>3. ImportsIn(l, disk[l]) = Imports[l][pin.commit]
    BY <2>2 DEF ImportsIn
  <2>4. s.pins[l] = pin /\ \A k \in Libs \ {l} : s.pins[k] = r.pins[k]
    BY <1>7 DEF Runs, Locks
  <2>5. s.seen \cup s.todo = r.seen \cup r.todo \cup Imports[l][pin.commit]
    BY <1>7, <2>3
  <2>6. r.pins[l] = None /\ l \in r.seen /\ l # None
    BY <1>2, <2>1, ConstantsApart DEF Following
  <2>7. /\ Followed(s.pins)[l] = Imports[l][pin.commit]
        /\ \A k \in Libs \ {l} : Followed(s.pins)[k] = Followed(r.pins)[k]
        /\ Followed(r.pins)[l] = {}
    BY <2>2, <2>4, <2>6 DEF Followed
  <2>8. ASSUME NEW T \in SUBSET Libs, Closed(T, s.pins)' PROVE s.seen \cup s.todo \subseteq T
    <3>1. imports \subseteq T /\ \A k \in T : Followed(s.pins)[k] \subseteq T
      BY <2>1, <2>8 DEF Closed, Followed
    <3>2. Closed(T, r.pins)
      BY <2>7, <3>1 DEF Closed
    <3>3. r.seen \cup r.todo \subseteq T
      BY <2>1, <3>2 DEF Following
    <3> QED BY <2>5, <2>6, <2>7, <3>1, <3>3
  <2>9. \A k \in Libs : Followed(s.pins)[k] \subseteq s.seen \cup s.todo
    BY <2>1, <2>5, <2>7 DEF Following
  <2>10. imports \subseteq s.seen \cup s.todo /\ s.seen \cap s.todo = {}
    BY <1>7, <2>1, <2>5 DEF Following
  <2>11. \A k \in Libs : k \in s.seen <=> (s.pins[k] # None \/ k = s.lib)
    BY <1>2, <1>7, <2>1, <2>2, <2>4, <2>6, ConstantsApart DEF Following
  <2>12. \A k \in Libs : s.pins[k] # None => disk[k] = s.pins[k].commit
    BY <2>1, <2>2, <2>4 DEF Following
  <2> QED BY <1>7, <2>1, <2>8, <2>9, <2>10, <2>11, <2>12 DEF Following, Followed
<1> QED BY <1>1, <1>3, <1>7, <1>8, <1>9, <1>10, Becomes DEF IInv, TypeOK, workspace, Locking

LEMMA WriteKeeps == ASSUME IInv, NEW p \in Commands, Write(p) PROVE IInv'
<1>1. lock' \in Locks
  BY Running DEF Write, At, Runs
<1>2. TypeOK' /\ run'[p] = None /\ calm' = {}
  BY <1>1 DEF Write, IInv, TypeOK
<1>3. \A q \in Commands \ {p} : run'[q] = run[q]
  BY DEF Write, IInv, TypeOK
<1> QED BY <1>2, <1>3, Alone DEF Sound

LEMMA LoadKeeps == ASSUME IInv, NEW p \in Commands, Load(p) PROVE IInv'
<1>1. PICK r \in Runs : r = run[p]
  BY Running DEF Load, At
<1>2. /\ r.at = "next" /\ r.todo = {} /\ r.lib = None /\ ~Locking(p) /\ Shape(r)
      /\ (p \in calm => Restoring(r)) /\ UNCHANGED <<workspace, tip, repo, calm>>
  BY <1>1 DEF Load, At, IInv, Sound, Shape
<1> DEFINE reached == Reached(imports, [l \in Libs |-> ImportsIn(l, disk[l])])
           loaded == [l \in Libs |-> IF l \in reached THEN Tree(l) ELSE None]
<1>3. loaded \in [Libs -> Trees \cup {None}]
  BY TreesAreTrees
<1>4. PICK s \in Runs : s = [r EXCEPT !.at = "checking", !.loaded = loaded]
  BY <1>1, <1>3 DEF Runs, Places
<1>5. /\ s.kind = r.kind /\ s.lock = r.lock /\ s.lib = r.lib /\ s.todo = r.todo
      /\ s.differ = r.differ /\ s.pin = r.pin /\ s.at = "checking" /\ s.loaded = loaded
  BY <1>4 DEF Runs
<1>6. run' = [run EXCEPT ![p] = s]
  BY <1>1, <1>4 DEF Load, Runs
<1>7. Shape(s)
  BY <1>1, <1>2, <1>5 DEF Shape, Locking
<1>8. ASSUME p \in calm PROVE Restoring(s)'
  <2>1. Restoring(r) /\ UNCHANGED <<lock, disk>>
    BY <1>2, <1>8 DEF workspace
  <2>2. \A l \in Libs : s.loaded[l] # None => s.loaded[l] = Tree(l)
    BY <1>5
  <2> QED BY <1>2, <1>5, <2>1, <2>2 DEF Restoring, AsPinned, Tree, Committed, Pinned
<1> QED BY <1>1, <1>2, <1>5, <1>6, <1>7, <1>8, Becomes DEF IInv, TypeOK, workspace, Locking

LEMMA CommandKeeps == ASSUME Flat, IInv, NEW p \in Commands, Command(p) PROVE IInv'
<1>1. CASE \E kind \in Kinds : Begin(p, kind) BY <1>1, BeginKeeps
<1>2. CASE \E l \in Libs : LockNext(p, l) BY <1>2, LockNextKeeps
<1>3. CASE \E l \in Libs : RestoreNext(p, l) BY <1>3, RestoreNextKeeps
<1>4. CASE \E l \in Libs : Drop(p, l) BY <1>4, DropKeeps
<1>5. CASE Cached(p) BY <1>5, CachedKeeps
<1>6. CASE Clone(p) BY <1>6, CloneKeeps
<1>7. CASE Fetch(p) BY <1>7, FetchKeeps
<1>8. CASE Archive(p) BY <1>8, ArchiveKeeps
<1>9. CASE Remove(p) BY <1>9, RemoveKeeps
<1>10. CASE Rename(p) BY <1>10, RenameKeeps
<1>11. CASE Pin(p) BY <1>11, PinKeeps
<1>12. CASE Write(p) BY <1>12, WriteKeeps
<1>13. CASE Load(p) BY <1>13, LoadKeeps
<1>14. CASE Check(p) BY <1>14, DoneKeeps DEF Check, IInv, TypeOK
<1>15. CASE Fail(p) BY <1>15, DoneKeeps DEF Fail, IInv, TypeOK
<1> QED BY <1>1, <1>2, <1>3, <1>4, <1>5, <1>6, <1>7, <1>8, <1>9, <1>10, <1>11,
           <1>12, <1>13, <1>14, <1>15 DEF Command

-----------------------------------------------------------------------------
(* What others do, and the theorems. *)

LEMMA PulledIsALock == ASSUME IInv PROVE LockedAt(imports, tip) \in Locks
<1>1. \A l \in Libs : Committed(l, tip) \in Trees
  BY ConstantsApart DEF Committed, Trees, Parts, IInv, TypeOK
<1> QED BY <1>1 DEF LockedAt, Locks, Pins, IInv, TypeOK

LEMMA SomeoneKeeps == ASSUME IInv, Someone PROVE IInv'
<1>1. TypeOK' /\ UNCHANGED run
  <2>1. CASE Push
    BY <2>1 DEF Push, IInv, TypeOK, workspace
  <2>2. CASE Clean
    BY <2>2 DEF Clean, Changed, IInv, TypeOK, Parts
  <2>3. CASE Pull
    BY <2>3, PulledIsALock DEF Pull, Changed, IInv, TypeOK
  <2>4. CASE \E S \in SUBSET Libs : EditImports(S)
    BY <2>4 DEF EditImports, Changed, IInv, TypeOK
  <2>5. CASE \E l \in Libs : EditLibrary(l)
    BY <2>5 DEF EditLibrary, Changed, IInv, TypeOK, Parts
  <2> QED BY <2>1, <2>2, <2>3, <2>4, <2>5 DEF Someone
<1>2. calm' = {} \/ (calm' = calm /\ UNCHANGED workspace)
  BY DEF Someone, Push, Clean, Pull, EditImports, EditLibrary, Changed
<1>3. \A q \in Commands : Sound(q)'
  BY <1>1, <1>2, Undisturbed
<1> QED BY <1>1, <1>2, <1>3 DEF IInv

LEMMA Starts == Init => IInv
BY ConstantsApart DEF Init, IInv, TypeOK, Sound, Parts

LEMMA Stays == ASSUME Flat PROVE IInv /\ [Next]_vars => IInv'
<1> SUFFICES ASSUME IInv, [Next]_vars PROVE IInv'
  OBVIOUS
<1>1. CASE Someone BY <1>1, SomeoneKeeps
<1>2. CASE \E p \in Commands : Command(p) BY <1>2, CommandKeeps
<1>3. CASE UNCHANGED vars
  <2>1. TypeOK' /\ UNCHANGED <<run, calm, workspace>>
    BY <1>3 DEF vars, workspace, IInv, TypeOK
  <2>2. \A q \in Commands : Sound(q)'
    BY <2>1, Undisturbed
  <2> QED BY <2>1, <2>2 DEF IInv
<1> QED BY <1>1, <1>2, <1>3 DEF Next

\* The lock, the libraries and what each command is at keep their shape, for
\* any libraries not within each other.
THEOREM Types == ASSUME Flat PROVE Spec => []TypeOK
<1>1. Init => IInv BY Starts
<1>2. IInv /\ [Next]_vars => IInv' BY Stays
<1>3. IInv => TypeOK BY DEF IInv
<1> QED BY <1>1, <1>2, <1>3, PTL DEF Spec

LEMMA ChecksAreExact ==
    ASSUME IInv, NEW p \in Commands, p \in calm, PinsTrue, Check(p), run[p].kind = "strict"
    PROVE  Exactly(p)
<1>1. PICK r \in Runs : r = run[p]
  BY Running DEF Check, At
<1>2. r.at = "checking" /\ r.lib = None /\ Restoring(r)
  BY <1>1 DEF Check, At, IInv, Sound, Shape, Locking
<1>3. r.differ = {} /\ Loaded(p) \subseteq Pinned(lock)
  BY <1>1 DEF Check, Passes
<1>4. ASSUME NEW l \in Loaded(p) PROVE r.loaded[l] = lock[l].tree
  <2>1. l \in Libs /\ l # None /\ r.loaded[l] = Tree(l) /\ l \in Pinned(lock)
    BY <1>1, <1>2, <1>3, ConstantsApart DEF Loaded, Restoring
  <2>2. AsPinned(l)
    BY <1>2, <1>3, <2>1 DEF Restoring
  <2> QED BY <2>1, <2>2 DEF AsPinned, PinsTrue
<1> QED BY <1>1, <1>3, <1>4 DEF Exactly

\* What a strict build that nobody else disturbs has loaded is what is
\* pinned, for any commands and libraries not within each other, whatever was
\* there and whatever was killed before (lock.rs, restore and check_strict).
THEOREM StrictBuildsArePinned == ASSUME Flat PROVE Spec => StrictIsPinned
<1>1. Init => IInv BY Starts
<1>2. IInv /\ [Next]_vars => IInv' BY Stays
<1>3. IInv => [\A p \in Commands : p \in calm /\ PinsTrue /\ Check(p) /\ run[p].kind = "strict"
                  => Exactly(p)]_vars
  BY ChecksAreExact
<1> QED BY <1>1, <1>2, <1>3, PTL DEF Spec, StrictIsPinned

LEMMA WritesFollow ==
    ASSUME Flat, IInv, NEW p \in Commands, p \in calm, Write(p)
    PROVE  /\ Pinned(lock') = Reached(imports, Followed(lock'))
           /\ \A l \in Pinned(lock') : Tree(l) = Committed(l, lock'[l].commit)
<1>1. PICK r \in Runs : r = run[p]
  BY Running DEF Write, At
<1>2. /\ r.at = "next" /\ r.lib = None /\ r.todo = {} /\ Following(r)
      /\ lock' = r.pins /\ r.pins # None
  BY <1>1, ConstantsApart DEF Write, At, IInv, Sound, Shape, Locking, Runs
<1>3. Pinned(lock') = r.seen
  BY <1>2, ConstantsApart DEF Following, Pinned, Runs
<1>4. r.seen \subseteq Reached(imports, Followed(lock'))
  BY <1>2 DEF Following, Closed, Reached, Runs
<1>5. Reached(imports, Followed(lock')) \subseteq r.seen
  <2>1. r.seen \in SUBSET Libs /\ imports \subseteq r.seen
        /\ \A l \in r.seen : Followed(lock')[l] \subseteq r.seen
    BY <1>2 DEF Following, Runs
  <2> QED BY <2>1 DEF Reached
<1>6. \A l \in Pinned(lock') : Tree(l) = Committed(l, lock'[l].commit)
  BY <1>2 DEF Following, Pinned, Flat, Tree, Committed
<1> QED BY <1>3, <1>4, <1>5, <1>6

\* A lock that nobody else disturbs pins what the imports reach and leaves
\* each pinned library at its commit, for any commands and libraries not
\* within each other (lock.rs, lock).
THEOREM LocksArePinned == ASSUME Flat PROVE Spec => LockedAsPinned
<1>1. Init => IInv BY Starts
<1>2. IInv /\ [Next]_vars => IInv' BY Stays
<1>3. IInv => [\A p \in Commands : p \in calm /\ Write(p)
                  => /\ Pinned(lock') = Reached(imports, Followed(lock'))
                     /\ \A l \in Pinned(lock') : Tree(l) = Committed(l, lock'[l].commit)]_vars
  BY WritesFollow
<1> QED BY <1>1, <1>2, <1>3, PTL DEF Spec, LockedAsPinned
-----------------------------------------------------------------------------
(* The stamps of the workspace's files. *)

FsTypes ==
    /\ clock \in Nat
    /\ files \in [Paths -> Nodes \cup {Nil}]
    /\ inode \in [Nodes -> [entry : Entries \cup {Nil}, changed : Nat]]
    /\ \A n \in Nodes : inode[n].changed <= clock
    /\ \A p \in Paths : files[p] # Nil => inode[files[p]].entry \in Entries

BuildTypes ==
    /\ kept \in Notes
    /\ seen \in [Builds -> Notes]
    /\ now \in [Builds -> Nat \cup {Nil}]
    /\ work \in [Builds -> [path : Inputs, stamp : Stamps] \cup {Nil}]
    /\ \A b \in Builds : now[b] # Nil => now[b] <= clock
    /\ \A b \in Builds : work[b] # Nil => now[b] # Nil

\* No two paths have one node.
Apart == \A p, q \in Paths : files[p] # Nil /\ files[p] = files[q] => p = q

\* A note is older than the clock, and its node, if anything still has it and
\* it was not changed since, is as it was.
NoteSound(note) ==
    note # Nil =>
        /\ note.stamp.changed < clock
        /\ \A p \in Paths :
             files[p] = note.stamp.node /\ inode[note.stamp.node].changed = note.stamp.changed
                => inode[note.stamp.node].entry = note.entry

NotesSound == \A p \in Inputs : NoteSound(kept[p]) /\ \A b \in Builds : NoteSound(seen[b][p])

\* What was looked at, if it is to be trusted and is not changed since, is
\* still at its path.
WorkSound ==
    \A b \in Builds : work[b] # Nil /\ work[b].stamp.changed < now[b] =>
        \A p \in Paths :
            files[p] = work[b].stamp.node
                /\ inode[work[b].stamp.node].changed = work[b].stamp.changed
            => p = work[b].path

StampsInv == FsTypes /\ BuildTypes /\ Apart /\ NotesSound /\ WorkSound

-----------------------------------------------------------------------------
(* What is done to the files. *)

\* A change of one node, now, of a file that is or comes to be at `p`, the
\* other files being where they were or gone, keeps the invariant.
LEMMA NodeChangedKeeps ==
    ASSUME StampsInv,
           NEW p \in Paths, NEW n \in Nodes, NEW e \in Entries,
           files' \in [Paths -> Nodes \cup {Nil}],
           files'[p] = n,
           \A q \in Paths : q # p => files'[q] \in {files[q], Nil} /\ files'[q] # n,
           Stamped(n, e),
           UNCHANGED <<clock, kept, build>>
    PROVE  StampsInv'
<1>1. inode' \in [Nodes -> [entry : Entries \cup {Nil}, changed : Nat]]
  BY NilApart DEF StampsInv, FsTypes, Stamped, Free
<1>2. \A k \in Nodes : inode'[k].changed <= clock
  BY DEF StampsInv, FsTypes, Stamped, Free
<1>3. inode'[n] = [entry |-> e, changed |-> clock]
  BY DEF Stamped
<1>4. \A q \in Paths : files'[q] # Nil /\ files'[q] # n => q # p /\ files'[q] = files[q] /\ inode'[files'[q]] = inode[files[q]]
  BY DEF Stamped, Used
<1>5. FsTypes'
  BY <1>1, <1>2, <1>3, <1>4 DEF StampsInv, FsTypes
<1>6. BuildTypes'
  BY DEF StampsInv, BuildTypes, build
<1>7. Apart'
  BY <1>4 DEF StampsInv, Apart
<1>8. ASSUME NEW note \in [stamp : Stamps, entry : Entries] \cup {Nil}, NoteSound(note)
      PROVE  NoteSound(note)'
  <2>1. SUFFICES ASSUME note # Nil, NEW q \in Paths, files'[q] = note.stamp.node,
                        inode'[note.stamp.node].changed = note.stamp.changed
                 PROVE  inode'[note.stamp.node].entry = note.entry
    BY <1>8 DEF NoteSound
  <2>2. note.stamp.changed < clock /\ note.stamp.node \in Nodes
    BY <1>8, <2>1 DEF NoteSound, Stamps
  <2>3. files'[q] # n
    BY <1>3, <2>1, <2>2 DEF StampsInv, FsTypes, Stamps
  <2>4. files'[q] # Nil
    BY <2>1, <2>2, NilApart
  <2> QED BY <1>4, <1>8, <2>1, <2>3, <2>4 DEF NoteSound
<1>9. NotesSound'
  BY <1>8 DEF StampsInv, NotesSound, BuildTypes, Notes, build
<1>10. WorkSound'
  <2>1. SUFFICES ASSUME NEW b \in Builds, work[b] # Nil, work[b].stamp.changed < now[b],
                        NEW q \in Paths, files'[q] = work[b].stamp.node,
                        inode'[work[b].stamp.node].changed = work[b].stamp.changed
                 PROVE  q = work[b].path
    BY DEF WorkSound, build
  <2>2. work[b].stamp.node \in Nodes /\ work[b].stamp.changed \in Nat /\ now[b] \in Nat /\ now[b] <= clock
    BY <2>1 DEF StampsInv, BuildTypes, Stamps
  <2>3. files'[q] # n
    BY <1>3, <2>1, <2>2 DEF StampsInv, FsTypes
  <2>4. files'[q] # Nil
    BY <2>1, <2>2, NilApart
  <2> QED BY <1>4, <2>1, <2>3, <2>4 DEF StampsInv, WorkSound
<1> QED BY <1>5, <1>6, <1>7, <1>9, <1>10 DEF StampsInv

LEMMA TickKeeps == ASSUME StampsInv, Tick PROVE StampsInv'
<1>1. FsTypes' /\ BuildTypes' /\ Apart'
  BY DEF Tick, StampsInv, FsTypes, BuildTypes, Apart, build
<1>2. NotesSound'
  BY DEF Tick, StampsInv, NotesSound, NoteSound, FsTypes, BuildTypes, Notes, Stamps, build
<1>3. WorkSound'
  BY DEF Tick, StampsInv, WorkSound, build
<1> QED BY <1>1, <1>2, <1>3 DEF StampsInv

LEMMA EditKeeps == ASSUME StampsInv, NEW p \in Paths, NEW e \in Entries, Edit(p, e) PROVE StampsInv'
<1>1. files[p] \in Nodes
  BY DEF Edit, StampsInv, FsTypes
<1>2. \A q \in Paths : q # p => files'[q] = files[q] /\ files'[q] # files[p]
  BY <1>1, NilApart DEF Edit, StampsInv, Apart
<1> QED BY <1>1, <1>2, NodeChangedKeeps DEF Edit, StampsInv, FsTypes

LEMMA ReplaceKeeps ==
    ASSUME StampsInv, NEW p \in Paths, NEW n \in Nodes, NEW e \in Entries, Replace(p, n, e)
    PROVE  StampsInv'
<1>1. files' \in [Paths -> Nodes \cup {Nil}] /\ files'[p] = n
  BY DEF Replace, StampsInv, FsTypes
<1>2. \A q \in Paths : q # p => files'[q] = files[q] /\ files'[q] # n
  BY DEF Replace, Used, StampsInv, FsTypes
<1> QED BY <1>1, <1>2, NodeChangedKeeps DEF Replace

LEMMA MoveKeeps == ASSUME StampsInv, NEW p \in Paths, NEW q \in Paths, Move(p, q) PROVE StampsInv'
<1>1. files[p] \in Nodes /\ Contents(p) \in Entries
  BY DEF Move, StampsInv, FsTypes, Contents
<1>2. files' \in [Paths -> Nodes \cup {Nil}] /\ files'[q] = files[p] /\ files'[p] = Nil
  BY DEF Move, StampsInv, FsTypes
<1>3. \A r \in Paths : r # q => files'[r] \in {files[r], Nil} /\ files'[r] # files[p]
  BY <1>1, <1>2, NilApart DEF Move, StampsInv, FsTypes, Apart
<1> QED BY <1>1, <1>2, <1>3, NodeChangedKeeps DEF Move

LEMMA SwapKeeps ==
    ASSUME ~Swaps, StampsInv, NEW p \in Paths, NEW q \in Paths, Swap(p, q)
    PROVE  StampsInv'
<1>1. \A b \in Builds : work[b] = Nil
  BY DEF Swap
<1>2. files' \in [Paths -> Nodes \cup {Nil}] /\ files'[p] = files[q] /\ files'[q] = files[p]
  BY DEF Swap, StampsInv, FsTypes
<1>3. \A r \in Paths : r \notin {p, q} => files'[r] = files[r]
  BY DEF Swap, StampsInv, FsTypes
<1>4. \A r \in Paths : \E s \in Paths : files'[r] = files[s]
  BY <1>2, <1>3
<1>5. FsTypes'
  BY <1>2, <1>4 DEF Swap, StampsInv, FsTypes
<1>6. BuildTypes'
  BY DEF Swap, StampsInv, BuildTypes, build
<1>7. Apart'
  BY <1>2, <1>3 DEF StampsInv, Apart
<1>8. NotesSound'
  <2>1. ASSUME NEW note, NoteSound(note) PROVE NoteSound(note)'
    <3>1. UNCHANGED <<clock, inode>>
      BY DEF Swap
    <3>2. SUFFICES ASSUME note # Nil, NEW r \in Paths, files'[r] = note.stamp.node,
                          inode[note.stamp.node].changed = note.stamp.changed
                   PROVE  inode[note.stamp.node].entry = note.entry
      BY <2>1, <3>1 DEF NoteSound
    <3>3. PICK t \in Paths : files'[r] = files[t]
      BY <1>4
    <3> QED BY <2>1, <3>2, <3>3 DEF NoteSound
  <2>2. UNCHANGED <<kept, seen>>
    BY DEF Swap, build
  <2>3. \A r \in Inputs : NoteSound(kept[r])' /\ \A b \in Builds : NoteSound(seen[b][r])'
    BY <2>1, <2>2 DEF StampsInv, NotesSound
  <2> QED BY <2>2, <2>3 DEF NotesSound
<1>9. WorkSound'
  BY <1>1 DEF Swap, WorkSound, build
<1> QED BY <1>5, <1>6, <1>7, <1>8, <1>9 DEF StampsInv

LEMMA EditFilesKeep == ASSUME ~Swaps, StampsInv, EditFiles PROVE StampsInv'
<1>1. CASE Tick BY <1>1, TickKeeps
<1>2. CASE \E p \in Paths, e \in Entries : Edit(p, e) BY <1>2, EditKeeps
<1>3. CASE \E p \in Paths, e \in Entries, n \in Nodes : Replace(p, n, e) BY <1>3, ReplaceKeeps
<1>4. CASE \E p, q \in Paths : Move(p, q) BY <1>4, MoveKeeps
<1>5. CASE \E p, q \in Paths : Swap(p, q) BY <1>5, SwapKeeps
<1>6. CASE \E e \in Entries : Evict(e)
  BY <1>6 DEF Evict, StampsInv, FsTypes, BuildTypes, Apart, NotesSound, NoteSound, WorkSound, build
<1> QED BY <1>1, <1>2, <1>3, <1>4, <1>5, <1>6 DEF EditFiles

-----------------------------------------------------------------------------
(* A build. *)

LEMMA BeginBuildKeeps == ASSUME StampsInv, NEW b \in Builds, BeginBuild(b) PROVE StampsInv'
<1>1. FsTypes' /\ Apart'
  BY DEF BeginBuild, StampsInv, FsTypes, Apart, fs
<1>2. work[b] = Nil
  BY DEF BeginBuild, StampsInv, BuildTypes
<1>3. BuildTypes'
  BY <1>2 DEF BeginBuild, Began, StampsInv, BuildTypes, FsTypes, Notes, fs
<1>4. NotesSound'
  BY DEF BeginBuild, StampsInv, NotesSound, NoteSound, BuildTypes, fs
<1>5. WorkSound'
  BY <1>2 DEF BeginBuild, Began, StampsInv, WorkSound, BuildTypes, fs
<1> QED BY <1>1, <1>3, <1>4, <1>5 DEF StampsInv

LEMMA AgainKeeps == ASSUME StampsInv, NEW b \in Builds, Again(b) PROVE StampsInv'
<1>1. FsTypes' /\ Apart' /\ NotesSound'
  BY DEF Again, StampsInv, FsTypes, Apart, NotesSound, NoteSound, fs
<1>2. BuildTypes'
  BY DEF Again, Began, StampsInv, BuildTypes, FsTypes, fs
<1>3. WorkSound'
  BY DEF Again, Began, StampsInv, WorkSound, BuildTypes, fs
<1> QED BY <1>1, <1>2, <1>3 DEF StampsInv

LEMMA LookKeeps == ASSUME StampsInv, NEW b \in Builds, NEW p \in Inputs, Look(b, p) PROVE StampsInv'
<1>1. FsTypes' /\ Apart' /\ NotesSound'
  BY DEF Look, StampsInv, FsTypes, Apart, NotesSound, NoteSound, fs
<1>2. CASE UNCHANGED work
  BY <1>1, <1>2 DEF Look, StampsInv, BuildTypes, FsTypes, WorkSound, fs
<1>3. CASE work' = [work EXCEPT ![b] = [path |-> p, stamp |-> StampOf(files[p])]]
  <2>1. p \in Paths /\ files[p] \in Nodes
    BY NilApart DEF Look, StampsInv, FsTypes
  <2>2. StampOf(files[p]) \in Stamps
    BY <2>1 DEF StampOf, Stamps, StampsInv, FsTypes
  <2>3. BuildTypes'
    BY <1>3, <2>2 DEF Look, StampsInv, BuildTypes, FsTypes, fs
  <2>4. WorkSound'
    <3>1. SUFFICES ASSUME NEW c \in Builds, work'[c] # Nil, work'[c].stamp.changed < now[c],
                          NEW q \in Paths, files[q] = work'[c].stamp.node,
                          inode[work'[c].stamp.node].changed = work'[c].stamp.changed
                   PROVE  q = work'[c].path
      BY DEF WorkSound, Look, fs
    <3>2. CASE c = b
      BY <1>3, <2>1, <3>1, <3>2, NilApart DEF StampsInv, Apart, BuildTypes, StampOf
    <3>3. CASE c # b
      BY <1>3, <3>1, <3>3 DEF StampsInv, WorkSound, BuildTypes
    <3> QED BY <3>2, <3>3
  <2> QED BY <1>1, <2>3, <2>4 DEF StampsInv
<1> QED BY <1>2, <1>3 DEF Look

LEMMA ReadKeeps == ASSUME StampsInv, NEW b \in Builds, Read(b) PROVE StampsInv'
<1> DEFINE p == work[b].path
           s == work[b].stamp
           e == Contents(p)
<1>1. work[b] \in [path : Inputs, stamp : Stamps] /\ p \in Inputs /\ s \in Stamps
  BY DEF Read, StampsInv, BuildTypes
<1>2. p \in Paths /\ now[b] \in Nat /\ now[b] <= clock
  BY <1>1, NilApart DEF Read, StampsInv, BuildTypes
<1>3. FsTypes' /\ Apart'
  BY DEF Read, StampsInv, FsTypes, Apart
<1>4. WorkSound'
  BY DEF Read, StampsInv, WorkSound, BuildTypes
<1>5. CASE e = Nil
  <2>1. UNCHANGED <<clock, files, inode, kept, now, seen>> /\ work' = [work EXCEPT ![b] = Nil]
    BY <1>5 DEF Read
  <2>2. BuildTypes' /\ NotesSound'
    BY <2>1 DEF StampsInv, BuildTypes, NotesSound, NoteSound
  <2> QED BY <1>3, <1>4, <2>2 DEF StampsInv
<1>6. CASE e # Nil
  <2>1. files[p] \in Nodes /\ e \in Entries /\ e = inode[files[p]].entry
    BY <1>2, <1>6 DEF Contents, StampsInv, FsTypes
  <2> DEFINE note == IF Trusted(b, s) THEN [stamp |-> s, entry |-> e] ELSE Nil
  <2>2. seen' = [seen EXCEPT ![b][p] = note] /\ work' = [work EXCEPT ![b] = Nil]
        /\ UNCHANGED <<clock, files, inode, kept, now>>
    BY <1>6 DEF Read, Noted
  <2>3. note \in [stamp : Stamps, entry : Entries] \cup {Nil}
    BY <1>1, <2>1
  <2>4. seen' \in [Builds -> Notes]
    BY <1>1, <2>2, <2>3 DEF StampsInv, BuildTypes, Notes
  <2>5. BuildTypes'
    BY <2>2, <2>4 DEF StampsInv, BuildTypes
  <2>6. NoteSound(note)
    <3>1. SUFFICES ASSUME Trusted(b, s) PROVE NoteSound([stamp |-> s, entry |-> e])
      BY DEF NoteSound
    <3>2. s.changed < now[b] /\ s.changed < clock
      BY <1>1, <1>2, <3>1 DEF Trusted, Stamps, StampsInv, FsTypes
    <3>3. ASSUME NEW q \in Paths, files[q] = s.node, inode[s.node].changed = s.changed
          PROVE  inode[s.node].entry = e
      <4>1. work[b] # Nil
        BY DEF Read
      <4>2. q = p
        BY <3>2, <3>3, <4>1 DEF StampsInv, WorkSound
      <4> QED BY <2>1, <3>3, <4>2
    <3> QED BY <3>2, <3>3 DEF NoteSound
  <2>7. \A c \in Builds, q \in Inputs :
            seen'[c][q] = IF c = b /\ q = p THEN note ELSE seen[c][q]
    BY <1>1, <2>2 DEF StampsInv, BuildTypes, Notes
  <2>8. NotesSound'
    <3>1. \A c \in Builds, q \in Inputs : NoteSound(seen'[c][q])
      BY <2>6, <2>7 DEF StampsInv, NotesSound
    <3>2. \A q \in Inputs : NoteSound(kept[q])
      BY DEF StampsInv, NotesSound
    <3> QED BY <2>2, <3>1, <3>2 DEF NotesSound, NoteSound
  <2> QED BY <1>3, <1>4, <2>5, <2>8 DEF StampsInv
<1> QED BY <1>5, <1>6

LEMMA StoppedKeeps ==
    ASSUME StampsInv, NEW b \in Builds, Stopped(b), UNCHANGED fs,
           \A p \in Inputs : kept'[p] \in {Nil, kept[p], seen[b][p]},
           kept' \in Notes
    PROVE  StampsInv'
<1>1. FsTypes' /\ Apart'
  BY DEF StampsInv, FsTypes, Apart, fs
<1>2. seen' = [seen EXCEPT ![b] = Unnoted] /\ Unnoted \in Notes
  BY DEF Stopped, Unnoted, Notes
<1>3. BuildTypes'
  BY <1>2 DEF Stopped, StampsInv, BuildTypes, fs
<1>4. \A c \in Builds, p \in Inputs : seen'[c][p] \in {Nil, seen[c][p]}
  BY <1>2 DEF StampsInv, BuildTypes, Unnoted
<1>5. NotesSound'
  <2>1. \A p \in Inputs : NoteSound(kept'[p]) /\ \A c \in Builds : NoteSound(seen'[c][p])
    BY <1>4 DEF StampsInv, NotesSound, NoteSound
  <2> QED BY <2>1 DEF NotesSound, NoteSound, fs
<1>6. WorkSound'
  BY DEF Stopped, StampsInv, WorkSound, BuildTypes, fs
<1> QED BY <1>1, <1>3, <1>5, <1>6 DEF StampsInv

LEMMA BuildKeeps == ASSUME StampsInv, NEW b \in Builds, Build(b) PROVE StampsInv'
<1>1. CASE \E p \in Inputs : Look(b, p) BY <1>1, LookKeeps
<1>2. CASE BeginBuild(b) BY <1>2, BeginBuildKeeps
<1>3. CASE Again(b) BY <1>3, AgainKeeps
<1>4. CASE Read(b) BY <1>4, ReadKeeps
<1>5. CASE End(b)
  <2>1. kept' \in Notes /\ \A p \in Inputs : kept'[p] \in {Nil, kept[p], seen[b][p]}
    BY <1>5 DEF End, StampsInv, BuildTypes, Notes
  <2> QED BY <1>5, <2>1, StoppedKeeps DEF End
<1>6. CASE Die(b)
  BY <1>6, StoppedKeeps DEF Die, StampsInv, BuildTypes
<1> QED BY <1>1, <1>2, <1>3, <1>4, <1>5, <1>6 DEF Build

LEMMA StampsStart == StampsInit => StampsInv
<1> SUFFICES ASSUME StampsInit PROVE StampsInv
  OBVIOUS
<1>1. FsTypes /\ Apart
  BY NilApart DEF StampsInit, FsTypes, Apart, Free
<1>2. Unnoted \in Notes
  BY DEF Unnoted, Notes
<1>3. BuildTypes
  BY <1>2 DEF StampsInit, BuildTypes
<1>4. NotesSound /\ WorkSound
  BY DEF StampsInit, NotesSound, NoteSound, Unnoted, WorkSound
<1> QED BY <1>1, <1>3, <1>4 DEF StampsInv

LEMMA StampsStay == ASSUME ~Swaps PROVE StampsInv /\ [StampsNext]_stampsVars => StampsInv'
<1> SUFFICES ASSUME StampsInv, [StampsNext]_stampsVars PROVE StampsInv'
  OBVIOUS
<1>1. CASE EditFiles BY <1>1, EditFilesKeep
<1>2. CASE \E b \in Builds : Build(b) BY <1>2, BuildKeeps
<1>3. CASE UNCHANGED stampsVars
  BY <1>3 DEF stampsVars, fs, build, StampsInv, FsTypes, BuildTypes, Apart, NotesSound, NoteSound, WorkSound
<1> QED BY <1>1, <1>2, <1>3 DEF StampsNext

LEMMA StampsInvImplies == StampsInv => StampsTrue
<1> SUFFICES ASSUME StampsInv, NEW p \in Inputs, NEW note \in [stamp : Stamps, entry : Entries] \cup {Nil},
                    NoteSound(note), note # Nil, files[p] # Nil, note.stamp = StampOf(files[p])
             PROVE  Contents(p) = note.entry
  BY DEF StampsInv, NotesSound, StampsTrue, StampTrue, BuildTypes, Notes
<1>1. p \in Paths
  BY NilApart
<1>2. note.stamp.node = files[p] /\ note.stamp.changed = inode[files[p]].changed
  BY DEF StampOf
<1> QED BY <1>1, <1>2 DEF NoteSound, Contents

\* No file of the stamp a build has of it, or the last one kept, is anything
\* but what was put, for any builds, files, edits and clock, if no directory
\* is renamed while a build reads a file (store.rs, file_seen).
THEOREM StampsAreTrue == ASSUME ~Swaps PROVE StampsSpec => []StampsTrue
<1>1. StampsInit => StampsInv BY StampsStart
<1>2. StampsInv /\ [StampsNext]_stampsVars => StampsInv' BY StampsStay
<1>3. StampsInv => StampsTrue BY StampsInvImplies
<1> QED BY <1>1, <1>2, <1>3, PTL DEF StampsSpec

\* What a step gives for a file is what the file is.
LEMMA StepGives ==
    ASSUME StampsInv, StampsNext, gave' # Nil
    PROVE  gave'.entry = Contents(gave'.path) /\ gave'.entry \in blobs'
<1>1. ~EditFiles
  BY DEF EditFiles, Tick, Edit, Replace, Move, Swap, Evict
<1>2. PICK b \in Builds : (\E p \in Inputs : Look(b, p)) \/ Read(b)
  BY <1>1 DEF StampsNext, Build, BeginBuild, Again, Began, End, Die, Stopped
<1>3. CASE Read(b)
  BY <1>3 DEF Read, Give
<1>4. CASE \E p \in Inputs : Look(b, p)
  <2>1. PICK p \in Inputs : Look(b, p)
    BY <1>4
  <2>2. PICK e \in Entries : Known(b, p, e) /\ Give(p, e)
    BY <2>1 DEF Look
  <2> DEFINE note == [stamp |-> StampOf(files[p]), entry |-> e]
  <2>3. files[p] # Nil /\ files[p] \in Nodes
    BY <2>1, NilApart DEF Look, StampsInv, FsTypes
  <2>4. StampOf(files[p]) \in Stamps
    BY <2>3 DEF StampOf, Stamps, StampsInv, FsTypes
  <2>5. note \in [stamp : Stamps, entry : Entries]
    BY <2>4
  <2>6. note # Nil
    BY <2>5, NilApart
  <2>7. seen[b][p] # Nil /\ seen[b][p].stamp = StampOf(files[p]) /\ seen[b][p].entry = e
    BY <2>2, <2>6 DEF Known
  <2>8. Contents(p) = e
    BY <2>7, <2>3, StampsInvImplies DEF StampsTrue, StampTrue
  <2>9. e \in blobs'
    BY <2>1, <2>2 DEF Look, Known, fs
  <2> QED BY <2>2, <2>8, <2>9 DEF Give
<1> QED BY <1>2, <1>3, <1>4

\* What a put gives for a file is what the file is, and is in the store,
\* under the same assumption (store.rs, file_seen).
THEOREM PutsGiveWhatIs == ASSUME ~Swaps PROVE StampsSpec => GivesWhatIs
<1>1. StampsInit => StampsInv BY StampsStart
<1>2. StampsInv /\ [StampsNext]_stampsVars => StampsInv' BY StampsStay
<1>3. StampsInv /\ [StampsNext]_stampsVars
        => [gave' # Nil => gave'.entry = Contents(gave'.path) /\ gave'.entry \in blobs']_stampsVars
  BY StepGives
<1> QED BY <1>1, <1>2, <1>3, PTL DEF StampsSpec, GivesWhatIs
=============================================================================
