------------------------------- MODULE Stamps -------------------------------
(***************************************************************************)
(* The stamps of the files a build puts into the store again and again     *)
(* (store.rs, Seen and tree_seen; engine.rs, workspace_stamps): a file of  *)
(* the stamp it had when it was put is not read.  EditFiles edits the files  *)
(* meanwhile, as quietly as a file system lets them: size, mode and time   *)
(* of modification may be as they were, so that a stamp here is no more    *)
(* than the file's node and its change time, of a clock so coarse that     *)
(* much happens in a tick of it.                                           *)
(*                                                                         *)
(* A file is its node, which is free again once nothing has it.  A build   *)
(* puts one file at a time: it looks at it, and then may read it.  A read  *)
(* is at once.                                                             *)
(***************************************************************************)
EXTENDS Naturals

CONSTANTS
    Builds,     \* of one workspace, which may run at once
    Paths,      \* of files
    Inputs,     \* those a build puts
    Entries,    \* what the store keeps of a file: its contents and mode
    Nodes,      \* of the file system
    Swaps,      \* whether directories are renamed even as a build reads a file
    MaxClock,   \* bound: ticks of the clock
    Nil        \* no file, entry or stamp

VARIABLES
    clock,      \* the file system's
    files,      \* the node at each path
    blobs,      \* what the store has
    inode,      \* what each node is, and when it was changed
    kept,       \* seen/: the stamps of the last build
    seen,       \* Seen: a build's
    now,        \* when a build's put began, Nil if there is no build
    work,       \* what it looked at
    gave        \* what a build was just given for a file

fs == <<clock, files, blobs, inode>>
build == <<seen, now, work>>
stampsVars == <<fs, kept, build, gave>>

Stamps == [node : Nodes, changed : Nat]
Notes == [Inputs -> [stamp : Stamps, entry : Entries] \cup {Nil}]
Unnoted == [p \in Inputs |-> Nil]

ASSUME NilApart ==
    /\ Nil \notin Nodes \cup Entries \cup Nat \cup [stamp : Stamps, entry : Entries]
    /\ Inputs \subseteq Paths

Free == [entry |-> Nil, changed |-> 0]

Contents(p) == IF files[p] = Nil THEN Nil ELSE inode[files[p]].entry

Used(n) == \E p \in Paths : files[p] = n

StampsInit ==
    /\ clock = 0
    /\ files = [p \in Paths |-> Nil]
    /\ blobs = {}
    /\ inode = [n \in Nodes |-> Free]
    /\ kept = Unnoted
    /\ seen = [b \in Builds |-> Unnoted]
    /\ now = [b \in Builds |-> Nil]
    /\ work = [b \in Builds |-> Nil]
    /\ gave = Nil

\* A node changed now; one that nothing has any more is free.
Stamped(n, e) ==
    inode' = [k \in Nodes |->
                IF k = n THEN [entry |-> e, changed |-> clock]
                ELSE IF Used(k)' THEN inode[k] ELSE Free]

-----------------------------------------------------------------------------
(* What is done to the files.  A change's time is the clock's. *)

Tick ==
    /\ clock < MaxClock
    /\ clock' = clock + 1
    /\ UNCHANGED <<files, blobs, inode, kept, build>>
    /\ gave' = Nil

\* In place.
Edit(p, e) ==
    /\ files[p] # Nil
    /\ UNCHANGED <<clock, files, blobs, kept, build>>
    /\ Stamped(files[p], e)
    /\ gave' = Nil

\* By a new file, of whatever node is free.
Replace(p, n, e) ==
    /\ ~Used(n)
    /\ files' = [files EXCEPT ![p] = n]
    /\ UNCHANGED <<clock, blobs, kept, build>>
    /\ Stamped(n, e)
    /\ gave' = Nil

Move(p, q) ==
    /\ p # q /\ files[p] # Nil
    /\ files' = [files EXCEPT ![q] = files[p], ![p] = Nil]
    /\ UNCHANGED <<clock, blobs, kept, build>>
    /\ Stamped(files[p], Contents(p))
    /\ gave' = Nil

\* The directories two files are in change names: neither file is changed.
Swap(p, q) ==
    /\ Swaps \/ \A b \in Builds : work[b] = Nil
    /\ p # q
    /\ files' = [files EXCEPT ![p] = files[q], ![q] = files[p]]
    /\ UNCHANGED <<clock, blobs, inode, kept, build>>
    /\ gave' = Nil

\* With no build running, a blob is evicted.
Evict(e) ==
    /\ \A b \in Builds : now[b] = Nil
    /\ e \in blobs
    /\ blobs' = blobs \ {e}
    /\ UNCHANGED <<clock, files, inode, kept, build>>
    /\ gave' = Nil

-----------------------------------------------------------------------------
(* A build. *)

\* A put begins now, by the file system's clock: workspace_stamps, once for
\* all that a build puts.
Began(b) ==
    /\ now' = [now EXCEPT ![b] = clock]
    /\ gave' = Nil

BeginBuild(b) ==
    /\ now[b] = Nil
    /\ Began(b)
    /\ seen' = [seen EXCEPT ![b] = kept]
    /\ UNCHANGED <<fs, kept, work>>

\* put_tree_seen, once for each put, by what the last saw.
Again(b) ==
    /\ now[b] # Nil /\ work[b] = Nil
    /\ Began(b)
    /\ UNCHANGED <<fs, kept, seen, work>>

StampOf(n) == [node |-> n, changed |-> inode[n].changed]

\* The stamp and the entry agree, and the store has the blob.
KnownAnyway(b, p, e) == seen[b][p] = [stamp |-> StampOf(files[p]), entry |-> e]

Known(b, p, e) ==
    /\ seen[b][p] = [stamp |-> StampOf(files[p]), entry |-> e]
    /\ e \in blobs

Give(p, e) == gave' = [path |-> p, entry |-> e]

\* file_seen: the file's metadata, and what is known by them.
Look(b, p) ==
    /\ now[b] # Nil /\ work[b] = Nil
    /\ files[p] # Nil
    /\ IF \E e \in Entries : Known(b, p, e)
       THEN /\ \E e \in Entries : Known(b, p, e) /\ Give(p, e)
            /\ UNCHANGED work
       ELSE /\ work' = [work EXCEPT ![b] = [path |-> p, stamp |-> StampOf(files[p])]]
            /\ gave' = Nil
    /\ UNCHANGED <<fs, kept, seen, now>>

\* Whether a stamp is old enough to be trusted.
TrustedOfTheTick(b, stamp) == stamp.changed <= now[b]

Trusted(b, stamp) == stamp.changed < now[b]

Noted(b, p, stamp, e) ==
    seen' = [seen EXCEPT ![b][p] =
                IF Trusted(b, stamp) THEN [stamp |-> stamp, entry |-> e] ELSE Nil]

\* put_file_once: what is read, and copied if the store lacks its blob.
Read(b) ==
    /\ work[b] # Nil
    /\ UNCHANGED <<clock, files, inode, kept, now>>
    /\ LET p == work[b].path
           e == Contents(p)
       IN IF e = Nil
          THEN UNCHANGED <<blobs, seen>> /\ gave' = Nil
          ELSE /\ blobs' = blobs \cup {e}
               /\ Noted(b, p, work[b].stamp, e)
               /\ Give(p, e)
    /\ work' = [work EXCEPT ![b] = Nil]

Stopped(b) ==
    /\ now' = [now EXCEPT ![b] = Nil]
    /\ work' = [work EXCEPT ![b] = Nil]
    /\ gave' = Nil
    /\ seen' = [seen EXCEPT ![b] = Unnoted]

\* keep_workspace_stamps: those of files that are there, over another's.
End(b) ==
    /\ now[b] # Nil /\ work[b] = Nil
    /\ kept' = [p \in Inputs |-> IF files[p] = Nil THEN Nil ELSE seen[b][p]]
    /\ Stopped(b)
    /\ UNCHANGED fs

Die(b) ==
    /\ now[b] # Nil
    /\ Stopped(b)
    /\ UNCHANGED <<fs, kept>>

EditFiles ==
    \/ Tick
    \/ \E p \in Paths, e \in Entries : Edit(p, e) \/ \E n \in Nodes : Replace(p, n, e)
    \/ \E p, q \in Paths : Move(p, q) \/ Swap(p, q)
    \/ \E e \in Entries : Evict(e)

Build(b) ==
    \/ \E p \in Inputs : Look(b, p)
    \/ BeginBuild(b) \/ Again(b) \/ Read(b) \/ End(b) \/ Die(b)

StampsNext == EditFiles \/ \E b \in Builds : Build(b)

StampsSpec == StampsInit /\ [][StampsNext]_stampsVars
-----------------------------------------------------------------------------
\* A file of the stamp a build, or the last one, has of it is what it was
\* when it was put, whoever edited it, and however quietly (store.rs:48).
StampTrue(note, p) ==
    note # Nil /\ files[p] # Nil /\ note.stamp = StampOf(files[p]) => Contents(p) = note.entry

StampsTrue ==
    \A p \in Inputs : StampTrue(kept[p], p) /\ \A b \in Builds : StampTrue(seen[b][p], p)

\* What a put gives for a file, read or not, is what the file is, and the
\* store has it, though a stamp outlives its blob (store.rs, file_seen).
GivesWhatIs ==
    [][gave' # Nil =>
          /\ gave'.entry = Contents(gave'.path)
          /\ gave'.entry \in blobs']_stampsVars
=============================================================================
