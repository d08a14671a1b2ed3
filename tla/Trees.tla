------------------------------- MODULE Trees -------------------------------
(***************************************************************************)
(* store/trees.rs and the compositions of layers.rs: a tree is made once   *)
(* as a directory of links to the store's blobs and their copies, which    *)
(* every step of every build mounts, and a step puts files and trees       *)
(* together in compositions, in which no two files may be one.             *)
(*                                                                         *)
(* A file on the host is its node.  A blob's or a copy's is its contents   *)
(* and mode and which of them it is, 0 the blob; a file's of its own, made *)
(* where no link could be, is its step and a number.  Instances are in     *)
(* trees/, by their names, each a tree and its bases, and outlive          *)
(* processes.  A tree is its files in the order a walk comes to them:      *)
(* directories, links and names say nothing of nodes.                      *)
(*                                                                         *)
(* One process at a time has the store's lock alone, and then evicts.      *)
(***************************************************************************)
EXTENDS Naturals, Sequences, FiniteSets, Functions

CONSTANTS
    Procs,       \* processes of a user
    Steps,       \* steps that compose, in any of them
    Entries,     \* contents, each with its mode
    Trees,       \* trees of the store
    Files,       \* the files of each
    Large,       \* the trees that are mounted rather than linked
    Again,       \* whether a finished composition's files are composed again
    MayDie,      \* where a process may be killed
    MaxPlaced,   \* bound, of each step: files and trees it places
    MaxFails,    \* bound: links that can't be made
    MaxKills,    \* bound: processes killed, and builds that end
    None         \* no instance

\* The store's blobs and copies by number, and files of steps' own.
Nodes == (Entries \cup Steps) \X Nat
Names == Trees \X UNION {[D -> Nat] : D \in SUBSET Entries}
Jobs == [name : Names, mount : BOOLEAN, nodes : Seq(Nodes)]

ASSUME NamesAssumption ==
    /\ Entries \cap Steps = {}
    /\ None \notin Entries \cup Steps \cup Names \cup Jobs
    /\ Large \subseteq Trees
    /\ Files \in [Trees -> Seq(Entries)]

VARIABLES
    trees,       \* trees/: the files of each instance
    blobs,       \* the blobs there
    copies,      \* their copies
    phase,       \* what each process does
    home,        \* the process of each step
    noted,       \* Linked: the nodes a process linked a file to
    instances,   \* Materialised: the instances a process knows
    job,         \* what a step makes of a tree, or None
    inputs,      \* the files a step can see that nothing changes
    placing,     \* Known: the nodes of the composition being made
    next,        \*   and the next copy of each content it may link
    placed,      \*   ghost: the files of it, and the trees mounted in it
    own,         \* how many files of its own a step made
    done,        \* how many files and trees it placed
    fails,       \* links that couldn't be made
    kills        \* processes killed, and builds that ended

disk == <<trees, blobs, copies>>
process == <<phase, noted, instances>>
step == <<home, job, inputs, placing, next, placed, own, done>>
vars == <<disk, process, step, fails, kills>>

NoBases == [e \in {} |-> 0]

\* instance_name: a tree, and of some of its contents the copy the first
\* file of it links.
Name(t, bases) == <<t, bases>>

Count(s, e) == Cardinality({i \in DOMAIN s : s[i] = e})

\* materialise_tree_into and origins_of number the files of an instance alike:
\* each links the copy after the last of its contents.
Numbered(name) ==
    LET files == Files[name[1]]
        base(e) == IF e \in DOMAIN name[2] THEN name[2][e] ELSE 0
    IN [i \in DOMAIN files |->
          <<files[i], base(files[i]) + Count(SubSeq(files, 1, i - 1), files[i])>>]

Missing == <<None, 0>>

Init ==
    /\ trees = [n \in {} |-> <<>>]
    /\ blobs = Entries
    /\ copies = {}
    /\ phase = [p \in Procs |-> "out"]
    /\ home \in [Steps -> Procs]
    /\ noted = [p \in Procs |-> {}]
    /\ instances = [p \in Procs |-> {}]
    /\ job = [s \in Steps |-> None]
    /\ inputs = [s \in Steps |-> {}]
    /\ placing = [s \in Steps |-> {}]
    /\ next = [s \in Steps |-> [e \in Entries |-> 0]]
    /\ placed = [s \in Steps |-> <<>>]
    /\ own = [s \in Steps |-> 0]
    /\ done = [s \in Steps |-> 0]
    /\ fails = 0
    /\ kills = 0

Building(s) == phase[home[s]] = "building"
Idle(s) == Building(s) /\ job[s] = None

\* A process opens the store, held shared: no other has it alone.
Open(p) ==
    /\ phase[p] = "out"
    /\ \A q \in Procs : phase[q] \in {"out", "building"}
    /\ phase' = [phase EXCEPT ![p] = "building"]
    /\ UNCHANGED <<disk, noted, instances, step, fails, kills>>

\* A content the store lacks is put again.
Put(p, e) ==
    /\ phase[p] = "building"
    /\ e \notin blobs
    /\ blobs' = blobs \cup {e}
    /\ UNCHANGED <<trees, copies, process, step, fails, kills>>

-----------------------------------------------------------------------------
(* Links to the store's files. *)

\* A file of its own.
Fresh(s) == <<s, own[s]>>

\* copy_path: the copy of number 0 is not the blob.
Copy(e, n) == IF n = 0 THEN <<e, 0, "copy">> ELSE <<e, n>>

\* link_copy: a copy is made if it is not there, another process's being as
\* good.
WithCopies(nodes) ==
    copies \cup {n \in nodes : n[1] \in Entries /\ (n[2] > 0 \/ Len(n) = 3)}

\* note_linked, once for each number of each of the store's files.
Note(s, nodes) ==
    noted' = [noted EXCEPT ![home[s]] = @ \cup
                {n \in nodes : n[1] \in Entries /\ (Len(n) = 3 => <<n[1], 0>> \notin @)}]

\* What the nodes of an instance are when the file at `bad` can't be linked,
\* 0 if all can: it is a file of its own.
Linked(s, name, bad) ==
    [i \in DOMAIN Numbered(name) |-> IF i = bad THEN Fresh(s) ELSE Numbered(name)[i]]

\* A link that can't be made; a file of the step's own.
Failing(failing) ==
    /\ failing => fails < MaxFails
    /\ fails' = IF failing THEN fails + 1 ELSE fails

Owning(s, owning) == own' = IF owning THEN [own EXCEPT ![s] = @ + 1] ELSE own

\* A file a step can see, and where it is in an instance.
File(node, name, i) == [node |-> node, name |-> name, at |-> i]
FilesOf(nodes, name) == {File(nodes[i], name, i) : i \in DOMAIN nodes}

-----------------------------------------------------------------------------
(* Materialising. *)

\* making: a lock for each instance a process makes.
Free(p, name) == \A s \in Steps : home[s] = p /\ job[s] # None => job[s].name # name

\* materialised: an instance that is there is taken as it is.
Use(s, name, mount) ==
    IF mount
    THEN /\ placed' = [placed EXCEPT ![s] = Append(@, [name |-> name])]
         /\ UNCHANGED inputs
    ELSE /\ inputs' = [inputs EXCEPT ![s] = @ \cup FilesOf(trees[name], name)]
         /\ UNCHANGED placed

Materialise(s, name, mount) ==
    /\ Range(Files[name[1]]) \subseteq blobs
    /\ instances' = [instances EXCEPT ![home[s]] = @ \cup {name}]
    /\ IF name \in DOMAIN trees
       THEN Use(s, name, mount) /\ UNCHANGED job
       ELSE /\ Free(home[s], name)
            /\ job' = [job EXCEPT ![s] = [name |-> name, mount |-> mount, nodes |-> <<>>]]
            /\ UNCHANGED <<inputs, placed>>

\* materialise_tree_into, in tmp/.
Make(s) ==
    /\ Building(s)
    /\ job[s] # None
    /\ job[s].nodes = <<>>
    /\ \E bad \in {0} \cup DOMAIN Files[job[s].name[1]] :
         LET nodes == Linked(s, job[s].name, bad) IN
         /\ Failing(bad # 0) /\ Owning(s, bad # 0)
         /\ job' = [job EXCEPT ![s].nodes = nodes]
         /\ copies' = WithCopies(Range(nodes))
         /\ Note(s, Range(nodes))
    /\ UNCHANGED <<trees, blobs, phase, instances, home, inputs, placing, next, placed, done, kills>>

\* The directory is renamed into place, unless another process's is there.
PlacedOver(s) == job[s].nodes

InPlace(s) == IF job[s].name \in DOMAIN trees THEN trees[job[s].name] ELSE job[s].nodes

Rename(s) ==
    /\ Building(s)
    /\ job[s] # None
    /\ job[s].nodes # <<>>
    /\ LET name == job[s].name
           there == InPlace(s)
       IN /\ trees' = [n \in DOMAIN trees \cup {name} |->
                         IF n = name THEN there ELSE trees[n]]
          /\ IF job[s].mount
             THEN placed' = [placed EXCEPT ![s] = Append(@, [name |-> name])] /\ UNCHANGED inputs
             ELSE /\ inputs' = [inputs EXCEPT ![s] = @ \cup FilesOf(there, name)]
                  /\ UNCHANGED placed
    /\ job' = [job EXCEPT ![s] = None]
    /\ UNCHANGED <<blobs, copies, process, home, placing, next, own, done, fails, kills>>

-----------------------------------------------------------------------------
(* A step's inputs, and its compositions. *)

\* StepSandbox::stage of a tree: mounted, or its files linked one by one.
StageTree(s, t) ==
    /\ Idle(s)
    /\ placed[s] = <<>>
    /\ IF t \in Large
       THEN /\ Materialise(s, Name(t, NoBases), FALSE)
            /\ UNCHANGED <<copies, noted, own, fails>>
       ELSE \E bad \in {0} \cup DOMAIN Files[t] :
              /\ Range(Files[t]) \subseteq blobs
              /\ Failing(bad # 0) /\ Owning(s, bad # 0)
              /\ LET nodes == Linked(s, Name(t, NoBases), bad) IN
                 /\ inputs' = [inputs EXCEPT ![s] = @ \cup FilesOf(nodes, None)]
                 /\ copies' = WithCopies(Range(nodes))
                 /\ Note(s, Range(nodes))
              /\ UNCHANGED <<instances, job, placed>>
    /\ UNCHANGED <<trees, blobs, phase, home, placing, next, done, kills>>

\* Which blob or copy a file is: what this process linked, or what a file
\* of an instance it knows is numbered.
Origin(s, file) ==
    IF file.node \in noted[home[s]] THEN <<file.node[1], file.node[2]>>
    ELSE IF file.name # None /\ file.name \in instances[home[s]] THEN Numbered(file.name)[file.at]
    ELSE Missing

\* Layers::placing: the node a file is placed as, `Fresh` if it is a copy.
Placing(s, file) ==
    LET origin == Origin(s, file)
        n == next[s][origin[1]]
    IN IF origin = Missing
       THEN [node |-> IF file.node \in placing[s] THEN Fresh(s) ELSE file.node, next |-> next[s]]
       ELSE IF file.node \notin placing[s] /\ origin[2] >= n
       THEN [node |-> file.node, next |-> [next[s] EXCEPT ![origin[1]] = origin[2] + 1]]
       ELSE [node |-> Copy(origin[1], n), next |-> [next[s] EXCEPT ![origin[1]] = n + 1]]

\* place_file
PlaceFile(s, file) ==
    /\ Idle(s)
    /\ done[s] < MaxPlaced[s]
    /\ done' = [done EXCEPT ![s] = @ + 1]
    /\ file \in inputs[s]
    /\ LET as == Placing(s, file) IN
       \E node \in {as.node, Fresh(s)} :
         /\ Failing(node # as.node)
         /\ Owning(s, node = Fresh(s))
         /\ next' = [next EXCEPT ![s] = as.next]
         /\ placing' = [placing EXCEPT ![s] = @ \cup {file.node}]
         /\ placed' = [placed EXCEPT ![s] = Append(@, [node |-> node])]
         /\ IF node \in {file.node, Fresh(s)}
            THEN UNCHANGED <<copies, noted>>
            ELSE copies' = WithCopies({node}) /\ Note(s, {node})
    /\ UNCHANGED <<trees, blobs, phase, instances, home, job, inputs, kills>>

\* mount_composed: what the composition links already, the instance does not.
BasesNone(s, t) == NoBases

Bases(s, t) ==
    [e \in {f \in Range(Files[t]) : next[s][f] > 0} |-> next[s][e]]

\* place_tree, of a directory that is the store's tree t.
PlaceTree(s, t) ==
    /\ Idle(s)
    /\ done[s] < MaxPlaced[s]
    /\ done' = [done EXCEPT ![s] = @ + 1]
    /\ t \in Large
    /\ \E file \in inputs[s] : file.name # None /\ file.name[1] = t
    /\ next' = [next EXCEPT ![s] = [e \in Entries |-> @[e] + Count(Files[t], e)]]
    /\ Materialise(s, Name(t, Bases(s, t)), TRUE)
    /\ UNCHANGED <<disk, phase, noted, home, placing, own, fails, kills>>

\* What the files of a composition are.
NodesOf(c) == IF "node" \in DOMAIN c THEN <<c.node>> ELSE trees[c.name]

\* A finished composition is one more of what a step can see.
Seen(c) == IF "node" \in DOMAIN c THEN {File(c.node, None, 0)} ELSE FilesOf(trees[c.name], c.name)

\* composed: the composition is sealed, and the next links each file anew.
Composed(s) ==
    /\ Idle(s)
    /\ placed[s] # <<>>
    /\ placing' = [placing EXCEPT ![s] = {}]
    /\ next' = [next EXCEPT ![s] = [e \in Entries |-> 0]]
    /\ placed' = [placed EXCEPT ![s] = <<>>]
    /\ inputs' = IF Again
                 THEN [inputs EXCEPT ![s] = @ \cup UNION {Seen(placed[s][i]) : i \in DOMAIN placed[s]}]
                 ELSE inputs
    /\ UNCHANGED <<disk, process, home, job, own, done, fails, kills>>

-----------------------------------------------------------------------------
(* The end of a process. *)

\* All that was in its memory, and its steps' directories, are gone.
Gone(p) ==
    /\ kills < MaxKills
    /\ kills' = kills + 1
    /\ noted' = [noted EXCEPT ![p] = {}]
    /\ instances' = [instances EXCEPT ![p] = {}]
    /\ LET mine(s) == home[s] = p IN
       /\ job' = [s \in Steps |-> IF mine(s) THEN None ELSE job[s]]
       /\ inputs' = [s \in Steps |-> IF mine(s) THEN {} ELSE inputs[s]]
       /\ placing' = [s \in Steps |-> IF mine(s) THEN {} ELSE placing[s]]
       /\ next' = [s \in Steps |-> IF mine(s) THEN [e \in Entries |-> 0] ELSE next[s]]
       /\ placed' = [s \in Steps |-> IF mine(s) THEN <<>> ELSE placed[s]]
    /\ UNCHANGED <<home, own, done, fails>>

Die(p) ==
    /\ phase[p] \in MayDie
    /\ Gone(p)
    /\ phase' = [phase EXCEPT ![p] = "out"]
    /\ UNCHANGED disk

\* try_alone: no other process has the store open.
NoneRemoving(p) == \A q \in Procs \ {p} : phase[q] \in {"out", "building"}

Alone(p) == \A q \in Procs \ {p} : phase[q] = "out"

\* Its build is over, and it has the store's lock alone: it evicts.
Evict(p) ==
    /\ phase[p] = "building"
    /\ Alone(p)
    /\ \A s \in Steps : home[s] = p => job[s] = None
    /\ Gone(p)
    /\ phase' = [phase EXCEPT ![p] = "forgetting"]
    /\ UNCHANGED disk

\* forget_materialised, file by file.
Forget(p) ==
    /\ phase[p] = "forgetting"
    /\ \E name \in DOMAIN trees :
         IF Range(trees[name]) = {Missing}
         THEN trees' = [n \in DOMAIN trees \ {name} |-> trees[n]]
         ELSE \E i \in DOMAIN trees[name] :
                /\ trees[name][i] # Missing
                /\ trees' = [trees EXCEPT ![name][i] = Missing]
    /\ UNCHANGED <<blobs, copies, process, step, fails, kills>>

Forgotten(p) ==
    /\ phase[p] = "forgetting"
    /\ DOMAIN trees = {}
    /\ phase' = [phase EXCEPT ![p] = "removing"]
    /\ UNCHANGED <<disk, noted, instances, step, fails, kills>>

RemoveBlob(p) ==
    /\ phase[p] = "removing"
    /\ \/ \E e \in blobs : blobs' = blobs \ {e} /\ UNCHANGED copies
       \/ \E c \in copies : copies' = copies \ {c} /\ UNCHANGED blobs
    /\ UNCHANGED <<trees, process, step, fails, kills>>

Evicted(p) ==
    /\ phase[p] = "removing"
    /\ phase' = [phase EXCEPT ![p] = "out"]
    /\ UNCHANGED <<disk, noted, instances, step, fails, kills>>

Step(s) ==
    \/ \E t \in Trees : StageTree(s, t) \/ PlaceTree(s, t)
    \/ \E file \in inputs[s] : PlaceFile(s, file)
    \/ Make(s) \/ Rename(s) \/ Composed(s)

Process(p) ==
    \/ \E e \in Entries : Put(p, e)
    \/ Open(p) \/ Die(p) \/ Evict(p) \/ Forget(p) \/ Forgotten(p) \/ RemoveBlob(p) \/ Evicted(p)

Next == (\E s \in Steps : Step(s)) \/ \E p \in Procs : Process(p)

Spec == Init /\ [][Next]_vars
-----------------------------------------------------------------------------
\* No two files of a composition are one file on the host, whatever the store
\* shares between them, however they came to the step and whoever made the
\* instances they are in (layers.rs, place_file and place_tree).
Distinct ==
    \A s \in Steps : Building(s) =>
        \A i, j \in DOMAIN placed[s] :
            LET a == NodesOf(placed[s][i])
                b == NodesOf(placed[s][j])
            IN \A k \in DOMAIN a, l \in DOMAIN b : a[k] = b[l] => i = j /\ k = l

\* An instance that a build may come upon is whole (store/trees.rs:14).
InstancesWhole ==
    (\E p \in Procs : phase[p] = "building") =>
        \A name \in DOMAIN trees : Missing \notin Range(trees[name])

\* While any process builds, an instance that is there stays as it is, file
\* by file: what a step mounted is not made again under it
\* (store/trees.rs, materialised).
InstancesStay ==
    [][(\E p \in Procs : phase[p] = "building") =>
           /\ DOMAIN trees \subseteq DOMAIN trees'
           /\ \A name \in DOMAIN trees : trees'[name] = trees[name]]_vars
=============================================================================
