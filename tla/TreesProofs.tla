----------------------------- MODULE TreesProofs -----------------------------
(***************************************************************************)
(* That an instance that is there stays, and is whole, while any process   *)
(* builds, and that no two files of a composition are one on the host: for *)
(* any processes, steps, trees, files and links that can't be made.        *)
(*                                                                         *)
(* A composition's files of the store, and those that stand for such in    *)
(* instances, have numbers below what it links next, those of an instance  *)
(* it mounts being from there on; a file of a step's own is in one place.  *)
(***************************************************************************)
EXTENDS Trees, FiniteSetTheorems, TLAPS

-----------------------------------------------------------------------------
(* Instances stay, and are whole. *)

Phases == {"out", "building", "forgetting", "removing"}

\* A process that evicts has the store alone.
Exclusive ==
    /\ phase \in [Procs -> Phases] /\ home \in [Steps -> Procs]
    /\ \A p, q \in Procs : phase[p] \in {"forgetting", "removing"} /\ p # q => phase[q] = "out"

\* What is made is whole, and what is there is but while it is forgotten.
WholeButForgotten ==
    /\ DOMAIN job = Steps
    /\ \A s \in Steps : job[s] # None =>
          job[s].name[1] \in Trees /\ Missing \notin Range(job[s].nodes)
    /\ \A name \in DOMAIN trees :
          Missing \in Range(trees[name]) => \E p \in Procs : phase[p] = "forgetting"

WInv == Exclusive /\ WholeButForgotten

LEMMA WholeInitially == Init => WInv
<1>. SUFFICES ASSUME Init
              PROVE  WInv
    OBVIOUS
<1>1. DOMAIN trees = {} /\ job = [s \in Steps |-> None] /\ phase = [p \in Procs |-> "out"]
      /\ home \in [Steps -> Procs]
    BY DEF Init
<1>. QED  BY <1>1 DEF WInv, Exclusive, WholeButForgotten, Phases

\* No step of a build changes what processes do.
LEMMA StepsBuild ==
    ASSUME NEW s \in Steps, Step(s)
    PROVE  Building(s) /\ UNCHANGED <<phase, home>>
<1>1. ASSUME NEW t \in Trees, StageTree(s, t) \/ PlaceTree(s, t)
      PROVE  Building(s) /\ UNCHANGED <<phase, home>>
    BY <1>1 DEF StageTree, PlaceTree, Idle
<1>2. ASSUME NEW file \in inputs[s], PlaceFile(s, file)
      PROVE  Building(s) /\ UNCHANGED <<phase, home>>
    BY <1>2 DEF PlaceFile, Idle
<1>3. CASE Make(s)
    BY <1>3 DEF Make
<1>4. CASE Rename(s)
    BY <1>4 DEF Rename, process
<1>5. CASE Composed(s)
    BY <1>5 DEF Composed, Idle, process
<1>. QED  BY <1>1, <1>2, <1>3, <1>4, <1>5 DEF Step

LEMMA ExclusiveStays ==
    ASSUME Exclusive, [Next]_vars
    PROVE  Exclusive'
<1>. USE DEF Exclusive, Phases
<1>1. ASSUME UNCHANGED <<phase, home>>
      PROVE  Exclusive'
    BY <1>1
<1>2. ASSUME NEW s \in Steps, Step(s)
      PROVE  Exclusive'
    BY <1>1, <1>2, StepsBuild
<1>3. ASSUME NEW p \in Procs, Process(p)
      PROVE  Exclusive'
  <2>1. ASSUME NEW e \in Entries, Put(p, e)
        PROVE  Exclusive'
      BY <1>1, <2>1 DEF Put, process, step
  <2>2. CASE Open(p)
      BY <2>2 DEF Open, step
  <2>3. CASE Die(p)
      BY <2>3 DEF Die, Gone
  <2>4. CASE Evict(p)
      BY <2>4 DEF Evict, Gone, Alone
  <2>5. CASE Forget(p)
      BY <1>1, <2>5 DEF Forget, process, step
  <2>6. CASE Forgotten(p)
      BY <2>6 DEF Forgotten, step
  <2>7. CASE RemoveBlob(p)
      BY <1>1, <2>7 DEF RemoveBlob, process, step
  <2>8. CASE Evicted(p)
      BY <2>8 DEF Evicted, step
  <2>. QED  BY <1>3, <2>1, <2>2, <2>3, <2>4, <2>5, <2>6, <2>7, <2>8 DEF Process
<1>4. CASE UNCHANGED vars
    BY <1>1, <1>4 DEF vars, process, step
<1>. QED  BY <1>2, <1>3, <1>4 DEF Next

\* A tree is made as what can be linked and a file of the step's own.
LEMMA LinkedIsWhole ==
    ASSUME NEW s \in Steps, NEW name, name[1] \in Trees, NEW bad
    PROVE  Missing \notin Range(Linked(s, name, bad))
<1>. DEFINE nodes == Linked(s, name, bad)
<1>1. ASSUME NEW i \in DOMAIN nodes
      PROVE  nodes[i][1] # None
  <2>1. i \in DOMAIN Files[name[1]] /\ nodes[i] = IF i = bad THEN Fresh(s) ELSE Numbered(name)[i]
      BY <1>1 DEF Linked, Numbered
  <2>2. Fresh(s)[1] = s /\ Numbered(name)[i][1] = Files[name[1]][i]
      BY <2>1 DEF Fresh, Numbered
  <2>3. Files[name[1]][i] \in Entries
      BY <2>1, NamesAssumption
  <2>. QED  BY <2>1, <2>2, <2>3, NamesAssumption
<1>. QED  BY <1>1 DEF Range, Missing

\* Only a process that forgets them takes from the instances, and what is
\* renamed into place is not there.
LEMMA TreesStay ==
    ASSUME Exclusive, [Next]_vars, \E p \in Procs : phase[p] = "building"
    PROVE  /\ DOMAIN trees \subseteq DOMAIN trees'
           /\ \A name \in DOMAIN trees : trees'[name] = trees[name]
<1>1. ASSUME UNCHANGED trees
      PROVE  /\ DOMAIN trees \subseteq DOMAIN trees'
             /\ \A name \in DOMAIN trees : trees'[name] = trees[name]
    BY <1>1
<1>2. ASSUME NEW s \in Steps, Step(s)
      PROVE  /\ DOMAIN trees \subseteq DOMAIN trees'
             /\ \A name \in DOMAIN trees : trees'[name] = trees[name]
  <2>1. ASSUME NEW t \in Trees, StageTree(s, t) \/ PlaceTree(s, t)
        PROVE  UNCHANGED trees
      BY <2>1 DEF StageTree, PlaceTree, disk
  <2>2. ASSUME NEW file \in inputs[s], PlaceFile(s, file)
        PROVE  UNCHANGED trees
      BY <2>2 DEF PlaceFile
  <2>3. CASE Rename(s)
      BY <2>3 DEF Rename, InPlace
  <2>4. CASE Make(s) \/ Composed(s)
      BY <1>1, <2>4 DEF Make, Composed, disk
  <2>. QED  BY <1>1, <1>2, <2>1, <2>2, <2>3, <2>4 DEF Step
<1>3. ASSUME NEW p \in Procs, Process(p)
      PROVE  UNCHANGED trees
  <2>1. ~Forget(p)
      BY DEF Forget, Exclusive
  <2>. QED
      BY <1>3, <2>1 DEF Process, Put, Open, Die, Evict, Forgotten, RemoveBlob, Evicted, disk
<1>4. CASE UNCHANGED vars
    BY <1>1, <1>4 DEF vars, disk
<1>. QED  BY <1>1, <1>2, <1>3, <1>4 DEF Next

\* While any process builds, an instance that is there stays as it is, file by
\* file, whoever makes it again and whatever is killed (store/trees.rs,
\* materialised).
THEOREM InstancesThereStay == Spec => InstancesStay
<1>1. Init => Exclusive
    BY WholeInitially DEF WInv
<1>2. Exclusive /\ [Next]_vars => [(\E p \in Procs : phase[p] = "building") =>
           /\ DOMAIN trees \subseteq DOMAIN trees'
           /\ \A name \in DOMAIN trees : trees'[name] = trees[name]]_vars
    BY TreesStay
<1>. QED  BY <1>1, <1>2, ExclusiveStays, PTL DEF Spec, InstancesStay

LEMMA WholeStays ==
    ASSUME "forgetting" \notin MayDie, WInv, [Next]_vars
    PROVE  WInv'
<1>. USE DEF WInv
<1>0. Exclusive'
    BY ExclusiveStays
<1>1. ASSUME UNCHANGED trees, DOMAIN job' = Steps, \A s \in Steps : job'[s] \in {job[s], None},
             \A p \in Procs : phase[p] = "forgetting" => phase'[p] = "forgetting"
      PROVE  WInv'
  <2>1. \A s \in Steps : job'[s] # None =>
            job'[s].name[1] \in Trees /\ Missing \notin Range(job'[s].nodes)
      BY <1>1 DEF WholeButForgotten
  <2>2. \A name \in DOMAIN trees' :
            Missing \in Range(trees'[name]) => \E p \in Procs : phase'[p] = "forgetting"
      BY <1>1 DEF WholeButForgotten
  <2>. QED  BY <1>0, <1>1, <2>1, <2>2 DEF WholeButForgotten
<1>2. ASSUME NEW s \in Steps, Step(s)
      PROVE  WInv'
  <2>0. UNCHANGED phase /\ Building(s) /\ \A p \in Procs : phase[p] # "forgetting"
      BY <1>2, StepsBuild DEF Building, Exclusive
  <2>1. ASSUME UNCHANGED <<trees, job>>
        PROVE  WInv'
      BY <1>1, <2>0, <2>1 DEF WholeButForgotten
  <2>2. ASSUME NEW name, NEW mount, name[1] \in Trees, Materialise(s, name, mount), UNCHANGED trees
        PROVE  WInv'
    <3>1. CASE UNCHANGED job
        BY <2>1, <2>2, <3>1
    <3>2. CASE job' = [job EXCEPT ![s] = [name |-> name, mount |-> mount, nodes |-> <<>>]]
      <4>1. DOMAIN job' = Steps /\ \A z \in Steps : job'[z] # None =>
                job'[z].name[1] \in Trees /\ Missing \notin Range(job'[z].nodes)
          BY <2>2, <3>2 DEF WholeButForgotten, Range
      <4>2. \A n \in DOMAIN trees' : Missing \notin Range(trees'[n])
          BY <2>0, <2>2 DEF WholeButForgotten
      <4>. QED  BY <1>0, <4>1, <4>2 DEF WholeButForgotten
    <3>. QED  BY <2>2, <3>1, <3>2 DEF Materialise
  <2>3. ASSUME NEW t \in Trees, StageTree(s, t)
        PROVE  WInv'
    <3>1. CASE t \in Large
        BY <2>2, <2>3, <3>1 DEF StageTree, Name
    <3>2. CASE t \notin Large
        BY <2>1, <2>3, <3>2 DEF StageTree
    <3>. QED  BY <3>1, <3>2
  <2>4. ASSUME NEW t \in Trees, PlaceTree(s, t)
        PROVE  WInv'
      BY <2>2, <2>4 DEF PlaceTree, Name, disk
  <2>5. ASSUME NEW file \in inputs[s], PlaceFile(s, file)
        PROVE  WInv'
      BY <2>1, <2>5 DEF PlaceFile
  <2>6. CASE Composed(s)
      BY <2>1, <2>6 DEF Composed, disk
  <2>7. CASE Make(s)
    <3>1. PICK bad : job' = [job EXCEPT ![s].nodes = Linked(s, job[s].name, bad)]
        BY <2>7 DEF Make
    <3>2. job[s].name[1] \in Trees
        BY <2>7 DEF Make, WholeButForgotten
    <3>3. Missing \notin Range(Linked(s, job[s].name, bad))
        BY <3>2, LinkedIsWhole
    <3>4. DOMAIN job' = Steps /\ \A z \in Steps : job'[z] # None =>
              job'[z].name[1] \in Trees /\ Missing \notin Range(job'[z].nodes)
        BY <3>1, <3>2, <3>3 DEF WholeButForgotten
    <3>5. UNCHANGED trees
        BY <2>7 DEF Make
    <3>. QED  BY <1>0, <2>0, <3>4, <3>5 DEF WholeButForgotten
  <2>8. CASE Rename(s)
    <3>1. /\ trees' = [n \in DOMAIN trees \cup {job[s].name} |->
                        IF n = job[s].name THEN InPlace(s) ELSE trees[n]]
          /\ job' = [job EXCEPT ![s] = None] /\ job[s] # None
        BY <2>8 DEF Rename
    <3>2. Missing \notin Range(InPlace(s))
        BY <2>0, <3>1 DEF InPlace, WholeButForgotten
    <3>3. \A n \in DOMAIN trees' : Missing \notin Range(trees'[n])
        BY <2>0, <3>1, <3>2 DEF WholeButForgotten
    <3>4. DOMAIN job' = Steps /\ \A z \in Steps : job'[z] # None =>
              job'[z].name[1] \in Trees /\ Missing \notin Range(job'[z].nodes)
        BY <3>1 DEF WholeButForgotten
    <3>. QED  BY <1>0, <3>3, <3>4 DEF WholeButForgotten
  <2>. QED  BY <1>2, <2>3, <2>4, <2>5, <2>6, <2>7, <2>8 DEF Step
<1>3. ASSUME NEW p \in Procs, Process(p)
      PROVE  WInv'
  <2>1. ASSUME UNCHANGED <<trees, job>>,
               \A q \in Procs : phase[q] = "forgetting" => phase'[q] = "forgetting"
        PROVE  WInv'
      BY <1>1, <2>1 DEF WholeButForgotten
  <2>2. ASSUME NEW e \in Entries, Put(p, e)
        PROVE  WInv'
      BY <2>1, <2>2 DEF Put, process, step
  <2>3. CASE Open(p)
      BY <2>1, <2>3 DEF Open, disk, step, Exclusive
  <2>4. CASE Die(p) \/ Evict(p)
    <3>1. Gone(p) /\ UNCHANGED trees
        BY <2>4 DEF Die, Evict, disk
    <3>2. \A q \in Procs : phase[q] = "forgetting" => phase'[q] = "forgetting"
        BY <2>4 DEF Die, Evict, Alone, Exclusive
    <3>. QED  BY <1>1, <3>1, <3>2 DEF Gone
  <2>5. CASE Forget(p)
    <3>1. phase'[p] = "forgetting" /\ UNCHANGED job
        BY <2>5 DEF Forget, process, step
    <3>. QED  BY <1>0, <3>1 DEF WholeButForgotten
  <2>6. CASE Forgotten(p)
      BY <1>0, <2>6 DEF Forgotten, disk, step, WholeButForgotten
  <2>7. CASE RemoveBlob(p)
      BY <2>1, <2>7 DEF RemoveBlob, process, step
  <2>8. CASE Evicted(p)
      BY <2>1, <2>8 DEF Evicted, disk, step, Exclusive
  <2>. QED  BY <1>3, <2>2, <2>3, <2>4, <2>5, <2>6, <2>7, <2>8 DEF Process
<1>4. CASE UNCHANGED vars
    BY <1>1, <1>4 DEF vars, disk, process, step, WholeButForgotten
<1>. QED  BY <1>2, <1>3, <1>4 DEF Next

\* An instance that a build may come upon is whole, unless a process was killed
\* just as it forgot the instances (store/trees.rs:14).
THEOREM InstancesThereAreWhole ==
    ASSUME "forgetting" \notin MayDie
    PROVE  Spec => []InstancesWhole
<1>1. WInv => InstancesWhole
    BY DEF WInv, Exclusive, WholeButForgotten, InstancesWhole
<1>. QED  BY <1>1, WholeInitially, WholeStays, PTL DEF Spec
-----------------------------------------------------------------------------
(* The numbers of an instance's files. *)

\* Where the links of an instance to the files of a content start.
Base(name, e) == IF e \in DOMAIN name[2] THEN name[2][e] ELSE 0

\* The files of a tree before one of them that are the same.
Before(t, i) == Count(SubSeq(Files[t], 1, i - 1), Files[t][i])

LEMMA SmallerSet ==
    ASSUME NEW S, IsFiniteSet(S), NEW T \in SUBSET S, T # S
    PROVE  /\ Cardinality(T) < Cardinality(S)
           /\ Cardinality(T) \in Nat /\ Cardinality(S) \in Nat
<1>1. IsFiniteSet(T) /\ Cardinality(T) <= Cardinality(S) /\ Cardinality(T) # Cardinality(S)
    BY FS_Subset
<1>2. Cardinality(T) \in Nat /\ Cardinality(S) \in Nat
    BY <1>1, FS_CardinalityType
<1>. QED  BY <1>1, <1>2

LEMMA BeforeIs ==
    ASSUME NEW t \in Trees, NEW i \in DOMAIN Files[t]
    PROVE  Before(t, i) = Cardinality({k \in 1 .. i - 1 : Files[t][k] = Files[t][i]})
<1>1. Files[t] \in Seq(Entries) /\ i \in 1 .. Len(Files[t])
    BY NamesAssumption
<1>. DEFINE f == SubSeq(Files[t], 1, i - 1)
<1>2. DOMAIN f = 1 .. i - 1 /\ \A k \in 1 .. i - 1 : f[k] = Files[t][k]
    BY <1>1
<1>3. {k \in DOMAIN f : f[k] = Files[t][i]} = {k \in 1 .. i - 1 : Files[t][k] = Files[t][i]}
    BY <1>2
<1>. QED  BY <1>3 DEF Before, Count

\* Of two files of a content the later is after more.
LEMMA BeforeGrows ==
    ASSUME NEW t \in Trees, NEW i \in DOMAIN Files[t], NEW j \in DOMAIN Files[t],
           i < j, Files[t][i] = Files[t][j]
    PROVE  Before(t, i) < Before(t, j)
<1>1. Files[t] \in Seq(Entries) /\ i \in Nat /\ j \in Nat /\ i \in 1 .. j - 1
    BY NamesAssumption
<1>. DEFINE T == {k \in 1 .. i - 1 : Files[t][k] = Files[t][i]}
            S == {k \in 1 .. j - 1 : Files[t][k] = Files[t][j]}
<1>2. T \subseteq S /\ i \in S /\ i \notin T
    BY <1>1
<1>3. IsFiniteSet(1 .. j - 1)
    BY <1>1, FS_Interval
<1>4. IsFiniteSet(S)
    BY <1>3, FS_Subset
<1>5. Cardinality(T) < Cardinality(S)
    BY <1>2, <1>4, SmallerSet
<1>. QED  BY <1>5, BeforeIs

LEMMA BeforeInAll ==
    ASSUME NEW t \in Trees, NEW i \in DOMAIN Files[t]
    PROVE  /\ Before(t, i) \in Nat /\ Before(t, i) < Count(Files[t], Files[t][i])
           /\ Count(Files[t], Files[t][i]) \in Nat
<1>1. Files[t] \in Seq(Entries) /\ i \in Nat /\ i \in 1 .. Len(Files[t])
    BY NamesAssumption
<1>. DEFINE T == {k \in 1 .. i - 1 : Files[t][k] = Files[t][i]}
            S == {k \in DOMAIN Files[t] : Files[t][k] = Files[t][i]}
<1>2. T \subseteq S /\ i \in S /\ i \notin T
    BY <1>1
<1>3. IsFiniteSet(DOMAIN Files[t])
    BY NamesAssumption, FS_Interval
<1>4. IsFiniteSet(S)
    BY <1>3, FS_Subset
<1>5. Cardinality(T) < Cardinality(S) /\ Cardinality(T) \in Nat /\ Cardinality(S) \in Nat
    BY <1>2, <1>4, SmallerSet
<1>. QED  BY <1>5, BeforeIs DEF Count

LEMMA CountIsNat ==
    ASSUME NEW t \in Trees, NEW e
    PROVE  Count(Files[t], e) \in Nat
<1>1. IsFiniteSet(DOMAIN Files[t])
    BY NamesAssumption, FS_Interval
<1>2. IsFiniteSet({i \in DOMAIN Files[t] : Files[t][i] = e})
    BY <1>1, FS_Subset
<1>. QED  BY <1>2, FS_CardinalityType DEF Count

LEMMA NamesAre ==
    ASSUME NEW name \in Names
    PROVE  /\ name[1] \in Trees /\ Files[name[1]] \in Seq(Entries)
           /\ \A e : Base(name, e) \in Nat
<1>1. name[1] \in Trees /\ name[2] \in UNION {[D -> Nat] : D \in SUBSET Entries}
    BY DEF Names
<1>2. PICK D \in SUBSET Entries : name[2] \in [D -> Nat]
    BY <1>1
<1>. QED  BY <1>1, <1>2, NamesAssumption DEF Base

LEMMA NumberedIs ==
    ASSUME NEW name \in Names, NEW i \in DOMAIN Files[name[1]]
    PROVE  /\ Numbered(name)[i] = <<Files[name[1]][i],
                                    Base(name, Files[name[1]][i]) + Before(name[1], i)>>
           /\ Files[name[1]][i] \in Entries
           /\ Base(name, Files[name[1]][i]) \in Nat /\ Before(name[1], i) \in Nat
           /\ Before(name[1], i) < Count(Files[name[1]], Files[name[1]][i])
<1>1. name[1] \in Trees /\ Files[name[1]] \in Seq(Entries) /\ Base(name, Files[name[1]][i]) \in Nat
    BY NamesAre
<1>2. Files[name[1]][i] \in Entries
    BY <1>1
<1>3. Before(name[1], i) \in Nat /\ Before(name[1], i) < Count(Files[name[1]], Files[name[1]][i])
    BY <1>1, BeforeInAll
<1>4. Numbered(name)[i] = <<Files[name[1]][i],
                            Base(name, Files[name[1]][i]) + Before(name[1], i)>>
    BY DEF Numbered, Base, Before
<1>. QED  BY <1>1, <1>2, <1>3, <1>4

\* No two files of an instance are numbered alike.
LEMMA NumberedApart ==
    ASSUME NEW name \in Names, NEW i \in DOMAIN Files[name[1]], NEW j \in DOMAIN Files[name[1]],
           Numbered(name)[i] = Numbered(name)[j]
    PROVE  i = j
<1>1. name[1] \in Trees /\ i \in Nat /\ j \in Nat
    BY NamesAre
<1>2. Files[name[1]][i] = Files[name[1]][j] /\ Before(name[1], i) = Before(name[1], j)
    BY NumberedIs
<1>3. Before(name[1], i) \in Nat
    BY NumberedIs
<1>4. ~(i < j) /\ ~(j < i)
    BY <1>1, <1>2, <1>3, BeforeGrows
<1>. QED  BY <1>1, <1>4

-----------------------------------------------------------------------------
(* Compositions. *)

Links == (Entries \X Nat) \cup {Copy(e, 0) : e \in Entries}
Owns == Steps \X Nat

\* A file of a step's own, made already.
OfStep(n) == n \in Owns /\ n[2] < own[n[1]]

\* What an instance's files are: those it is to link, or files of a step's own.
Instance(name, nodes) ==
    /\ name \in Names
    /\ nodes = [i \in DOMAIN Files[name[1]] |-> nodes[i]]
    /\ \A i \in DOMAIN Files[name[1]] :
          nodes[i] = Numbered(name)[i] \/ nodes[i] = Missing \/ OfStep(nodes[i])

Holds(n, name, i) == name \in DOMAIN trees /\ i \in DOMAIN trees[name] /\ trees[name][i] = n
Held(n) == \E name, i : Holds(n, name, i)

Makes(n, s, i) ==
    s \in Steps /\ job[s] # None /\ i \in DOMAIN job[s].nodes /\ job[s].nodes[i] = n
Made(n) == \E s, i : Makes(n, s, i)

TreesShaped ==
    /\ trees = [name \in DOMAIN trees |-> trees[name]]
    /\ \A name \in DOMAIN trees : Instance(name, trees[name])

Placements == [node : Links \cup Owns] \cup [name : Names]

Shaped ==
    /\ noted \in [Procs -> SUBSET Links]
    /\ instances \in [Procs -> SUBSET Names]
    /\ job \in [Steps -> Jobs \cup {None}]
    /\ DOMAIN inputs = Steps /\ DOMAIN placing = Steps
    /\ next \in [Steps -> [Entries -> Nat]]
    /\ placed \in [Steps -> Seq(Placements)]
    /\ own \in [Steps -> Nat]

\* A file of a step's own is one file of one instance, or of one to be.
OwnedOnce ==
    \A n \in Owns :
        /\ \A a, b, i, j : Holds(n, a, i) /\ Holds(n, b, j) => a = b /\ i = j
        /\ \A s, t, i, j : Makes(n, s, i) /\ Makes(n, t, j) => s = t /\ i = j
        /\ ~(Held(n) /\ Made(n))

\* A step of a process that does not build has nothing.
Nothing(s) == job[s] = None /\ inputs[s] = {} /\ placed[s] = <<>>

Quiet(s) == ~Building(s) => Nothing(s)

JobShaped(s) ==
    job[s] # None =>
        /\ job[s].name \in instances[home[s]]
        /\ job[s].nodes # <<>> => Instance(job[s].name, job[s].nodes)

\* What a step can see is of an instance its process knows, or is noted, or is
\* a file of its own that no instance has.
Known(s, file) ==
    /\ file.node \in Links \/ OfStep(file.node)
    /\ file.name # None => file.name \in instances[home[s]] /\ Holds(file.node, file.name, file.at)
    /\ file.name = None =>
          IF file.node \in Links THEN file.node \in noted[home[s]]
          ELSE ~Held(file.node) /\ ~Made(file.node)

InputsKnown(s) == \A file \in inputs[s] : Known(s, file)

Mounting(s) == job[s] # None /\ job[s].mount

\* Not what an instance of this name links.
Below(n, name) == n[1] \in Range(Files[name[1]]) => n[2] < Base(name, n[1])

\* The copy of number n[2] is linked already, and not by what is to be mounted.
Under(s, n) ==
    n \in Links /\ n[2] < next[s][n[1]] /\ (Mounting(s) => Below(n, job[s].name))

\* What is to be mounted links what is counted as linked.
MountCounted(s) ==
    Mounting(s) =>
        \A e \in Range(Files[job[s].name[1]]) :
            Base(job[s].name, e) + Count(Files[job[s].name[1]], e) <= next[s][e]

PlacedOnce(s, n) ==
    \/ Under(s, n)
    \/ /\ OfStep(n) /\ ~Made(n)
       /\ \A name, i : Holds(n, name, i) => Under(s, Numbered(name)[i])
       /\ Held(n) \/ n \in placing[s] \/ \A file \in inputs[s] : file.node # n

Mounted(s, name) ==
    name \in DOMAIN trees /\ \A i \in DOMAIN Files[name[1]] : Under(s, Numbered(name)[i])

Placed(s, c) == IF "node" \in DOMAIN c THEN PlacedOnce(s, c.node) ELSE Mounted(s, c.name)

PlacedUnder(s) == \A i \in DOMAIN placed[s] : Placed(s, placed[s][i])

\* n is the file of a placement, or the k-th of its instance.
At(there, c, n, k) ==
    LET nodes == IF "node" \in DOMAIN c THEN <<c.node>> ELSE there[c.name]
    IN k \in DOMAIN nodes /\ nodes[k] = n

ApartIn(s) ==
    \A i, j \in DOMAIN placed[s] : \A n, k, l :
        At(trees, placed[s][i], n, k) /\ At(trees, placed[s][j], n, l) => i = j /\ k = l

Composes(s) ==
    /\ Quiet(s) /\ JobShaped(s) /\ InputsKnown(s)
    /\ MountCounted(s) /\ PlacedUnder(s) /\ ApartIn(s)

CInv == WInv /\ TreesShaped /\ Shaped /\ OwnedOnce /\ \A s \in Steps : Composes(s)

LEMMA LinksAre ==
    /\ \A n \in Links : n[1] \in Entries /\ n[2] \in Nat /\ n \notin Owns /\ n # Missing
    /\ \A n \in Owns : n[1] \in Steps /\ n[2] \in Nat /\ n \notin Links /\ n # Missing
    /\ \A e \in Entries, k \in Nat : <<e, k>> \in Links
    /\ \A e \in Entries, k \in Nat : Copy(e, k) \in Links /\ Copy(e, k)[1] = e /\ Copy(e, k)[2] = k
    /\ \A s \in Steps, k \in Nat : <<s, k>> \in Owns
<1>1. \A e \in Entries, k \in Nat : Copy(e, k) \in Links /\ Copy(e, k)[1] = e /\ Copy(e, k)[2] = k
    BY DEF Copy, Links
<1>2. \A n \in Links : n[1] \in Entries /\ n[2] \in Nat
    BY <1>1 DEF Links
<1>3. \A n \in Owns : n[1] \in Steps /\ n[2] \in Nat
    BY DEF Owns
<1>4. Missing[1] = None /\ None \notin Entries \cup Steps /\ Entries \cap Steps = {}
    BY NamesAssumption DEF Missing
<1>. QED  BY <1>1, <1>2, <1>3, <1>4 DEF Links, Owns

LEMMA NumberedLinks ==
    ASSUME NEW name \in Names, NEW i \in DOMAIN Files[name[1]]
    PROVE  /\ Numbered(name)[i] \in Links
           /\ Numbered(name)[i][1] \in Range(Files[name[1]])
           /\ ~Below(Numbered(name)[i], name)
<1>1. Numbered(name)[i] = <<Files[name[1]][i],
                            Base(name, Files[name[1]][i]) + Before(name[1], i)>>
    BY NumberedIs
<1>2. /\ Files[name[1]][i] \in Entries
      /\ Base(name, Files[name[1]][i]) \in Nat /\ Before(name[1], i) \in Nat
    BY NumberedIs
<1>3. Files[name[1]][i] \in Range(Files[name[1]])
    BY DEF Range
<1>. QED  BY <1>1, <1>2, <1>3, LinksAre DEF Below

LEMMA NothingComposes ==
    ASSUME NEW s \in Steps
    PROVE  (Nothing(s) => Composes(s)) /\ (Nothing(s)' => Composes(s)')
BY DEF Nothing, Composes, Quiet, JobShaped, InputsKnown, MountCounted, Mounting, PlacedUnder, ApartIn

LEMMA ComposesApart == (\A s \in Steps : Composes(s)) => Distinct
<1>. SUFFICES ASSUME \A s \in Steps : Composes(s), NEW s \in Steps,
                     NEW i \in DOMAIN placed[s], NEW j \in DOMAIN placed[s],
                     NEW k \in DOMAIN NodesOf(placed[s][i]), NEW l \in DOMAIN NodesOf(placed[s][j]),
                     NodesOf(placed[s][i])[k] = NodesOf(placed[s][j])[l]
              PROVE  i = j /\ k = l
    BY DEF Distinct
<1>. DEFINE n == NodesOf(placed[s][i])[k]
<1>1. \A h \in DOMAIN placed[s] : \A m \in DOMAIN NodesOf(placed[s][h]) :
          At(trees, placed[s][h], NodesOf(placed[s][h])[m], m)
    BY DEF At, NodesOf
<1>2. At(trees, placed[s][i], n, k) /\ At(trees, placed[s][j], n, l)
    BY <1>1
<1>3. ApartIn(s)
    BY DEF Composes
<1>. HIDE DEF n
<1>. QED  BY <1>2, <1>3 DEF ApartIn

LEMMA PlacementsAre ==
    ASSUME NEW c \in Placements
    PROVE  /\ "node" \in DOMAIN c => /\ c.node \in Links \cup Owns
                                     /\ \A there, n, k : At(there, c, n, k) <=> n = c.node /\ k = 1
           /\ "node" \notin DOMAIN c => /\ c.name \in Names
                                        /\ \A there, n, k : At(there, c, n, k) <=>
                                              k \in DOMAIN there[c.name] /\ there[c.name][k] = n
<1>1. CASE c \in [node : Links \cup Owns]
    BY <1>1 DEF At
<1>2. CASE c \in [name : Names]
    BY <1>2 DEF At
<1>. QED  BY <1>1, <1>2 DEF Placements

\* What is in place stays, and what is not of any instance is not made.
Grows ==
    /\ \A name \in DOMAIN trees : name \in DOMAIN trees' /\ trees'[name] = trees[name]
    /\ \A n \in Owns : \A name, i : Holds(n, name, i)' => Holds(n, name, i) \/ Made(n)
    /\ \A n : OfStep(n) => OfStep(n)' /\ (Made(n)' => Made(n))

LEMMA HoldsGrows ==
    ASSUME Grows, NEW n
    PROVE  /\ \A name, i : Holds(n, name, i) => Holds(n, name, i)'
           /\ Held(n) => Held(n)'
           /\ n \in Owns /\ ~Made(n) => \A name, i : Holds(n, name, i)' => Holds(n, name, i)
           /\ n \in Owns /\ ~Made(n) /\ ~Held(n) => ~Held(n)'
BY DEF Grows, Holds, Held

\* A placement of a step stays what it is.
LEMMA AtStays ==
    ASSUME Grows, NEW s \in Steps, NEW c \in Placements, Placed(s, c)
    PROVE  \A n, k : At(trees', c, n, k) <=> At(trees, c, n, k)
<1>1. CASE "node" \in DOMAIN c
    BY <1>1 DEF At
<1>2. CASE "node" \notin DOMAIN c
    BY <1>2 DEF At, Placed, Mounted, Grows
<1>. QED  BY <1>1, <1>2

\* A placement of a step stays placed, if what it counts as linked does and
\* what is new to see of its own is held.
LEMMA PlacedStays ==
    ASSUME Grows, NEW s \in Steps, NEW c \in Placements, Placed(s, c),
           \A n : Under(s, n) => Under(s, n)',
           placing[s] \subseteq placing'[s],
           \A file \in inputs'[s] : file \in inputs[s] \/ file.node \in Links \/ Held(file.node)'
                                    \/ ~OfStep(file.node)
    PROVE  Placed(s, c)'
<1>1. ASSUME NEW n, PlacedOnce(s, n)
      PROVE  PlacedOnce(s, n)'
  <2>1. CASE Under(s, n)
      BY <2>1 DEF PlacedOnce
  <2>2. CASE /\ OfStep(n) /\ ~Made(n)
             /\ \A name, i : Holds(n, name, i) => Under(s, Numbered(name)[i])
             /\ Held(n) \/ n \in placing[s] \/ \A file \in inputs[s] : file.node # n
    <3>1. n \in Owns /\ OfStep(n)' /\ ~Made(n)' /\ n \notin Links
        BY <2>2, LinksAre DEF Grows, OfStep
    <3>2. \A name, i : Holds(n, name, i)' => Under(s, Numbered(name)[i])'
        BY <2>2, <3>1, HoldsGrows
    <3>3. Held(n)' \/ n \in placing'[s] \/ \A file \in inputs'[s] : file.node # n
        BY <2>2, <3>1, HoldsGrows
    <3>. QED  BY <3>1, <3>2, <3>3 DEF PlacedOnce
  <2>. QED  BY <1>1, <2>1, <2>2 DEF PlacedOnce
<1>2. ASSUME NEW name, Mounted(s, name)
      PROVE  Mounted(s, name)'
    BY <1>2 DEF Mounted, Grows
<1>. QED  BY <1>1, <1>2 DEF Placed

\* What a step sees stays known.
LEMMA KnownStays ==
    ASSUME Grows, NEW s \in Steps, NEW file, Known(s, file), UNCHANGED home,
           noted[home[s]] \subseteq noted'[home[s]], instances[home[s]] \subseteq instances'[home[s]]
    PROVE  Known(s, file)'
<1>1. file.node \in Links \/ OfStep(file.node)'
    BY DEF Known, Grows
<1>2. file.name # None => file.name \in instances'[home[s]] /\ Holds(file.node, file.name, file.at)'
    BY HoldsGrows DEF Known
<1>3. ASSUME file.node \notin Links, file.name = None
      PROVE  ~Held(file.node)' /\ ~Made(file.node)'
    BY <1>3, HoldsGrows DEF Known, Grows, OfStep
<1>. QED  BY <1>1, <1>2, <1>3 DEF Known

\* So does an instance to be.
LEMMA InstanceStays ==
    ASSUME Grows, NEW name, NEW nodes, Instance(name, nodes)
    PROVE  Instance(name, nodes)'
BY DEF Instance, Grows

\* What others do to what a step has.
LEMMA OthersStay ==
    ASSUME Grows, NEW s \in Steps, Composes(s), placed[s] \in Seq(Placements), UNCHANGED home,
           job'[s] = job[s], inputs'[s] = inputs[s], placing'[s] = placing[s],
           next'[s] = next[s], placed'[s] = placed[s],
           noted[home[s]] \subseteq noted'[home[s]], instances[home[s]] \subseteq instances'[home[s]],
           Building(s) => Building(s)'
    PROVE  Composes(s)'
<1>. USE DEF Composes
<1>1. Quiet(s)'
    BY DEF Quiet, Nothing
<1>2. JobShaped(s)'
    BY InstanceStays DEF JobShaped
<1>3. InputsKnown(s)'
    BY KnownStays DEF InputsKnown
<1>4. MountCounted(s)' /\ \A n : Under(s, n) => Under(s, n)'
    BY DEF MountCounted, Mounting, Under, Below
<1>5. \A i \in DOMAIN placed[s] : placed[s][i] \in Placements /\ Placed(s, placed[s][i])
    BY DEF PlacedUnder
<1>6. PlacedUnder(s)'
  <2>. SUFFICES ASSUME NEW i \in DOMAIN placed[s] PROVE Placed(s, placed[s][i])'
      BY DEF PlacedUnder
  <2>. DEFINE c == placed[s][i]
  <2>1. c \in Placements /\ Placed(s, c)
      BY <1>5
  <2>2. placed'[s][i] = c
      OBVIOUS
  <2>. HIDE DEF c
  <2>3. \A d : d = c => Placed(s, d)'
      BY <1>4, <2>1, PlacedStays
  <2>. QED  BY <2>2, <2>3
<1>7. ApartIn(s)'
  <2>1. \A c \in Placements : Placed(s, c) => \A n, k : At(trees', c, n, k) => At(trees, c, n, k)
      BY AtStays
  <2>2. \A i \in DOMAIN placed[s] : \A n, k :
            At(trees', placed[s][i], n, k) => At(trees, placed[s][i], n, k)
      BY <1>5, <2>1
  <2>3. ASSUME NEW i \in DOMAIN placed'[s], NEW j \in DOMAIN placed'[s], NEW n, NEW k, NEW l,
               At(trees', placed'[s][i], n, k), At(trees', placed'[s][j], n, l)
        PROVE  i = j /\ k = l
    <3>1. At(trees, placed[s][i], n, k) /\ At(trees, placed[s][j], n, l)
        BY <2>2, <2>3
    <3>2. ApartIn(s)
        OBVIOUS
    <3>3. i \in DOMAIN placed[s] /\ j \in DOMAIN placed[s]
        BY <2>3
    <3>. QED  BY ONLY <3>1, <3>2, <3>3 DEF ApartIn
  <2>. QED  BY ONLY <2>3 DEF ApartIn
<1>. QED  BY <1>1, <1>2, <1>3, <1>4, <1>6, <1>7

LEMMA OwnedShrinks ==
    ASSUME OwnedOnce,
           \A n \in Owns : \A name, i : Holds(n, name, i)' => Holds(n, name, i),
           \A n \in Owns : \A s, i : Makes(n, s, i)' => Makes(n, s, i)
    PROVE  OwnedOnce'
<1>1. \A n \in Owns : (Held(n)' => Held(n)) /\ (Made(n)' => Made(n))
    BY DEF Held, Made
<1>. QED  BY <1>1 DEF OwnedOnce

LEMMA ShapedTreesStay ==
    ASSUME Grows, TreesShaped, UNCHANGED trees
    PROVE  TreesShaped'
BY InstanceStays DEF TreesShaped

LEMMA ComposesInitially == Init => CInv
<1>. SUFFICES ASSUME Init
              PROVE  CInv
    OBVIOUS
<1>. USE DEF Init
<1>1. WInv
    BY WholeInitially
<1>2. TreesShaped
    BY DEF TreesShaped
<1>3. Shaped
  <2>1. \A S : <<>> \in Seq(S)
      OBVIOUS
  <2>. QED  BY <2>1 DEF Shaped
<1>4. OwnedOnce
    BY DEF OwnedOnce, Holds, Held, Makes, Made
<1>5. \A s \in Steps : Nothing(s)
    BY DEF Nothing
<1>. QED  BY <1>1, <1>2, <1>3, <1>4, <1>5, NothingComposes DEF CInv

\* What no step has a part in, and no instance.
LEMMA OutsideStays ==
    ASSUME CInv, WInv', UNCHANGED <<trees, noted, instances, step>>,
           \A s \in Steps : Building(s) => Building(s)'
    PROVE  CInv'
<1>. USE DEF CInv, step
<1>1. Grows
    BY DEF Grows, Holds, Made, Makes, OfStep
<1>2. TreesShaped'
    BY <1>1, ShapedTreesStay
<1>3. Shaped'
    BY DEF Shaped
<1>4. OwnedOnce'
    BY OwnedShrinks DEF Holds, Makes
<1>5. ASSUME NEW s \in Steps
      PROVE  Composes(s)'
  <2>1. placed[s] \in Seq(Placements)
      BY DEF Shaped
  <2>. QED  BY <1>1, <2>1, OthersStay
<1>. QED  BY <1>2, <1>3, <1>4, <1>5

\* What a process that is gone had is gone.
LEMMA GoneStays ==
    ASSUME CInv, WInv', NEW p \in Procs, Gone(p), UNCHANGED trees,
           \A q \in Procs \ {p} : phase'[q] = phase[q]
    PROVE  CInv'
<1>. USE DEF CInv
<1>0. \A s \in Steps : home[s] \in Procs
    BY DEF WInv, Exclusive
<1>1. /\ UNCHANGED <<home, own>>
      /\ noted' = [noted EXCEPT ![p] = {}] /\ instances' = [instances EXCEPT ![p] = {}]
      /\ job' = [s \in Steps |-> IF home[s] = p THEN None ELSE job[s]]
      /\ inputs' = [s \in Steps |-> IF home[s] = p THEN {} ELSE inputs[s]]
      /\ placing' = [s \in Steps |-> IF home[s] = p THEN {} ELSE placing[s]]
      /\ next' = [s \in Steps |-> IF home[s] = p THEN [e \in Entries |-> 0] ELSE next[s]]
      /\ placed' = [s \in Steps |-> IF home[s] = p THEN <<>> ELSE placed[s]]
    BY DEF Gone
<1>2. \A n, s, i : Makes(n, s, i)' => Makes(n, s, i)
    BY <1>1 DEF Makes
<1>3. Grows
    BY <1>1, <1>2 DEF Grows, Holds, Made, OfStep
<1>4. TreesShaped'
    BY <1>3, ShapedTreesStay
<1>5. Shaped'
  <2>1. <<>> \in Seq(Placements)
      OBVIOUS
  <2>2. noted' \in [Procs -> SUBSET Links] /\ instances' \in [Procs -> SUBSET Names]
      BY <1>1 DEF Shaped
  <2>3. job' \in [Steps -> Jobs \cup {None}] /\ own' \in [Steps -> Nat]
      BY <1>1 DEF Shaped
  <2>4. next' \in [Steps -> [Entries -> Nat]] /\ placed' \in [Steps -> Seq(Placements)]
      BY <1>1, <2>1 DEF Shaped
  <2>5. DOMAIN inputs' = Steps /\ DOMAIN placing' = Steps
      BY <1>1
  <2>. QED  BY <2>2, <2>3, <2>4, <2>5 DEF Shaped
<1>6. OwnedOnce'
    BY <1>2, OwnedShrinks DEF Holds
<1>7. ASSUME NEW s \in Steps
      PROVE  Composes(s)'
  <2>1. CASE home[s] = p
    <3>1. Nothing(s)'
        BY <1>1, <2>1 DEF Nothing
    <3>. QED  BY <3>1, NothingComposes
  <2>2. CASE home[s] # p
    <3>1. placed[s] \in Seq(Placements)
        BY DEF Shaped
    <3>2. noted'[home[s]] = noted[home[s]] /\ instances'[home[s]] = instances[home[s]]
        BY <1>0, <1>1, <2>2 DEF Shaped
    <3>3. Building(s) => Building(s)'
        BY <1>0, <1>1, <2>2 DEF Building
    <3>4. /\ job'[s] = job[s] /\ inputs'[s] = inputs[s] /\ placing'[s] = placing[s]
          /\ next'[s] = next[s] /\ placed'[s] = placed[s]
        BY <1>1, <2>2
    <3>. QED  BY <1>1, <1>3, <3>1, <3>2, <3>3, <3>4, OthersStay
  <2>. QED  BY <2>1, <2>2
<1>. QED  BY <1>4, <1>5, <1>6, <1>7

\* No step has anything while the instances are forgotten.
LEMMA ForgetStays ==
    ASSUME CInv, WInv', NEW p \in Procs, Forget(p)
    PROVE  CInv'
<1>. USE DEF CInv
<1>1. phase[p] = "forgetting" /\ UNCHANGED <<noted, instances, step>>
    BY DEF Forget, process
<1>2. \A s \in Steps : Nothing(s) /\ Nothing(s)'
    BY <1>1 DEF WInv, Exclusive, Building, Composes, Quiet, Nothing, step
<1>3. PICK name \in DOMAIN trees :
          \/ trees' = [n \in DOMAIN trees \ {name} |-> trees[n]]
          \/ \E i \in DOMAIN trees[name] : trees' = [trees EXCEPT ![name][i] = Missing]
    BY DEF Forget
<1>4. TreesShaped'
  <2>1. ASSUME NEW n \in DOMAIN trees, NEW nodes, Instance(n, nodes)
        PROVE  /\ Instance(n, nodes)'
               /\ \A i \in DOMAIN nodes : Instance(n, [nodes EXCEPT ![i] = Missing])'
      BY <1>1, <2>1 DEF Instance, OfStep, step
  <2>2. CASE trees' = [n \in DOMAIN trees \ {name} |-> trees[n]]
      BY <2>1, <2>2 DEF TreesShaped
  <2>3. ASSUME NEW i \in DOMAIN trees[name], trees' = [trees EXCEPT ![name][i] = Missing]
        PROVE  TreesShaped'
    <3>1. trees' = [n \in DOMAIN trees |-> IF n = name THEN [trees[name] EXCEPT ![i] = Missing]
                                                       ELSE trees[n]]
        BY <2>3 DEF TreesShaped
    <3>. QED  BY <2>1, <3>1 DEF TreesShaped
  <2>. QED  BY <1>3, <2>2, <2>3
<1>5. Shaped'
    BY <1>1 DEF Shaped, step
<1>6. OwnedOnce'
  <2>1. \A n \in Owns : \A a, i : Holds(n, a, i)' => Holds(n, a, i)
    <3>1. CASE trees' = [n \in DOMAIN trees \ {name} |-> trees[n]]
        BY <3>1 DEF Holds
    <3>2. ASSUME NEW i \in DOMAIN trees[name], trees' = [trees EXCEPT ![name][i] = Missing]
          PROVE  \A n \in Owns : \A a, j : Holds(n, a, j)' => Holds(n, a, j)
        BY <3>2, LinksAre DEF Holds
    <3>. QED  BY <1>3, <3>1, <3>2
  <2>2. \A n \in Owns : \A s, i : Makes(n, s, i)' => Makes(n, s, i)
      BY <1>1 DEF Makes, step
  <2>. QED  BY <2>1, <2>2, OwnedShrinks
<1>7. \A s \in Steps : Composes(s)'
    BY <1>2, NothingComposes
<1>. QED  BY <1>4, <1>5, <1>6, <1>7
-----------------------------------------------------------------------------
(* What the steps of a build do to their compositions. *)

\* A file of a step's own that an instance has, or is to have, is made.
LEMMA OwnedAreMade ==
    ASSUME TreesShaped, \A s \in Steps : JobShaped(s), own \in [Steps -> Nat],
           instances \in [Procs -> SUBSET Names], home \in [Steps -> Procs]
    PROVE  /\ \A n \in Owns : Held(n) \/ Made(n) => OfStep(n)
           /\ \A s \in Steps : Fresh(s) \in Owns /\ ~OfStep(Fresh(s))
<1>1. ASSUME NEW name, NEW nodes, Instance(name, nodes), NEW i \in DOMAIN nodes, nodes[i] \in Owns
      PROVE  OfStep(nodes[i])
  <2>1. name \in Names /\ i \in DOMAIN Files[name[1]]
      BY <1>1 DEF Instance
  <2>2. nodes[i] # Numbered(name)[i] /\ nodes[i] # Missing
      BY <1>1, <2>1, NumberedLinks, LinksAre
  <2>. QED  BY <1>1, <2>1, <2>2 DEF Instance
<1>2. ASSUME NEW n \in Owns, Held(n)
      PROVE  OfStep(n)
    BY <1>1, <1>2 DEF Held, Holds, TreesShaped
<1>3. ASSUME NEW n \in Owns, NEW s \in Steps, NEW i, Makes(n, s, i)
      PROVE  OfStep(n)
  <2>1. job[s] # None /\ job[s].nodes # <<>>
      BY <1>3 DEF Makes
  <2>2. Instance(job[s].name, job[s].nodes)
      BY <2>1 DEF JobShaped
  <2>. QED  BY <1>1, <1>3, <2>2 DEF Makes
<1>4. \A s \in Steps : Fresh(s) \in Owns /\ ~OfStep(Fresh(s))
    BY DEF Fresh, Owns, OfStep
<1>. QED  BY <1>2, <1>3, <1>4 DEF Made, Makes

LEMMA FreshIsNew ==
    ASSUME CInv, NEW s \in Steps
    PROVE  /\ Fresh(s) \in Owns /\ Fresh(s) \notin Links /\ ~OfStep(Fresh(s))
           /\ ~Held(Fresh(s)) /\ ~Made(Fresh(s))
           /\ \A n \in Owns : Held(n) \/ Made(n) => OfStep(n)
<1>1. TreesShaped /\ (\A t \in Steps : JobShaped(t)) /\ own \in [Steps -> Nat]
      /\ instances \in [Procs -> SUBSET Names] /\ home \in [Steps -> Procs]
    BY DEF CInv, Composes, Shaped, WInv, Exclusive
<1>. QED  BY <1>1, OwnedAreMade, LinksAre

\* What an instance is to be made of.
LEMMA LinkedAre ==
    ASSUME NEW s \in Steps, NEW name \in Names, NEW bad
    PROVE  /\ DOMAIN Linked(s, name, bad) = DOMAIN Files[name[1]]
           /\ Linked(s, name, bad) = [i \in DOMAIN Files[name[1]] |-> Linked(s, name, bad)[i]]
           /\ \A i \in DOMAIN Files[name[1]] :
                /\ i \in Nat /\ i # 0
                /\ i # bad => Linked(s, name, bad)[i] = Numbered(name)[i]
                /\ i = bad => Linked(s, name, bad)[i] = Fresh(s)
<1>1. DOMAIN Numbered(name) = DOMAIN Files[name[1]]
    BY DEF Numbered
<1>2. Linked(s, name, bad) = [i \in DOMAIN Files[name[1]] |->
                                 IF i = bad THEN Fresh(s) ELSE Numbered(name)[i]]
    BY <1>1 DEF Linked
<1>3. \A i \in DOMAIN Files[name[1]] : i \in Nat /\ i # 0
    BY NamesAre
<1>. QED  BY <1>2, <1>3

\* What they are linked to is noted.
LEMMA NotedAre ==
    ASSUME Shaped, NEW s \in Steps, NEW nodes, home[s] \in Procs, Note(s, nodes),
           \A n \in nodes : n \in Links \/ n \in Owns
    PROVE  /\ noted' \in [Procs -> SUBSET Links]
           /\ \A p \in Procs : noted[p] \subseteq noted'[p]
           /\ \A e, k : <<e, k>> \in nodes /\ e \in Entries => <<e, k>> \in noted'[home[s]]
<1>1. noted' = [noted EXCEPT ![home[s]] = noted[home[s]] \cup
                  {n \in nodes : n[1] \in Entries /\ (Len(n) = 3 => <<n[1], 0>> \notin noted[home[s]])}]
    BY DEF Note
<1>2. \A n \in nodes : n[1] \in Entries => n \in Links
    BY LinksAre, NamesAssumption
<1>3. noted \in [Procs -> SUBSET Links]
    BY DEF Shaped
<1>4. \A e, k : Len(<<e, k>>) # 3 /\ <<e, k>>[1] = e
    OBVIOUS
<1>. QED  BY <1>1, <1>2, <1>3, <1>4

\* A step changes what is its own.
Elsewhere(s) ==
    /\ UNCHANGED <<phase, home>>
    /\ \A t \in Steps \ {s} :
          /\ job'[t] = job[t] /\ inputs'[t] = inputs[t] /\ placing'[t] = placing[t]
          /\ next'[t] = next[t] /\ placed'[t] = placed[t]
    /\ \A p \in Procs : noted[p] \subseteq noted'[p] /\ instances[p] \subseteq instances'[p]

LEMMA StepStays ==
    ASSUME CInv, WInv', NEW s \in Steps, Grows, Elsewhere(s), TreesShaped', Shaped', OwnedOnce',
           Composes(s)'
    PROVE  CInv'
<1>1. ASSUME NEW t \in Steps \ {s}
      PROVE  Composes(t)'
  <2>1. Composes(t) /\ placed[t] \in Seq(Placements) /\ home[t] \in Procs
      BY DEF CInv, Shaped, WInv, Exclusive
  <2>. QED  BY <2>1, OthersStay DEF Elsewhere, Building
<1>. QED  BY <1>1 DEF CInv

\* The files of a tree are linked one by one.
LEMMA StageTreeStays ==
    ASSUME CInv, WInv', NEW s \in Steps, NEW t \in Trees, StageTree(s, t), t \notin Large
    PROVE  CInv'
<1>. DEFINE name == Name(t, NoBases)
<1>1. PICK bad \in {0} \cup DOMAIN Files[t] :
          /\ Owning(s, bad # 0) /\ Note(s, Range(Linked(s, name, bad)))
          /\ inputs' = [inputs EXCEPT ![s] = @ \cup FilesOf(Linked(s, name, bad), None)]
    BY DEF StageTree
<1>. DEFINE nodes == Linked(s, name, bad)
<1>2. /\ Idle(s) /\ placed[s] = <<>>
      /\ UNCHANGED <<trees, instances, job, placed, phase, home, placing, next>>
    BY DEF StageTree
<1>3. name \in Names /\ name[1] = t
  <2>1. NoBases \in [{} -> Nat]
      BY DEF NoBases
  <2>. QED  BY <2>1 DEF Name, Names
<1>4. /\ DOMAIN nodes = DOMAIN Files[t]
      /\ \A i \in DOMAIN Files[t] : i \in Nat /\ i # 0
      /\ \A i \in DOMAIN Files[t] : i # bad => nodes[i] = Numbered(name)[i] /\ nodes[i] \in Links
      /\ \A i \in DOMAIN Files[t] : i = bad => nodes[i] = Fresh(s)
    BY <1>3, LinkedAre, NumberedLinks
<1>. HIDE DEF name
<1>5. /\ Fresh(s) \in Owns /\ Fresh(s) \notin Links /\ ~OfStep(Fresh(s))
      /\ ~Held(Fresh(s)) /\ ~Made(Fresh(s))
    BY FreshIsNew
<1>6. home[s] \in Procs /\ own \in [Steps -> Nat] /\ Shaped /\ Composes(s)
    BY DEF CInv, WInv, Exclusive, Shaped
<1>7. /\ noted' \in [Procs -> SUBSET Links]
      /\ \A p \in Procs : noted[p] \subseteq noted'[p]
      /\ \A e, k : <<e, k>> \in Range(nodes) /\ e \in Entries => <<e, k>> \in noted'[home[s]]
  <2>1. \A n \in Range(nodes) : n \in Links \/ n \in Owns
      BY <1>4, <1>5 DEF Range
  <2>. QED  BY <1>1, <1>6, <2>1, NotedAre
<1>8. own' \in [Steps -> Nat] /\ (\A n : OfStep(n) => OfStep(n)')
      /\ \A n : bad # 0 /\ n = Fresh(s) => OfStep(n)'
    BY <1>1, <1>6 DEF Owning, OfStep, Owns, Fresh
<1>9. Grows
    BY <1>2, <1>8 DEF Grows, Holds, Made, Makes
<1>10. Elsewhere(s)
    BY <1>1, <1>2, <1>7 DEF Elsewhere, CInv, Shaped
<1>11. TreesShaped'
    BY <1>2, <1>9, ShapedTreesStay DEF CInv
<1>12. Shaped'
    BY <1>1, <1>2, <1>6, <1>7, <1>8 DEF Shaped
<1>13. OwnedOnce'
    BY <1>2, OwnedShrinks DEF CInv, Holds, Makes
<1>14. ASSUME NEW file \in FilesOf(nodes, None)
       PROVE  Known(s, file)'
  <2>1. PICK i \in DOMAIN nodes : file = [node |-> nodes[i], name |-> None, at |-> i]
      BY <1>14 DEF FilesOf, File
  <2>2. CASE i = bad
    <3>1. file.node = Fresh(s) /\ file.name = None /\ OfStep(file.node)'
        BY <1>4, <1>8, <2>1, <2>2
    <3>2. ASSUME NEW n, n = Fresh(s)
          PROVE  ~Held(n)' /\ ~Made(n)'
        BY <1>2, <1>5, <3>2 DEF Held, Holds, Made, Makes
    <3>. QED  BY <1>5, <3>1, <3>2 DEF Known
  <2>3. CASE i # bad
    <3>1. nodes[i] = Numbered(name)[i] /\ nodes[i] \in Links /\ nodes[i] \in Range(nodes)
        BY <1>4, <2>1, <2>3 DEF Range
    <3>2. PICK e, k : e \in Entries /\ nodes[i] = <<e, k>>
        BY <1>3, <1>4, <3>1, NumberedIs
    <3>3. nodes[i] \in noted'[home[s]]
        BY <1>7, <3>1, <3>2
    <3>. QED  BY <1>2, <2>1, <3>1, <3>3 DEF Known
  <2>. QED  BY <2>2, <2>3
<1>15. InputsKnown(s)'
  <2>1. \A file \in inputs[s] : Known(s, file)'
      BY <1>2, <1>6, <1>7, <1>9, KnownStays DEF Composes, InputsKnown
  <2>2. inputs'[s] = inputs[s] \cup FilesOf(nodes, None)
      BY <1>1, <1>6 DEF Shaped
  <2>. QED  BY <1>14, <2>1, <2>2 DEF InputsKnown
<1>16. Composes(s)'
    BY <1>2, <1>15 DEF Composes, Quiet, Nothing, Building, Idle, JobShaped, MountCounted, Mounting,
                       PlacedUnder, ApartIn
<1>. QED  BY <1>9, <1>10, <1>11, <1>12, <1>13, <1>16, StepStays

LEMMA HeldAre ==
    ASSUME TreesShaped, NEW n, NEW name, NEW i, Holds(n, name, i)
    PROVE  /\ name \in Names /\ i \in DOMAIN Files[name[1]] /\ Numbered(name)[i] \in Links
           /\ n = Numbered(name)[i] \/ n = Missing \/ OfStep(n)
<1>1. Instance(name, trees[name]) /\ i \in DOMAIN trees[name] /\ trees[name][i] = n
    BY DEF TreesShaped, Holds
<1>2. name \in Names /\ i \in DOMAIN Files[name[1]]
    BY <1>1 DEF Instance
<1>. QED  BY <1>1, <1>2, NumberedLinks DEF Instance

LEMMA MountedHold ==
    ASSUME TreesShaped, NEW name \in DOMAIN trees, NEW k
    PROVE  k \in DOMAIN trees[name] <=> k \in DOMAIN Files[name[1]]
BY DEF TreesShaped, Instance

\* What a placement is, or one of its instance's files, is placed as one file.
LEMMA PlacedAt ==
    ASSUME CInv, NEW s \in Steps, Building(s), NEW c \in Placements, Placed(s, c),
           NEW n, NEW k, At(trees, c, n, k)
    PROVE  PlacedOnce(s, n)
<1>1. CASE "node" \in DOMAIN c
    BY <1>1, PlacementsAre DEF Placed
<1>2. CASE "node" \notin DOMAIN c
  <2>1. Mounted(s, c.name) /\ Holds(n, c.name, k)
      BY <1>2, PlacementsAre DEF Placed, Mounted, Holds
  <2>2. n # Missing
    <3>1. home[s] \in Procs /\ phase[home[s]] = "building"
        BY DEF CInv, WInv, Exclusive, Building
    <3>2. Missing \notin Range(trees[c.name])
        BY <2>1, <3>1 DEF CInv, WInv, Exclusive, WholeButForgotten, Holds
    <3>. QED  BY <2>1, <3>2 DEF Range, Holds
  <2>3. c.name \in Names /\ k \in DOMAIN Files[c.name[1]] /\ (n = Numbered(c.name)[k] \/ OfStep(n))
      BY <2>1, <2>2, HeldAre DEF CInv
  <2>4. Under(s, Numbered(c.name)[k])
      BY <2>1, <2>3 DEF Mounted
  <2>5. CASE OfStep(n)
    <3>1. n \in Owns /\ Held(n)
        BY <2>1, <2>5 DEF OfStep, Held
    <3>2. ~Made(n) /\ \A b, i : Holds(n, b, i) => b = c.name /\ i = k
        BY <2>1, <3>1 DEF CInv, OwnedOnce
    <3>. QED  BY <2>4, <2>5, <3>1, <3>2 DEF PlacedOnce
  <2>. QED  BY <2>3, <2>4, <2>5 DEF PlacedOnce
<1>. QED  BY <1>1, <1>2

\* No two files of an instance are one.
LEMMA InstanceApart ==
    ASSUME NEW name, NEW there, Instance(name, there), Missing \notin Range(there),
           \A n \in Owns : \A k, l \in DOMAIN there : there[k] = n /\ there[l] = n => k = l,
           NEW k \in DOMAIN there, NEW l \in DOMAIN there, there[k] = there[l]
    PROVE  k = l
<1>1. name \in Names /\ k \in DOMAIN Files[name[1]] /\ l \in DOMAIN Files[name[1]]
    BY DEF Instance
<1>2. CASE there[k] \in Owns
    BY <1>2
<1>3. CASE there[k] \notin Owns
  <2>1. there[k] = Numbered(name)[k] /\ there[l] = Numbered(name)[l]
      BY <1>1, <1>3 DEF Instance, OfStep, Range
  <2>. QED  BY <1>1, <2>1, NumberedApart
<1>. QED  BY <1>2, <1>3

\* Nor is one of an instance to mount a file placed before.
LEMMA MountApart ==
    ASSUME CInv, NEW s \in Steps, NEW name, NEW there, Instance(name, there),
           NEW l \in DOMAIN there, PlacedOnce(s, there[l]),
           there[l] \in Owns => Holds(there[l], name, l) \/ Made(there[l]),
           \A m : Under(s, m) => Below(m, name)
    PROVE  FALSE
<1>1. name \in Names /\ l \in DOMAIN Files[name[1]] /\ ~Below(Numbered(name)[l], name)
    BY NumberedLinks DEF Instance
<1>2. CASE Under(s, there[l])
  <2>1. there[l] \in Links
      BY <1>2 DEF Under
  <2>2. there[l] = Numbered(name)[l]
      BY <1>1, <2>1, LinksAre DEF Instance, OfStep
  <2>. QED  BY <1>1, <1>2, <2>2
<1>3. CASE ~Under(s, there[l])
  <2>1. /\ there[l] \in Owns /\ ~Made(there[l])
        /\ \A b, i : Holds(there[l], b, i) => Under(s, Numbered(b)[i])
      BY <1>3 DEF PlacedOnce, OfStep
  <2>. QED  BY <1>1, <2>1
<1>. QED  BY <1>2, <1>3

\* One more placement.
LEMMA Appended ==
    ASSUME NEW s \in Steps, placed[s] \in Seq(Placements), PlacedUnder(s), ApartIn(s),
           NEW c \in Placements, placed'[s] = Append(placed[s], c), Grows,
           \A d \in Placements : Placed(s, d) => Placed(s, d)',
           Placed(s, c)',
           \A d \in Placements : Placed(s, d) =>
              \A n, k, l : At(trees, d, n, k) => ~At(trees', c, n, l),
           \A n, k, l : At(trees', c, n, k) /\ At(trees', c, n, l) => k = l
    PROVE  PlacedUnder(s)' /\ ApartIn(s)' /\ placed'[s] \in Seq(Placements)
<1>1. /\ placed'[s] \in Seq(Placements)
      /\ DOMAIN placed[s] = 1 .. Len(placed[s]) /\ Len(placed[s]) \in Nat
      /\ DOMAIN placed'[s] = 1 .. Len(placed[s]) + 1
      /\ \A i \in DOMAIN placed[s] : placed'[s][i] = placed[s][i] /\ placed[s][i] \in Placements
      /\ placed'[s][Len(placed[s]) + 1] = c
    OBVIOUS
<1>2. ASSUME NEW i \in DOMAIN placed'[s]
      PROVE  i = Len(placed[s]) + 1 \/ i \in DOMAIN placed[s]
    BY <1>1
<1>3. \A i \in DOMAIN placed[s] : Placed(s, placed[s][i])
    BY DEF PlacedUnder
<1>4. ASSUME NEW i \in DOMAIN placed'[s], NEW d, d = placed'[s][i]
      PROVE  Placed(s, d)'
    BY <1>1, <1>2, <1>3, <1>4
<1>5. PlacedUnder(s)'
    BY <1>4 DEF PlacedUnder
<1>6. \A i \in DOMAIN placed[s] : \A n, k :
          At(trees', placed'[s][i], n, k) => At(trees, placed[s][i], n, k)
  <2>1. \A d \in Placements : Placed(s, d) => \A n, k : At(trees', d, n, k) => At(trees, d, n, k)
      BY AtStays
  <2>. QED  BY <1>1, <1>3, <2>1
<1>7. ASSUME NEW i \in DOMAIN placed'[s], NEW j \in DOMAIN placed'[s], NEW n, NEW k, NEW l,
             At(trees', placed'[s][i], n, k), At(trees', placed'[s][j], n, l)
      PROVE  i = j /\ k = l
  <2>1. CASE i \in DOMAIN placed[s] /\ j \in DOMAIN placed[s]
    <3>1. At(trees, placed[s][i], n, k) /\ At(trees, placed[s][j], n, l)
        BY <1>6, <1>7, <2>1
    <3>2. ApartIn(s)
        OBVIOUS
    <3>. QED  BY ONLY <2>1, <3>1, <3>2 DEF ApartIn
  <2>2. CASE i \in DOMAIN placed[s] /\ j = Len(placed[s]) + 1
      BY <1>1, <1>3, <1>6, <1>7, <2>2
  <2>3. CASE i = Len(placed[s]) + 1 /\ j \in DOMAIN placed[s]
      BY <1>1, <1>3, <1>6, <1>7, <2>3
  <2>4. CASE i = Len(placed[s]) + 1 /\ j = Len(placed[s]) + 1
      BY <1>1, <1>7, <2>4
  <2>. QED  BY <1>2, <2>1, <2>2, <2>3, <2>4
<1>8. ApartIn(s)'
    BY <1>7 DEF ApartIn
<1>. QED  BY <1>1, <1>5, <1>8

\* Placements stay placed, whatever of an instance comes to be seen.
LEMMA PlacementsStay ==
    ASSUME Grows, NEW s \in Steps, PlacedUnder(s), ApartIn(s), placed[s] \in Seq(Placements),
           placed'[s] = placed[s],
           \A n : Under(s, n) => Under(s, n)',
           placing[s] \subseteq placing'[s],
           \A file \in inputs'[s] : file \in inputs[s] \/ file.node \in Links \/ Held(file.node)'
                                    \/ ~OfStep(file.node)
    PROVE  PlacedUnder(s)' /\ ApartIn(s)'
<1>1. \A i \in DOMAIN placed[s] : placed[s][i] \in Placements /\ Placed(s, placed[s][i])
    BY DEF PlacedUnder
<1>2. \A d \in Placements : Placed(s, d) => Placed(s, d)'
    BY PlacedStays
<1>3. ASSUME NEW i \in DOMAIN placed'[s], NEW d, d = placed'[s][i]
      PROVE  Placed(s, d)'
    BY <1>1, <1>2, <1>3
<1>4. \A i \in DOMAIN placed[s] : \A n, k :
          At(trees', placed[s][i], n, k) => At(trees, placed[s][i], n, k)
  <2>1. \A d \in Placements : Placed(s, d) => \A n, k : At(trees', d, n, k) => At(trees, d, n, k)
      BY AtStays
  <2>. QED  BY <1>1, <2>1
<1>5. ASSUME NEW i \in DOMAIN placed'[s], NEW j \in DOMAIN placed'[s], NEW n, NEW k, NEW l,
             At(trees', placed'[s][i], n, k), At(trees', placed'[s][j], n, l)
      PROVE  i = j /\ k = l
  <2>1. At(trees, placed[s][i], n, k) /\ At(trees, placed[s][j], n, l)
      BY <1>4, <1>5
  <2>2. i \in DOMAIN placed[s] /\ j \in DOMAIN placed[s] /\ ApartIn(s)
      BY <1>5
  <2>. QED  BY ONLY <2>1, <2>2 DEF ApartIn
<1>6. PlacedUnder(s)'
    BY <1>3 DEF PlacedUnder
<1>7. ApartIn(s)'
    BY <1>5 DEF ApartIn
<1>. QED  BY <1>6, <1>7

\* An instance that is there is used, or a step is to make it.
LEMMA MaterialiseStays ==
    ASSUME CInv, WInv', NEW s \in Steps, Idle(s), NEW name \in Names, NEW mount \in BOOLEAN,
           Materialise(s, name, mount), UNCHANGED <<disk, phase, noted, home, placing, own>>,
           next' \in [Steps -> [Entries -> Nat]], \A t \in Steps \ {s} : next'[t] = next[t],
           \A e \in Entries : next[s][e] <= next'[s][e],
           mount => \A e \in Range(Files[name[1]]) :
                       /\ Base(name, e) = next[s][e]
                       /\ next[s][e] + Count(Files[name[1]], e) <= next'[s][e]
    PROVE  CInv'
<1>. DEFINE new == [name |-> name, mount |-> mount, nodes |-> <<>>]
<1>1. /\ job[s] = None /\ Building(s) /\ UNCHANGED <<trees, placing>> /\ home[s] \in Procs
      /\ Shaped /\ Composes(s) /\ TreesShaped /\ OwnedOnce
      /\ home \in [Steps -> Procs]
    BY DEF Idle, disk, CInv, WInv, Exclusive
<1>2. /\ instances' = [instances EXCEPT ![home[s]] = @ \cup {name}]
      /\ \/ name \in DOMAIN trees /\ Use(s, name, mount) /\ UNCHANGED job
         \/ name \notin DOMAIN trees /\ job' = [job EXCEPT ![s] = new] /\ UNCHANGED <<inputs, placed>>
    BY DEF Materialise
<1>3. /\ instances' \in [Procs -> SUBSET Names] /\ name \in instances'[home[s]]
      /\ \A p \in Procs : instances[p] \subseteq instances'[p]
    BY <1>1, <1>2 DEF Shaped
<1>4. new \in Jobs /\ new.nodes = <<>> /\ new.name = name /\ new.mount = mount /\ new # None
  <2>1. <<>> \in Seq(Nodes)
      OBVIOUS
  <2>2. new \in Jobs
      BY <2>1 DEF Jobs
  <2>. QED  BY <2>2, NamesAssumption
<1>. HIDE DEF new
<1>5. job' \in [Steps -> Jobs \cup {None}] /\ (job'[s] = None \/ job'[s] = new)
      /\ \A t \in Steps \ {s} : job'[t] = job[t]
    BY <1>1, <1>2, <1>4 DEF Shaped
<1>6. \A n, t, i : Makes(n, t, i)' => Makes(n, t, i)
    BY <1>4, <1>5 DEF Makes
<1>7. Grows
    BY <1>1, <1>6 DEF Grows, Holds, Made, OfStep
<1>8. ASSUME NEW n, Under(s, n)
      PROVE  Under(s, n)'
  <2>1. n \in Links /\ n[1] \in Entries /\ n[2] \in Nat /\ n[2] < next[s][n[1]]
      BY <1>8, LinksAre DEF Under
  <2>2. n[2] < next'[s][n[1]]
      BY <1>1, <2>1 DEF Shaped
  <2>3. ASSUME Mounting(s)'
        PROVE  Below(n, job'[s].name)
      BY <1>4, <1>5, <2>1, <2>3 DEF Mounting, Below
  <2>. QED  BY <2>1, <2>2, <2>3 DEF Under, Below
<1>9. TreesShaped'
    BY <1>1, <1>7, ShapedTreesStay
<1>10. OwnedOnce'
    BY <1>1, <1>6, OwnedShrinks DEF Holds
<1>11. Quiet(s)' /\ JobShaped(s)' /\ MountCounted(s)'
  <2>1. Quiet(s)'
      BY <1>1 DEF Quiet, Building
  <2>2. JobShaped(s)'
      BY <1>3, <1>4, <1>5 DEF JobShaped
  <2>3. MountCounted(s)'
      BY <1>4, <1>5 DEF MountCounted, Mounting
  <2>. QED  BY <2>1, <2>2, <2>3
<1>12. \A file \in inputs[s] : Known(s, file)'
    BY <1>1, <1>3, <1>7, KnownStays DEF Composes, InputsKnown
<1>13. /\ DOMAIN inputs' = Steps /\ \A t \in Steps \ {s} : inputs'[t] = inputs[t]
       /\ DOMAIN placed' = Steps /\ \A t \in Steps \ {s} : placed'[t] = placed[t]
       /\ placed' = [t \in Steps |-> placed'[t]]
    BY <1>1, <1>2 DEF Shaped, Use
<1>14. Elsewhere(s)
    BY <1>1, <1>3, <1>5, <1>13 DEF Elsewhere
<1>15. ASSUME placed'[s] \in Seq(Placements)
       PROVE  Shaped'
  <2>1. placed' \in [Steps -> Seq(Placements)]
      BY <1>1, <1>13, <1>15 DEF Shaped
  <2>. QED  BY <1>1, <1>3, <1>5, <1>13, <2>1 DEF Shaped
<1>16. placed[s] \in Seq(Placements) /\ PlacedUnder(s) /\ ApartIn(s)
    BY <1>1 DEF Shaped, Composes
<1>17. CASE name \in DOMAIN trees
  <2>1. Instance(name, trees[name])
      BY <1>1, <1>17 DEF TreesShaped
  <2>2. Missing \notin Range(trees[name])
      BY <1>1, <1>17 DEF CInv, WInv, Exclusive, WholeButForgotten, Building
  <2>3. \A i \in DOMAIN trees[name] : Holds(trees[name][i], name, i)
      BY <1>17 DEF Holds
  <2>4. CASE mount
    <3>. DEFINE c == [name |-> name]
    <3>1. placed'[s] = Append(placed[s], c) /\ UNCHANGED inputs /\ UNCHANGED job
        BY <1>1, <1>2, <1>17, <2>4 DEF Use, Shaped
    <3>2. c \in Placements /\ "node" \notin DOMAIN c /\ c.name = name
        BY DEF Placements
    <3>. HIDE DEF c
    <3>3. \A there, n, k : At(there, c, n, k) <=> k \in DOMAIN there[name] /\ there[name][k] = n
        BY <3>2, PlacementsAre
    <3>4. \A d \in Placements : Placed(s, d) => Placed(s, d)'
        BY <1>1, <1>7, <1>8, <3>1, PlacedStays
    <3>5. Placed(s, c)'
      <4>1. ASSUME NEW i \in DOMAIN Files[name[1]]
            PROVE  Under(s, Numbered(name)[i])'
        <5>. DEFINE e == Files[name[1]][i]
        <5>1. /\ Numbered(name)[i] = <<e, Base(name, e) + Before(name[1], i)>>
              /\ e \in Entries /\ Base(name, e) \in Nat /\ Before(name[1], i) \in Nat
              /\ Before(name[1], i) < Count(Files[name[1]], e)
            BY NumberedIs
        <5>2. e \in Range(Files[name[1]]) /\ Numbered(name)[i] \in Links
            BY NumberedLinks DEF Range
        <5>3. Base(name, e) = next[s][e] /\ next[s][e] + Count(Files[name[1]], e) <= next'[s][e]
            BY <2>4, <5>2
        <5>4. next'[s][e] \in Nat /\ Count(Files[name[1]], e) \in Nat
            BY <5>1, NamesAre, CountIsNat
        <5>5. ~Mounting(s)'
            BY <1>1, <3>1 DEF Mounting
        <5>. HIDE DEF e
        <5>. QED  BY <5>1, <5>2, <5>3, <5>4, <5>5 DEF Under
      <4>2. Mounted(s, name)'
          BY <1>1, <1>17, <4>1 DEF Mounted
      <4>. QED  BY <3>2, <4>2 DEF Placed
    <3>6. ASSUME NEW m, Under(s, m)
          PROVE  Below(m, name)
        BY <2>4, <3>6 DEF Under, Below
    <3>7. ASSUME NEW d \in Placements, Placed(s, d), NEW n, NEW k, NEW l, At(trees, d, n, k)
          PROVE  ~At(trees', c, n, l)
      <4>1. PlacedOnce(s, n)
          BY <1>1, <3>7, PlacedAt
      <4>2. l \in DOMAIN trees[name] => trees[name][l] # n
          BY <2>1, <2>3, <3>6, <4>1, MountApart
      <4>. QED  BY <1>1, <3>3, <4>2
    <3>8. ASSUME NEW n, NEW k, NEW l, At(trees', c, n, k), At(trees', c, n, l)
          PROVE  k = l
      <4>1. \A m \in Owns : \A i, j \in DOMAIN trees[name] :
                trees[name][i] = m /\ trees[name][j] = m => i = j
          BY <1>1, <2>3 DEF OwnedOnce
      <4>2. k \in DOMAIN trees[name] /\ l \in DOMAIN trees[name] /\ trees[name][k] = trees[name][l]
          BY <1>1, <3>3, <3>8
      <4>. QED  BY <2>1, <2>2, <4>1, <4>2, InstanceApart
    <3>9. PlacedUnder(s)' /\ ApartIn(s)' /\ placed'[s] \in Seq(Placements)
        BY <1>7, <1>16, <3>1, <3>2, <3>4, <3>5, <3>7, <3>8, Appended
    <3>10. InputsKnown(s)'
        BY <1>12, <3>1 DEF InputsKnown
    <3>. QED  BY <1>7, <1>9, <1>10, <1>11, <1>14, <1>15, <3>9, <3>10, StepStays DEF Composes
  <2>5. CASE ~mount
    <3>1. inputs'[s] = inputs[s] \cup FilesOf(trees[name], name) /\ UNCHANGED <<placed, job>>
        BY <1>1, <1>2, <1>17, <2>5 DEF Use, Shaped
    <3>2. ASSUME NEW file \in FilesOf(trees[name], name)
          PROVE  Known(s, file)' /\ (file.node \in Links \/ Held(file.node)')
      <4>1. PICK i \in DOMAIN trees[name] : file = [node |-> trees[name][i], name |-> name, at |-> i]
          BY <3>2 DEF FilesOf, File
      <4>2. file.name = name /\ name # None /\ Holds(file.node, file.name, file.at)
          BY <2>3, <4>1, NamesAssumption
      <4>3. file.node \in Links \/ OfStep(file.node)
          BY <1>1, <2>2, <4>1, <4>2, HeldAre DEF Range
      <4>4. Holds(file.node, file.name, file.at)' /\ (OfStep(file.node) => OfStep(file.node)')
          BY <1>7, <4>2, HoldsGrows DEF Grows
      <4>. QED  BY <1>1, <1>3, <4>2, <4>3, <4>4 DEF Known, Held
    <3>3. InputsKnown(s)'
        BY <1>12, <3>1, <3>2 DEF InputsKnown
    <3>4. PlacedUnder(s)' /\ ApartIn(s)'
        BY <1>1, <1>7, <1>8, <1>16, <3>1, <3>2, PlacementsStay
    <3>. QED  BY <1>7, <1>9, <1>10, <1>11, <1>14, <1>15, <1>16, <3>1, <3>3, <3>4, StepStays DEF Composes
  <2>. QED  BY <2>4, <2>5
<1>18. CASE name \notin DOMAIN trees
  <2>1. UNCHANGED <<inputs, placed>>
      BY <1>2, <1>18
  <2>2. InputsKnown(s)'
      BY <1>12, <2>1 DEF InputsKnown
  <2>3. PlacedUnder(s)' /\ ApartIn(s)'
      BY <1>1, <1>7, <1>8, <1>16, <2>1, PlacementsStay
  <2>. QED  BY <1>7, <1>9, <1>10, <1>11, <1>14, <1>15, <1>16, <2>1, <2>2, <2>3, StepStays DEF Composes
<1>. QED  BY <1>17, <1>18

LEMMA StageLargeStays ==
    ASSUME CInv, WInv', NEW s \in Steps, NEW t \in Trees, StageTree(s, t), t \in Large
    PROVE  CInv'
<1>. DEFINE name == Name(t, NoBases)
<1>1. name \in Names
  <2>1. NoBases \in [{} -> Nat]
      BY DEF NoBases
  <2>. QED  BY <2>1 DEF Name, Names
<1>. HIDE DEF name
<1>2. /\ Idle(s) /\ Materialise(s, name, FALSE)
      /\ UNCHANGED <<disk, phase, noted, home, placing, next, own>>
    BY DEF StageTree, disk, name
<1>3. /\ next' \in [Steps -> [Entries -> Nat]] /\ (\A z \in Steps \ {s} : next'[z] = next[z])
      /\ \A e \in Entries : next[s][e] <= next'[s][e]
    BY <1>2 DEF CInv, Shaped
<1>. QED  BY <1>1, <1>2, <1>3, MaterialiseStays

LEMMA PlaceTreeStays ==
    ASSUME CInv, WInv', NEW s \in Steps, NEW t \in Trees, PlaceTree(s, t)
    PROVE  CInv'
<1>. DEFINE name == Name(t, Bases(s, t))
<1>1. /\ Idle(s) /\ Materialise(s, name, TRUE)
      /\ UNCHANGED <<disk, phase, noted, home, placing, own>>
      /\ next' = [next EXCEPT ![s] = [e \in Entries |-> @[e] + Count(Files[t], e)]]
    BY DEF PlaceTree
<1>2. next \in [Steps -> [Entries -> Nat]] /\ \A e : Count(Files[t], e) \in Nat
    BY CountIsNat DEF CInv, Shaped
<1>3. Range(Files[t]) \subseteq Entries
    BY NamesAssumption DEF Range
<1>4. name \in Names /\ name[1] = t /\ \A e \in Range(Files[t]) : Base(name, e) = next[s][e]
  <2>1. name[1] = t /\ name[2] = Bases(s, t)
      BY DEF Name
  <2>2. Bases(s, t) \in [{f \in Range(Files[t]) : next[s][f] > 0} -> Nat]
      BY <1>2, <1>3 DEF Bases
  <2>3. name \in Names
      BY <1>3, <2>2 DEF Names, Name
  <2>4. ASSUME NEW e \in Range(Files[t])
        PROVE  Base(name, e) = next[s][e]
      BY <1>2, <1>3, <2>1 DEF Base, Bases
  <2>. QED  BY <2>1, <2>3, <2>4
<1>. HIDE DEF name
<1>5. \A e \in Entries : next'[s][e] = next[s][e] + Count(Files[t], e)
    BY <1>1, <1>2
<1>6. /\ next' \in [Steps -> [Entries -> Nat]] /\ (\A z \in Steps \ {s} : next'[z] = next[z])
      /\ \A e \in Entries : next[s][e] <= next'[s][e]
    BY <1>1, <1>2, <1>5
<1>7. \A e \in Range(Files[name[1]]) :
          /\ Base(name, e) = next[s][e]
          /\ next[s][e] + Count(Files[name[1]], e) <= next'[s][e]
    BY <1>2, <1>3, <1>4, <1>5
<1>. QED  BY <1>1, <1>4, <1>6, <1>7, MaterialiseStays

\* What is made in tmp/ is its step's, and in no composition.
LEMMA MakeStays ==
    ASSUME CInv, WInv', NEW s \in Steps, Make(s)
    PROVE  CInv'
<1>. DEFINE name == job[s].name
<1>1. PICK bad \in {0} \cup DOMAIN Files[name[1]] :
          /\ Owning(s, bad # 0) /\ Note(s, Range(Linked(s, name, bad)))
          /\ job' = [job EXCEPT ![s].nodes = Linked(s, name, bad)]
    BY DEF Make
<1>. DEFINE nodes == Linked(s, name, bad)
<1>2. /\ Building(s) /\ job[s] # None /\ job[s].nodes = <<>>
      /\ UNCHANGED <<trees, phase, instances, home, inputs, placing, next, placed>>
    BY DEF Make
<1>3. /\ home \in [Steps -> Procs] /\ home[s] \in Procs /\ own \in [Steps -> Nat] /\ Shaped /\ Composes(s)
      /\ OwnedOnce /\ TreesShaped
    BY DEF CInv, WInv, Exclusive, Shaped
<1>4. name \in Names /\ name \in instances[home[s]] /\ job[s] \in Jobs
    BY <1>2, <1>3 DEF Composes, JobShaped, Shaped
<1>5. /\ DOMAIN nodes = DOMAIN Files[name[1]]
      /\ nodes = [i \in DOMAIN Files[name[1]] |-> nodes[i]]
      /\ \A i \in DOMAIN Files[name[1]] : i \in Nat /\ i # 0
      /\ \A i \in DOMAIN Files[name[1]] : i # bad => nodes[i] = Numbered(name)[i] /\ nodes[i] \in Links
      /\ \A i \in DOMAIN Files[name[1]] : i = bad => nodes[i] = Fresh(s)
    BY <1>4, LinkedAre, NumberedLinks
<1>6. /\ Fresh(s) \in Owns /\ Fresh(s) \notin Links /\ ~OfStep(Fresh(s))
      /\ ~Held(Fresh(s)) /\ ~Made(Fresh(s))
    BY FreshIsNew
<1>7. nodes \in Seq(Nodes)
  <2>1. DOMAIN nodes = 1 .. Len(Files[name[1]]) /\ Len(Files[name[1]]) \in Nat
      BY <1>4, <1>5, NamesAre
  <2>2. ASSUME NEW i \in DOMAIN nodes
        PROVE  nodes[i] \in Nodes
    <3>1. CASE i = bad
      <4>1. nodes[i] = <<s, own[s]>>
          BY <1>5, <2>2, <3>1 DEF Fresh
      <4>2. own[s] \in Nat
          BY <1>3
      <4>. QED  BY <4>1, <4>2 DEF Nodes
    <3>2. CASE i # bad
      <4>1. nodes[i] = <<Files[name[1]][i], Base(name, Files[name[1]][i]) + Before(name[1], i)>>
          BY <1>4, <1>5, <2>2, <3>2, NumberedIs
      <4>2. /\ Files[name[1]][i] \in Entries /\ Base(name, Files[name[1]][i]) \in Nat
            /\ Before(name[1], i) \in Nat
          BY <1>4, <1>5, <2>2, NumberedIs
      <4>3. \A e \in Entries : \A b, k \in Nat : <<e, b + k>> \in Nodes
          BY DEF Nodes
      <4>. QED  BY <4>1, <4>2, <4>3
    <3>. QED  BY <3>1, <3>2
  <2>3. nodes = [i \in 1 .. Len(Files[name[1]]) |-> nodes[i]]
      BY <1>5, <2>1
  <2>. QED  BY <2>1, <2>2, <2>3
<1>8. job'[s] = [job[s] EXCEPT !.nodes = nodes] /\ \A t \in Steps \ {s} : job'[t] = job[t]
    BY <1>1, <1>3 DEF Shaped
<1>. HIDE DEF nodes
<1>9. /\ job'[s] \in Jobs /\ job'[s] # None /\ job'[s].name = name /\ job'[s].mount = job[s].mount
      /\ job'[s].nodes = nodes
    BY <1>4, <1>7, <1>8, NamesAssumption DEF Jobs
<1>10. job' \in [Steps -> Jobs \cup {None}]
    BY <1>1, <1>3, <1>9 DEF Shaped
<1>11. /\ noted' \in [Procs -> SUBSET Links]
       /\ \A p \in Procs : noted[p] \subseteq noted'[p]
  <2>1. \A n \in Range(nodes) : n \in Links \/ n \in Owns
      BY <1>5, <1>6 DEF Range
  <2>. QED  BY <1>1, <1>3, <2>1, NotedAre DEF nodes
<1>12. own' \in [Steps -> Nat] /\ (\A n : OfStep(n) => OfStep(n)')
       /\ \A n : bad # 0 /\ n = Fresh(s) => OfStep(n)'
    BY <1>1, <1>3 DEF Owning, OfStep, Owns, Fresh
<1>13. \A n \in Owns : \A t, i : Makes(n, t, i)' =>
           Makes(n, t, i) \/ (n = Fresh(s) /\ t = s /\ i = bad)
  <2>1. ASSUME NEW n \in Owns, NEW i, Makes(n, s, i)'
        PROVE  n = Fresh(s) /\ i = bad
      BY <1>5, <1>9, <2>1, LinksAre DEF Makes
  <2>2. ASSUME NEW n, NEW t \in Steps \ {s}, NEW i, Makes(n, t, i)'
        PROVE  Makes(n, t, i)
      BY <1>8, <2>2 DEF Makes
  <2>. QED  BY <2>1, <2>2 DEF Makes
<1>14. Grows
  <2>1. ASSUME NEW n, OfStep(n), Made(n)'
        PROVE  Made(n)
      BY <1>6, <1>13, <2>1 DEF Made, OfStep
  <2>. QED  BY <1>2, <1>12, <2>1 DEF Grows, Holds
<1>15. TreesShaped'
    BY <1>2, <1>3, <1>14, ShapedTreesStay
<1>16. OwnedOnce'
  <2>1. \A n, a, i : Holds(n, a, i)' <=> Holds(n, a, i)
      BY <1>2 DEF Holds
  <2>2. ASSUME NEW n \in Owns
        PROVE  \A z, t, i, j : Makes(n, z, i)' /\ Makes(n, t, j)' => z = t /\ i = j
      BY <1>3, <1>6, <1>13 DEF OwnedOnce, Made
  <2>3. ASSUME NEW n \in Owns, Held(n)', Made(n)'
        PROVE  FALSE
      BY <1>3, <1>6, <1>13, <2>1, <2>3 DEF OwnedOnce, Held, Made
  <2>. QED  BY <1>3, <2>1, <2>2, <2>3 DEF OwnedOnce
<1>17. Elsewhere(s)
    BY <1>2, <1>8, <1>11 DEF Elsewhere
<1>18. Shaped'
    BY <1>2, <1>3, <1>10, <1>11, <1>12 DEF Shaped
<1>19. JobShaped(s)'
  <2>1. ASSUME NEW n, NEW new, n = name, new = nodes
        PROVE  Instance(n, new)'
      BY <1>4, <1>5, <1>12, <2>1 DEF Instance
  <2>2. job'[s].name = name /\ job'[s].nodes = nodes /\ name \in instances'[home'[s]]
      BY <1>2, <1>4, <1>9
  <2>. QED  BY <2>1, <2>2 DEF JobShaped
<1>20. InputsKnown(s)'
  <2>1. \A file \in inputs[s] : Known(s, file)'
      BY <1>2, <1>3, <1>11, <1>14, KnownStays DEF Composes, InputsKnown
  <2>. QED  BY <1>2, <2>1 DEF InputsKnown
<1>21. MountCounted(s)' /\ \A n : Under(s, n) => Under(s, n)'
    BY <1>2, <1>3, <1>9 DEF Composes, MountCounted, Mounting, Under, Below
<1>22. PlacedUnder(s)' /\ ApartIn(s)'
  <2>1. PlacedUnder(s) /\ ApartIn(s) /\ placed[s] \in Seq(Placements)
      BY <1>3 DEF Composes, Shaped
  <2>. QED  BY <1>2, <1>14, <1>21, <2>1, PlacementsStay
<1>23. Quiet(s)'
    BY <1>2 DEF Quiet, Building
<1>24. Composes(s)'
    BY <1>19, <1>20, <1>21, <1>22, <1>23 DEF Composes
<1>. QED  BY <1>14, <1>15, <1>16, <1>17, <1>18, <1>24, StepStays

\* A composition is sealed, and none of its files is composed again.
LEMMA ComposedStays ==
    ASSUME ~Again, CInv, WInv', NEW s \in Steps, Composed(s)
    PROVE  CInv'
<1>1. /\ Idle(s) /\ UNCHANGED <<trees, phase, noted, instances, home, job, own, inputs>>
      /\ placing' = [placing EXCEPT ![s] = {}]
      /\ next' = [next EXCEPT ![s] = [e \in Entries |-> 0]]
      /\ placed' = [placed EXCEPT ![s] = <<>>]
    BY DEF Composed, disk, process
<1>2. Shaped /\ Composes(s) /\ OwnedOnce /\ TreesShaped
    BY DEF CInv
<1>3. Grows
    BY <1>1 DEF Grows, Holds, Made, Makes, OfStep
<1>4. Shaped'
  <2>1. <<>> \in Seq(Placements)
      OBVIOUS
  <2>. QED  BY <1>1, <1>2, <2>1 DEF Shaped
<1>5. OwnedOnce'
    BY <1>1, <1>2, OwnedShrinks DEF Holds, Makes
<1>6. Elsewhere(s)
    BY <1>1, <1>2 DEF Elsewhere, Shaped
<1>7. InputsKnown(s)'
  <2>1. \A file \in inputs[s] : Known(s, file)'
      BY <1>1, <1>2, <1>3, KnownStays DEF Composes, InputsKnown
  <2>. QED  BY <1>1, <2>1 DEF InputsKnown
<1>8. placed'[s] = <<>> /\ job'[s] = None /\ Building(s)'
    BY <1>1, <1>2 DEF Shaped, Idle, Building
<1>9. Composes(s)'
    BY <1>7, <1>8 DEF Composes, Quiet, JobShaped, MountCounted, Mounting, PlacedUnder, ApartIn
<1>. QED  BY <1>1, <1>2, <1>3, <1>4, <1>5, <1>6, <1>9, ShapedTreesStay, StepStays

\* An instance comes into place, or another's is there.
LEMMA RenameStays ==
    ASSUME CInv, WInv', NEW s \in Steps, Rename(s)
    PROVE  CInv'
<1>. SUFFICES ASSUME NEW name, name = job[s].name, NEW nodes, nodes = job[s].nodes,
                     NEW there, there = InPlace(s)
              PROVE  CInv'
    OBVIOUS
<1>1. /\ Building(s) /\ job[s] # None /\ nodes # <<>>
      /\ trees' = [n \in DOMAIN trees \cup {name} |-> IF n = name THEN there ELSE trees[n]]
      /\ job' = [job EXCEPT ![s] = None]
      /\ UNCHANGED <<phase, noted, instances, home, placing, next, own>>
      /\ IF job[s].mount
         THEN placed' = [placed EXCEPT ![s] = Append(@, [name |-> name])] /\ UNCHANGED inputs
         ELSE /\ inputs' = [inputs EXCEPT ![s] = @ \cup FilesOf(there, name)]
              /\ UNCHANGED placed
    BY DEF Rename, process
<1>2. /\ home[s] \in Procs /\ Shaped /\ Composes(s) /\ OwnedOnce /\ TreesShaped
      /\ placed[s] \in Seq(Placements) /\ PlacedUnder(s) /\ ApartIn(s)
    BY DEF CInv, WInv, Exclusive, Composes, Shaped
<1>3. /\ name \in instances[home[s]] /\ name \in Names /\ Instance(name, nodes)
      /\ Missing \notin Range(nodes)
    BY <1>1, <1>2 DEF CInv, WInv, WholeButForgotten, Composes, JobShaped, Shaped
<1>4. there = IF name \in DOMAIN trees THEN trees[name] ELSE nodes
    BY DEF InPlace
<1>5. Instance(name, there) /\ Missing \notin Range(there)
  <2>1. CASE name \in DOMAIN trees
    <3>1. Missing \notin Range(trees[name])
        BY <1>1, <1>2, <2>1 DEF CInv, WInv, Exclusive, WholeButForgotten, Building
    <3>. QED  BY <1>2, <1>4, <2>1, <3>1 DEF TreesShaped
  <2>2. CASE name \notin DOMAIN trees
      BY <1>3, <1>4, <2>2
  <2>. QED  BY <2>1, <2>2
<1>6. /\ \A n, a, i : Holds(n, a, i)' => Holds(n, a, i)
                          \/ (a = name /\ name \notin DOMAIN trees /\ Makes(n, s, i))
      /\ \A i \in DOMAIN there : /\ Holds(there[i], name, i) \/ Made(there[i])
                                 /\ \A n : n = there[i] => Holds(n, name, i)'
    BY <1>1, <1>4 DEF Holds, Makes, Made
<1>7. \A n, t, i : Makes(n, t, i)' => Makes(n, t, i) /\ t # s
    BY <1>1, <1>2 DEF Makes, Shaped
<1>8. Grows
  <2>1. ASSUME NEW a \in DOMAIN trees
        PROVE  a \in DOMAIN trees' /\ trees'[a] = trees[a]
      BY <1>1, <1>4
  <2>2. \A n : Made(n)' => Made(n)
      BY <1>7 DEF Made
  <2>3. \A n : OfStep(n) => OfStep(n)'
      BY <1>1 DEF OfStep
  <2>4. \A n, a, i : Holds(n, a, i)' => Holds(n, a, i) \/ Made(n)
      BY <1>6 DEF Made
  <2>. QED  BY <2>1, <2>2, <2>3, <2>4 DEF Grows
<1>9. TreesShaped'
  <2>1. ASSUME NEW a \in DOMAIN trees', NEW f, f = trees'[a]
        PROVE  Instance(a, f)'
    <3>1. Instance(a, f)
        BY <1>1, <1>2, <1>5, <2>1 DEF TreesShaped
    <3>. QED  BY <1>8, <3>1, InstanceStays
  <2>2. trees' = [a \in DOMAIN trees' |-> trees'[a]]
      BY <1>1
  <2>. QED  BY <2>1, <2>2 DEF TreesShaped
<1>10. OwnedOnce'
  <2>. SUFFICES ASSUME NEW n \in Owns
                PROVE  /\ \A a, b, i, j : Holds(n, a, i)' /\ Holds(n, b, j)' => a = b /\ i = j
                       /\ \A z, t, i, j : Makes(n, z, i)' /\ Makes(n, t, j)' => z = t /\ i = j
                       /\ ~(Held(n)' /\ Made(n)')
      BY DEF OwnedOnce
  <2>1. /\ \A a, b, i, j : Holds(n, a, i) /\ Holds(n, b, j) => a = b /\ i = j
        /\ \A z, t, i, j : Makes(n, z, i) /\ Makes(n, t, j) => z = t /\ i = j
        /\ ~(Held(n) /\ Made(n))
      BY <1>2 DEF OwnedOnce
  <2>2. \A a, b, i, j : Holds(n, a, i)' /\ Holds(n, b, j)' => a = b /\ i = j
    <3>1. \A a, i, t, j : Holds(n, a, i) => ~Makes(n, t, j)
        BY <2>1 DEF Held, Made
    <3>. QED  BY <1>6, <2>1, <3>1
  <2>3. \A z, t, i, j : Makes(n, z, i)' /\ Makes(n, t, j)' => z = t /\ i = j
      BY <1>7, <2>1
  <2>4. ASSUME NEW a, NEW i, NEW t, NEW j, Holds(n, a, i)', Makes(n, t, j)'
        PROVE  FALSE
    <3>1. Makes(n, t, j) /\ t # s
        BY <1>7, <2>4
    <3>2. ~Holds(n, a, i)
        BY <2>1, <3>1 DEF Held, Made
    <3>3. Makes(n, s, i)
        BY <1>6, <2>4, <3>2
    <3>. QED  BY <2>1, <3>1, <3>3
  <2>. QED  BY <2>2, <2>3, <2>4 DEF Held, Made
<1>11. job'[s] = None /\ \A t \in Steps \ {s} : job'[t] = job[t]
    BY <1>1, <1>2 DEF Shaped
<1>12. /\ DOMAIN inputs' = Steps /\ \A t \in Steps \ {s} : inputs'[t] = inputs[t]
       /\ DOMAIN placed' = Steps /\ \A t \in Steps \ {s} : placed'[t] = placed[t]
       /\ placed' = [t \in Steps |-> placed'[t]]
    BY <1>1, <1>2 DEF Shaped
<1>13. Elsewhere(s)
    BY <1>1, <1>11, <1>12 DEF Elsewhere
<1>14. ASSUME placed'[s] \in Seq(Placements)
       PROVE  Shaped'
  <2>1. placed' \in [Steps -> Seq(Placements)]
      BY <1>2, <1>12, <1>14 DEF Shaped
  <2>2. job' \in [Steps -> Jobs \cup {None}]
      BY <1>1, <1>2 DEF Shaped
  <2>. QED  BY <1>1, <1>2, <1>12, <2>1, <2>2 DEF Shaped
<1>15. Quiet(s)' /\ JobShaped(s)' /\ MountCounted(s)'
  <2>1. Building(s)'
      BY <1>1 DEF Building
  <2>. QED  BY <1>11, <2>1 DEF Quiet, JobShaped, MountCounted, Mounting
<1>16. \A n : Under(s, n) => Under(s, n)'
    BY <1>1, <1>11 DEF Under, Mounting
<1>17. \A file \in inputs[s] : Known(s, file)'
    BY <1>1, <1>2, <1>8, KnownStays DEF Composes, InputsKnown
<1>18. CASE job[s].mount
  <2>. DEFINE c == [name |-> name]
  <2>1. placed'[s] = Append(placed[s], c) /\ UNCHANGED inputs
      BY <1>1, <1>2, <1>18 DEF Shaped
  <2>2. c \in Placements /\ "node" \notin DOMAIN c /\ c.name = name
      BY <1>3 DEF Placements
  <2>. HIDE DEF c
  <2>3. \A h, n, k : At(h, c, n, k) <=> k \in DOMAIN h[name] /\ h[name][k] = n
      BY <2>2, PlacementsAre
  <2>4. \A n, k : At(trees', c, n, k) <=> k \in DOMAIN there /\ there[k] = n
      BY <1>1, <2>3
  <2>5. \A d \in Placements : Placed(s, d) => Placed(s, d)'
      BY <1>1, <1>8, <1>16, <2>1, PlacedStays
  <2>6. Placed(s, c)'
    <3>1. ASSUME NEW i \in DOMAIN Files[name[1]], NEW m, m = Numbered(name)[i]
          PROVE  Under(s, m)'
      <4>. DEFINE e == Files[name[1]][i]
      <4>1. /\ m = <<e, Base(name, e) + Before(name[1], i)>>
            /\ e \in Entries /\ Base(name, e) \in Nat /\ Before(name[1], i) \in Nat
            /\ Before(name[1], i) < Count(Files[name[1]], e)
          BY <1>3, <3>1, NumberedIs
      <4>2. e \in Range(Files[name[1]]) /\ m \in Links
          BY <1>3, <3>1, NumberedLinks DEF Range
      <4>3. Base(name, e) + Count(Files[name[1]], e) <= next[s][e]
          BY <1>1, <1>2, <1>18, <4>2 DEF Composes, MountCounted, Mounting
      <4>4. next[s][e] \in Nat /\ Count(Files[name[1]], e) \in Nat
          BY <1>2, <1>3, <4>1, NamesAre, CountIsNat DEF Shaped
      <4>. HIDE DEF e
      <4>. QED  BY <1>1, <1>11, <4>1, <4>2, <4>3, <4>4 DEF Under, Mounting
    <3>2. ASSUME NEW n, n = name
          PROVE  Mounted(s, n)'
        BY <1>1, <3>1, <3>2 DEF Mounted
    <3>. QED  BY <2>2, <3>2 DEF Placed
  <2>7. ASSUME NEW m, Under(s, m)
        PROVE  Below(m, name)
      BY <1>1, <1>18, <2>7 DEF Under, Mounting
  <2>8. ASSUME NEW d \in Placements, Placed(s, d), NEW n, NEW k, NEW l, At(trees, d, n, k)
        PROVE  ~At(trees', c, n, l)
    <3>1. PlacedOnce(s, n)
        BY <1>1, <2>8, PlacedAt
    <3>2. l \in DOMAIN there => there[l] # n
        BY <1>5, <1>6, <2>7, <3>1, MountApart
    <3>. QED  BY <2>4, <3>2
  <2>9. ASSUME NEW n, NEW k, NEW l, At(trees', c, n, k), At(trees', c, n, l)
        PROVE  k = l
    <3>1. \A m \in Owns : \A i, j \in DOMAIN there : there[i] = m /\ there[j] = m => i = j
      <4>1. \A m \in Owns : \A a, b, i, j : Holds(m, a, i)' /\ Holds(m, b, j)' => a = b /\ i = j
          BY <1>10 DEF OwnedOnce
      <4>. QED  BY <1>6, <4>1
    <3>2. k \in DOMAIN there /\ l \in DOMAIN there /\ there[k] = there[l]
        BY <2>4, <2>9
    <3>. QED  BY <1>5, <3>1, <3>2, InstanceApart
  <2>10. PlacedUnder(s)' /\ ApartIn(s)' /\ placed'[s] \in Seq(Placements)
      BY <1>2, <1>8, <2>1, <2>2, <2>5, <2>6, <2>8, <2>9, Appended
  <2>11. InputsKnown(s)'
      BY <1>17, <2>1 DEF InputsKnown
  <2>. QED  BY <1>8, <1>9, <1>10, <1>13, <1>14, <1>15, <2>10, <2>11, StepStays DEF Composes
<1>19. CASE ~job[s].mount
  <2>1. inputs'[s] = inputs[s] \cup FilesOf(there, name) /\ UNCHANGED placed
      BY <1>1, <1>2, <1>19 DEF Shaped
  <2>2. ASSUME NEW file \in FilesOf(there, name)
        PROVE  Known(s, file)' /\ (file.node \in Links \/ Held(file.node)')
    <3>1. PICK i \in DOMAIN there : file = [node |-> there[i], name |-> name, at |-> i]
        BY <2>2 DEF FilesOf, File
    <3>2. file.name = name /\ name # None /\ Holds(file.node, file.name, file.at)'
        BY <1>3, <1>6, <3>1, NamesAssumption
    <3>3. file.node \in Links \/ OfStep(file.node)
      <4>1. i \in DOMAIN Files[name[1]] /\ there[i] # Missing
          BY <1>5, <3>1 DEF Instance, Range
      <4>. QED  BY <1>3, <1>5, <3>1, <4>1, NumberedLinks DEF Instance
    <3>4. OfStep(file.node) => OfStep(file.node)'
        BY <1>8 DEF Grows
    <3>. QED  BY <1>1, <1>3, <3>2, <3>3, <3>4 DEF Known, Held
  <2>3. InputsKnown(s)'
      BY <1>17, <2>1, <2>2 DEF InputsKnown
  <2>4. PlacedUnder(s)' /\ ApartIn(s)'
      BY <1>1, <1>2, <1>8, <1>16, <2>1, <2>2, PlacementsStay
  <2>. QED  BY <1>2, <1>8, <1>9, <1>10, <1>13, <1>14, <1>15, <2>1, <2>3, <2>4, StepStays DEF Composes
<1>. QED  BY <1>18, <1>19

\* Which of the store's files one that a step sees is, or stands for.
LEMMA OriginIs ==
    ASSUME CInv, NEW s \in Steps, NEW file \in inputs[s], NEW origin, origin = Origin(s, file)
    PROVE  \/ /\ file.node \in Links /\ origin = <<file.node[1], file.node[2]>> /\ origin # Missing
           \/ /\ OfStep(file.node) /\ origin \in Links /\ origin # Missing
              /\ \E name, i : Holds(file.node, name, i) /\ origin = Numbered(name)[i]
           \/ OfStep(file.node) /\ ~Held(file.node) /\ ~Made(file.node) /\ origin = Missing
<1>1. /\ Known(s, file) /\ TreesShaped
      /\ home[s] \in Procs /\ noted[home[s]] \subseteq Links
    BY DEF CInv, Composes, InputsKnown, WInv, Exclusive, Shaped
<1>2. OfStep(file.node) => file.node \notin Links /\ file.node \notin noted[home[s]]
    BY <1>1, LinksAre DEF OfStep
<1>3. CASE file.node \in noted[home[s]]
  <2>1. origin = <<file.node[1], file.node[2]>> /\ file.node \in Links
      BY <1>1, <1>3 DEF Origin
  <2>2. file.node[1] \in Entries
      BY <2>1, LinksAre
  <2>3. origin[1] # None /\ Missing[1] = None
      BY <2>1, <2>2, NamesAssumption DEF Missing
  <2>. QED  BY <2>1, <2>3
<1>4. CASE file.node \notin noted[home[s]] /\ file.name # None
  <2>1. /\ origin = Numbered(file.name)[file.at] /\ Holds(file.node, file.name, file.at)
        /\ file.node \in Links \/ OfStep(file.node)
      BY <1>1, <1>4 DEF Origin, Known
  <2>2. /\ file.name \in Names /\ file.at \in DOMAIN Files[file.name[1]]
        /\ origin \in Links /\ origin # Missing
        /\ file.node = origin \/ file.node = Missing \/ OfStep(file.node)
      BY <1>1, <2>1, HeldAre, LinksAre
  <2>3. CASE OfStep(file.node)
      BY <2>1, <2>2, <2>3
  <2>4. CASE ~OfStep(file.node)
    <3>1. file.node \in Links /\ file.node = origin
        BY <2>1, <2>2, <2>4, LinksAre
    <3>2. origin = <<origin[1], origin[2]>>
        BY <2>1, <2>2, NumberedIs
    <3>. QED  BY <2>2, <3>1, <3>2
  <2>. QED  BY <2>3, <2>4
<1>5. CASE file.node \notin noted[home[s]] /\ file.name = None
  <2>1. OfStep(file.node) /\ ~Held(file.node) /\ ~Made(file.node)
      BY <1>1, <1>5 DEF Known
  <2>. QED  BY <1>5, <2>1 DEF Origin
<1>. QED  BY <1>3, <1>4, <1>5

\* What a file is placed as is in no placement before it, and counted from then on.
LEMMA PlacingIs ==
    ASSUME CInv, NEW s \in Steps, Idle(s), NEW file \in inputs[s],
           NEW as, as = Placing(s, file), NEW node \in {as.node, Fresh(s)}
    PROVE  /\ as.next \in [Entries -> Nat] /\ \A e \in Entries : next[s][e] <= as.next[e]
           /\ ~PlacedOnce(s, node)
           /\ node \in Links \/ (node \in Owns /\ ~Made(node))
           /\ node \in Links => node[2] < as.next[node[1]]
           /\ node \in Owns => OfStep(node) \/ node = Fresh(s)
           /\ node \in Owns => Held(node) \/ node = file.node \/ node = Fresh(s)
           /\ node \in Owns => \A name, i : Holds(node, name, i) =>
                                  Numbered(name)[i][2] < as.next[Numbered(name)[i][1]]
<1>. SUFFICES ASSUME NEW origin, origin = Origin(s, file), NEW e, e = origin[1],
                     NEW n, n = next[s][e]
              PROVE  /\ as.next \in [Entries -> Nat] /\ \A f \in Entries : next[s][f] <= as.next[f]
                     /\ ~PlacedOnce(s, node)
                     /\ node \in Links \/ (node \in Owns /\ ~Made(node))
                     /\ node \in Links => node[2] < as.next[node[1]]
                     /\ node \in Owns => OfStep(node) \/ node = Fresh(s)
                     /\ node \in Owns => Held(node) \/ node = file.node \/ node = Fresh(s)
                     /\ node \in Owns => \A name, i : Holds(node, name, i) =>
                                            Numbered(name)[i][2] < as.next[Numbered(name)[i][1]]
    OBVIOUS
<1>1. next[s] \in [Entries -> Nat] /\ OwnedOnce /\ TreesShaped
    BY DEF CInv, Shaped
<1>2. /\ Fresh(s) \in Owns /\ Fresh(s) \notin Links /\ ~OfStep(Fresh(s))
      /\ ~Held(Fresh(s)) /\ ~Made(Fresh(s))
    BY FreshIsNew
<1>3. as = IF origin = Missing
           THEN [node |-> IF file.node \in placing[s] THEN Fresh(s) ELSE file.node, next |-> next[s]]
           ELSE IF file.node \notin placing[s] /\ origin[2] >= n
           THEN [node |-> file.node, next |-> [next[s] EXCEPT ![e] = origin[2] + 1]]
           ELSE [node |-> Copy(e, n), next |-> [next[s] EXCEPT ![e] = n + 1]]
    BY DEF Placing
<1>4. /\ ~PlacedOnce(s, Fresh(s))
      /\ \A name, i : ~Holds(Fresh(s), name, i)
    BY <1>2 DEF PlacedOnce, Under, Held
<1>5. CASE origin = Missing
  <2>1. OfStep(file.node) /\ ~Held(file.node) /\ ~Made(file.node)
      BY <1>5, OriginIs
  <2>2. file.node \in Owns /\ file.node \notin Links /\ \A name, i : ~Holds(file.node, name, i)
      BY <2>1, LinksAre DEF OfStep, Held
  <2>3. as.next = next[s] /\ (as.node = Fresh(s) \/ (as.node = file.node /\ file.node \notin placing[s]))
      BY <1>3, <1>5
  <2>4. file.node \notin placing[s] => ~PlacedOnce(s, file.node)
      BY <2>1, <2>2 DEF PlacedOnce, Under
  <2>. QED  BY <1>1, <1>2, <1>4, <2>1, <2>2, <2>3, <2>4
<1>6. CASE origin # Missing
  <2>1. e \in Entries /\ origin[2] \in Nat /\ n \in Nat
    <3>1. ASSUME file.node \in Links
          PROVE  e \in Entries /\ origin[2] \in Nat
        BY <1>6, <3>1, OriginIs, LinksAre DEF OfStep
    <3>2. ASSUME file.node \notin Links
          PROVE  e \in Entries /\ origin[2] \in Nat
        BY <1>6, <3>2, OriginIs, LinksAre
    <3>. QED  BY <1>1, <3>1, <3>2
  <2>2. CASE file.node \notin placing[s] /\ origin[2] >= n
    <3>1. as.node = file.node /\ as.next = [next[s] EXCEPT ![e] = origin[2] + 1]
        BY <1>3, <1>6, <2>2
    <3>2. /\ as.next \in [Entries -> Nat] /\ as.next[e] = origin[2] + 1
          /\ \A f \in Entries : next[s][f] <= as.next[f]
        BY <1>1, <2>1, <2>2, <3>1
    <3>3. CASE file.node \in Links
      <4>1. origin = <<file.node[1], file.node[2]>> /\ file.node \notin Owns
          BY <1>6, <3>3, OriginIs, LinksAre DEF OfStep
      <4>2. ~Under(s, file.node) /\ file.node[2] < as.next[file.node[1]]
          BY <2>1, <2>2, <3>2, <4>1 DEF Under
      <4>3. ~PlacedOnce(s, file.node)
          BY <4>1, <4>2 DEF PlacedOnce, OfStep
      <4>. QED  BY <1>2, <1>4, <3>1, <3>2, <3>3, <4>1, <4>2, <4>3
    <3>4. CASE file.node \notin Links
      <4>1. PICK name, i : Holds(file.node, name, i) /\ origin = Numbered(name)[i]
          BY <1>6, <3>4, OriginIs
      <4>2. OfStep(file.node) /\ file.node \in Owns /\ Held(file.node) /\ ~Made(file.node)
          BY <1>1, <1>6, <3>4, <4>1, OriginIs DEF OfStep, Held, OwnedOnce
      <4>3. \A b, j : Holds(file.node, b, j) => Numbered(b)[j] = origin
          BY <1>1, <4>1, <4>2 DEF OwnedOnce
      <4>4. ~Under(s, origin)
          BY <2>1, <2>2 DEF Under
      <4>5. ~PlacedOnce(s, file.node)
          BY <3>4, <4>1, <4>4 DEF PlacedOnce, Under
      <4>6. \A b, j : Holds(file.node, b, j) => Numbered(b)[j][2] < as.next[Numbered(b)[j][1]]
          BY <2>1, <3>2, <4>3
      <4>. QED  BY <1>2, <1>4, <3>1, <3>2, <3>4, <4>2, <4>5, <4>6
    <3>. QED  BY <3>3, <3>4
  <2>3. CASE ~(file.node \notin placing[s] /\ origin[2] >= n)
    <3>1. as.node = Copy(e, n) /\ as.next = [next[s] EXCEPT ![e] = n + 1]
        BY <1>3, <1>6, <2>3
    <3>2. /\ as.next \in [Entries -> Nat] /\ as.next[e] = n + 1
          /\ \A f \in Entries : next[s][f] <= as.next[f]
        BY <1>1, <2>1, <3>1
    <3>3. Copy(e, n) \in Links /\ Copy(e, n)[1] = e /\ Copy(e, n)[2] = n /\ Copy(e, n) \notin Owns
        BY <2>1, LinksAre
    <3>4. ~PlacedOnce(s, Copy(e, n))
        BY <2>1, <3>3 DEF PlacedOnce, Under, OfStep
    <3>. QED  BY <1>2, <1>4, <2>1, <3>1, <3>2, <3>3, <3>4
  <2>. QED  BY <2>2, <2>3
<1>. QED  BY <1>5, <1>6

LEMMA PlaceFileStays ==
    ASSUME CInv, WInv', NEW s \in Steps, NEW file \in inputs[s], PlaceFile(s, file)
    PROVE  CInv'
<1>. SUFFICES ASSUME NEW as, as = Placing(s, file), NEW fresh, fresh = Fresh(s)
              PROVE  CInv'
    OBVIOUS
<1>1. PICK node \in {as.node, fresh} :
          /\ Owning(s, node = fresh)
          /\ next' = [next EXCEPT ![s] = as.next]
          /\ placing' = [placing EXCEPT ![s] = @ \cup {file.node}]
          /\ placed' = [placed EXCEPT ![s] = Append(@, [node |-> node])]
          /\ IF node \in {file.node, fresh} THEN UNCHANGED <<copies, noted>> ELSE Note(s, {node})
    BY DEF PlaceFile
<1>2. Idle(s) /\ Building(s) /\ job[s] = None
      /\ UNCHANGED <<trees, phase, instances, home, job, inputs>>
    BY DEF PlaceFile, Idle
<1>3. /\ home[s] \in Procs /\ Shaped /\ Composes(s) /\ OwnedOnce /\ TreesShaped /\ own[s] \in Nat
      /\ placed[s] \in Seq(Placements) /\ PlacedUnder(s) /\ ApartIn(s)
    BY DEF CInv, WInv, Exclusive, Composes, Shaped
<1>4. /\ as.next \in [Entries -> Nat] /\ \A e \in Entries : next[s][e] <= as.next[e]
      /\ ~PlacedOnce(s, node)
      /\ node \in Links \/ (node \in Owns /\ ~Made(node))
      /\ node \in Links => node[2] < as.next[node[1]]
      /\ node \in Owns => OfStep(node) \/ node = fresh
      /\ node \in Owns => Held(node) \/ node = file.node \/ node = fresh
      /\ node \in Owns => \A name, i : Holds(node, name, i) =>
                             Numbered(name)[i][2] < as.next[Numbered(name)[i][1]]
    BY <1>2, PlacingIs
<1>5. fresh \in Owns /\ fresh \notin Links /\ ~OfStep(fresh)
    BY FreshIsNew
<1>6. own' \in [Steps -> Nat] /\ (\A n : OfStep(n) => OfStep(n)') /\ (node \in Owns => OfStep(node)')
  <2>1. own \in [Steps -> Nat]
      BY <1>3 DEF Shaped
  <2>2. own' \in [Steps -> Nat] /\ \A z \in Steps : own'[z] >= own[z]
      BY <1>1, <2>1 DEF Owning
  <2>3. \A n : OfStep(n) => OfStep(n)'
      BY <2>1, <2>2 DEF OfStep, Owns
  <2>4. node = fresh => OfStep(node)'
      BY <1>1, <1>5, <2>1 DEF Owning, OfStep, Fresh
  <2>. QED  BY <1>4, <2>2, <2>3, <2>4
<1>7. Grows
    BY <1>2, <1>6 DEF Grows, Holds, Made, Makes
<1>8. /\ noted' \in [Procs -> SUBSET Links]
      /\ \A p \in Procs : noted[p] \subseteq noted'[p]
  <2>1. CASE node \in {file.node, fresh}
      BY <1>1, <1>3, <2>1 DEF Shaped
  <2>2. CASE node \notin {file.node, fresh}
      BY <1>1, <1>3, <1>4, <2>2, NotedAre
  <2>. QED  BY <2>1, <2>2
<1>9. TreesShaped' /\ OwnedOnce'
    BY <1>2, <1>3, <1>7, ShapedTreesStay, OwnedShrinks DEF Holds, Makes
<1>10. next'[s] = as.next /\ next' \in [Steps -> [Entries -> Nat]]
    BY <1>1, <1>3, <1>4 DEF Shaped
<1>11. Elsewhere(s)
    BY <1>1, <1>2, <1>3, <1>8 DEF Elsewhere, Shaped
<1>12. \A n : Under(s, n) => Under(s, n)'
  <2>1. ASSUME NEW n, Under(s, n)
        PROVE  n \in Links /\ n[2] < next'[s][n[1]]
    <3>1. n \in Links /\ n[1] \in Entries /\ n[2] \in Nat /\ n[2] < next[s][n[1]]
        BY <2>1, LinksAre DEF Under
    <3>2. next[s][n[1]] \in Nat /\ as.next[n[1]] \in Nat /\ next[s][n[1]] <= as.next[n[1]]
        BY <1>3, <1>4, <3>1 DEF Shaped
    <3>. QED  BY <1>10, <3>1, <3>2
  <2>. QED  BY <1>2, <2>1 DEF Under, Mounting
<1>13. Quiet(s)' /\ JobShaped(s)' /\ MountCounted(s)'
  <2>1. Building(s)' /\ job'[s] = None
      BY <1>2 DEF Building
  <2>. QED  BY <2>1 DEF Quiet, JobShaped, MountCounted, Mounting
<1>14. InputsKnown(s)'
  <2>1. \A f \in inputs[s] : Known(s, f)'
      BY <1>2, <1>3, <1>7, <1>11, KnownStays DEF Composes, InputsKnown, Elsewhere
  <2>. QED  BY <1>2, <2>1 DEF InputsKnown
<1>15. PlacedOnce(s, node)'
  <2>1. CASE node \in Links
      BY <1>2, <1>4, <1>10, <2>1 DEF PlacedOnce, Under, Mounting
  <2>2. CASE node \in Owns
    <3>1. OfStep(node)' /\ ~Made(node)'
        BY <1>4, <1>6, <2>2, LinksAre, <1>2 DEF Made, Makes
    <3>2. ASSUME NEW name, NEW i, Holds(node, name, i)'
          PROVE  Under(s, Numbered(name)[i])'
      <4>1. Holds(node, name, i)
          BY <1>2, <3>2 DEF Holds
      <4>2. Numbered(name)[i] \in Links /\ Numbered(name)[i][2] < as.next[Numbered(name)[i][1]]
          BY <1>3, <1>4, <2>2, <4>1, HeldAre
      <4>. QED  BY <1>2, <1>10, <4>2 DEF Under, Mounting
    <3>3. Held(node)' \/ node \in placing'[s] \/ \A f \in inputs'[s] : f.node # node
      <4>1. CASE Held(node)
          BY <1>7, <4>1, HoldsGrows
      <4>2. CASE node = file.node
          BY <1>1, <1>3, <4>2 DEF Shaped
      <4>3. CASE node = fresh
        <5>1. \A f \in inputs[s] : f.node \in Links \/ OfStep(f.node)
            BY <1>3 DEF Composes, InputsKnown, Known
        <5>. QED  BY <1>2, <1>5, <4>3, <5>1
      <4>. QED  BY <1>4, <2>2, <4>1, <4>2, <4>3
    <3>. QED  BY <3>1, <3>2, <3>3 DEF PlacedOnce
  <2>. QED  BY <1>4, <2>1, <2>2
<1>. DEFINE c == [node |-> node]
<1>16. placed'[s] = Append(placed[s], c) /\ inputs'[s] = inputs[s] /\ placing[s] \subseteq placing'[s]
    BY <1>1, <1>2, <1>3 DEF Shaped
<1>17. c \in Placements /\ "node" \in DOMAIN c /\ c.node = node
    BY <1>4 DEF Placements
<1>. HIDE DEF c
<1>18. \A h, n, k : At(h, c, n, k) <=> n = node /\ k = 1
    BY <1>17, PlacementsAre
<1>19. \A d \in Placements : Placed(s, d) => Placed(s, d)'
    BY <1>7, <1>12, <1>16, PlacedStays
<1>20. Placed(s, c)'
    BY <1>15, <1>17 DEF Placed
<1>21. ASSUME NEW d \in Placements, Placed(s, d), NEW n, NEW k, NEW l, At(trees, d, n, k)
       PROVE  ~At(trees', c, n, l)
    BY <1>2, <1>4, <1>18, <1>21, PlacedAt
<1>22. PlacedUnder(s)' /\ ApartIn(s)' /\ placed'[s] \in Seq(Placements)
    BY <1>3, <1>7, <1>16, <1>17, <1>18, <1>19, <1>20, <1>21, Appended
<1>23. Shaped'
  <2>1. placed' \in [Steps -> Seq(Placements)]
      BY <1>1, <1>3, <1>22 DEF Shaped
  <2>. QED  BY <1>1, <1>2, <1>3, <1>6, <1>8, <1>10, <2>1 DEF Shaped
<1>. QED  BY <1>7, <1>9, <1>11, <1>13, <1>14, <1>22, <1>23, StepStays DEF Composes

LEMMA CompositionsStay ==
    ASSUME ~Again, "forgetting" \notin MayDie, CInv, [Next]_vars
    PROVE  CInv'
<1>1. WInv'
    BY WholeStays DEF CInv
<1>2. ASSUME NEW s \in Steps, Step(s)
      PROVE  CInv'
    BY <1>1, <1>2, StageLargeStays, StageTreeStays, PlaceTreeStays, PlaceFileStays, MakeStays,
       RenameStays, ComposedStays DEF Step
<1>3. ASSUME NEW p \in Procs, Process(p)
      PROVE  CInv'
  <2>0. home \in [Steps -> Procs]
      BY DEF CInv, WInv, Exclusive
  <2>1. ASSUME NEW e \in Entries, Put(p, e)
        PROVE  CInv'
      BY <1>1, <2>1, OutsideStays DEF Put, process, Building, step
  <2>2. CASE Open(p)
      BY <1>1, <2>0, <2>2, OutsideStays DEF Open, disk, Building, step, CInv, WInv, Exclusive
  <2>3. CASE Die(p)
      BY <1>1, <2>3, GoneStays DEF Die, disk, CInv, WInv, Exclusive
  <2>4. CASE Evict(p)
      BY <1>1, <2>4, GoneStays DEF Evict, disk, CInv, WInv, Exclusive
  <2>5. CASE Forget(p)
      BY <1>1, <2>5, ForgetStays
  <2>6. CASE Forgotten(p)
      BY <1>1, <2>0, <2>6, OutsideStays DEF Forgotten, disk, Building, step, CInv, WInv, Exclusive
  <2>7. CASE RemoveBlob(p)
      BY <1>1, <2>7, OutsideStays DEF RemoveBlob, process, Building, step
  <2>8. CASE Evicted(p)
      BY <1>1, <2>0, <2>8, OutsideStays DEF Evicted, disk, Building, step, CInv, WInv, Exclusive
  <2>. QED  BY <1>3, <2>1, <2>2, <2>3, <2>4, <2>5, <2>6, <2>7, <2>8 DEF Process
<1>4. CASE UNCHANGED vars
    BY <1>1, <1>4, OutsideStays DEF vars, disk, process, Building, step
<1>. QED  BY <1>2, <1>3, <1>4 DEF Next

\* No two files of a composition are one file on the host, whatever the store
\* shares between them and whoever made the instances they are in, if a finished
\* composition's files are not composed again and no process was killed just as
\* it forgot the instances (layers.rs, place_file and place_tree).
THEOREM CompositionsDistinct ==
    ASSUME ~Again, "forgetting" \notin MayDie
    PROVE  Spec => []Distinct
<1>1. CInv => Distinct
    BY ComposesApart DEF CInv
<1>. QED  BY <1>1, ComposesInitially, CompositionsStay, PTL DEF Spec
=============================================================================
