---------------------------- MODULE StoreProofs ----------------------------
(***************************************************************************)
(* Proofs about the content store, for any processes, threads, keys and    *)
(* trees.  The argument: a blob is taken only under the exclusive lock,    *)
(* which no process has while another has kept the one it opened with, and *)
(* only once no mark is left but those of jobs left behind, which the      *)
(* history variable `strayed` tells of until they are forgotten; so that   *)
(* nothing that says a tree is whole, a mark, what a build knows or what it *)
(* uses, is there to become false; everything else only adds blobs.        *)
(***************************************************************************)
EXTENDS Store, TLAPS

-----------------------------------------------------------------------------
(* The walk of a tree. *)

\* A walk comes to the tree it begins at, to those named by each it goes into,
\* and to nothing else: it is within any set that holds as much.
LEMMA WalkBegins ==
    ASSUME NEW t \in Tree, NEW stop
    PROVE  t \in Visited(t, stop)
BY DEF Visited

LEMMA WalkGoesOn ==
    ASSUME NEW t \in Tree, NEW stop, NEW s \in Visited(t, stop), s \notin stop,
           NEW r \in Tree, r \in Entries[s]
    PROVE  r \in Visited(t, stop)
<1> SUFFICES ASSUME NEW seen \in SUBSET Tree, t \in seen,
                    \A q \in seen \ stop : Entries[q] \cap Tree \subseteq seen
             PROVE  r \in seen
    BY DEF Visited
<1>1. s \in seen
    BY DEF Visited
<1> QED BY <1>1

LEMMA WalkWithin ==
    ASSUME NEW t \in Tree, NEW stop, NEW seen \in SUBSET Tree, t \in seen,
           \A q \in seen \ stop : Entries[q] \cap Tree \subseteq seen
    PROVE  Visited(t, stop) \subseteq seen
BY DEF Visited

\* Every tree a whole tree holds is whole.
LEMMA WholeWithin ==
    ASSUME NEW t \in Tree, Whole(t), NEW s \in Visited(t, {})
    PROVE  Whole(s)
<1>1. s \in Tree
    BY DEF Visited
<1>2. \A q \in Visited(t, {}) \ {} : Entries[q] \cap Tree \subseteq Visited(t, {})
    BY WalkGoesOn
<1>3. Visited(s, {}) \subseteq Visited(t, {})
  <2>1. Visited(t, {}) \in SUBSET Tree
    BY DEF Visited
  <2> QED BY <1>1, <1>2, <2>1, WalkWithin
<1> QED BY <1>3 DEF Whole, CompleteBy

\* A walk that goes into no tree known to be whole, and finds all else, finds
\* only whole trees: what Store::complete_by and its marks rest on.
LEMMA WalkFindsWhole ==
    ASSUME NEW t \in Tree, NEW sure \in SUBSET Tree,
           \A s \in sure : Whole(s), CompleteBy(t, sure),
           NEW s \in Visited(t, sure)
    PROVE  Whole(s)
<1> DEFINE seen == Visited(t, sure) \cup {r \in Tree : Whole(r)}
<1>1. seen \in SUBSET Tree /\ s \in Tree /\ s \in seen
    BY DEF Visited
<1>2. ASSUME NEW r \in seen, NEW q \in Tree, q \in Entries[r]
      PROVE  q \in seen
  <2>1. CASE Whole(r) /\ r \in Tree
    <3>1. r \in Visited(r, {}) /\ q \in Visited(r, {})
        BY <2>1, <1>2, WalkBegins, WalkGoesOn
    <3> QED BY <2>1, <3>1, WholeWithin
  <2>2. CASE ~Whole(r) /\ r \in Visited(t, sure)
    <3>1. r \notin sure
        BY <2>2
    <3> QED BY <3>1, <2>2, <1>2, WalkGoesOn
  <2> QED BY <2>1, <2>2, <1>1
<1>3. Visited(s, {}) \subseteq seen
  <2> HIDE DEF seen
  <2> QED BY <1>1, <1>2, WalkWithin
<1>4. ASSUME NEW r \in seen
      PROVE  r \in blobs /\ Entries[r] \cap File \subseteq blobs
  <2>1. CASE Whole(r) /\ r \in Tree
    BY <2>1, WalkBegins DEF Whole, CompleteBy
  <2>2. CASE ~Whole(r) /\ r \in Visited(t, sure)
    BY <2>2 DEF CompleteBy
  <2> QED BY <2>1, <2>2, <1>4, <1>1
<1> QED BY <1>3, <1>4 DEF Whole, CompleteBy

\* A walk does not go into a tree known to be whole.
LEMMA SureIsComplete ==
    ASSUME NEW sure, NEW t \in sure, t \in Tree
    PROVE  CompleteBy(t, sure)
<1>1. Visited(t, sure) \subseteq {t}
    BY WalkWithin
<1> QED BY <1>1 DEF CompleteBy

\* A tree whose contents are all in place is whole.
LEMMA ContentsMakeWhole ==
    ASSUME NEW t \in Tree, Contents(t) \subseteq blobs
    PROVE  Whole(t)
BY DEF Contents, Whole, CompleteBy

\* A step that takes no blob leaves a whole tree whole.
LEMMA WholeStays ==
    ASSUME blobs \subseteq blobs'
    PROVE  WholeTrees \subseteq WholeTrees'
BY DEF WholeTrees, Whole, CompleteBy, Visited

-----------------------------------------------------------------------------
(* Types. *)

\* The jobs there are, and what each is about.
LEMMA JobsMade ==
    /\ Idle \in Jobs
    /\ \A k \in Key : Job("missed", k, None) \in Jobs
    /\ \A k \in Key, t \in Tree, at \in {"checking", "marking"} :
           Job(at, k, t) \in Jobs
    /\ \A k \in Key, t \in Tree, left \in SUBSET Blob : Putting(k, t, left) \in Jobs
BY DEF Idle, Job, Putting, Jobs

LEMMA JobsAbout ==
    ASSUME NEW j \in Jobs
    PROVE  /\ j.at # "idle" => j.key \in Key
           /\ j.at \in {"checking", "marking", "settling"} => j.tree \in Tree
           /\ j.at # "settling" => j.left = {}
           /\ j.left \in SUBSET Blob
BY DEF Idle, Job, Jobs

LEMMA JobAt ==
    /\ Idle.at = "idle" /\ Idle.left = {}
    /\ \A at, k, t : /\ Job(at, k, t).at = at /\ Job(at, k, t).tree = t
                     /\ Job(at, k, t).left = {}
    /\ \A k, t, left : /\ Putting(k, t, left).at = "settling"
                       /\ Putting(k, t, left).tree = t
                       /\ Putting(k, t, left).left = left
BY DEF Idle, Job, Putting

\* A job that settled one of its blobs has the others left.
LEMMA JobSettled ==
    ASSUME NEW j \in Jobs, j.at = "settling", NEW left \in SUBSET Blob
    PROVE  /\ [j EXCEPT !.left = left] \in Jobs
           /\ [j EXCEPT !.left = left].at = "settling"
           /\ [j EXCEPT !.left = left].tree = j.tree
           /\ [j EXCEPT !.left = left].left = left
BY DEF Idle, Job, Jobs

LEMMA VisitedAreTrees ==
    ASSUME NEW t, NEW stop
    PROVE  Visited(t, stop) \subseteq Tree
BY DEF Visited

LEMMA ContentsAreBlobs ==
    ASSUME NEW t
    PROVE  Contents(t) \subseteq Blob
BY VisitedAreTrees DEF Contents, Blob

LEMMA GivesTrees ==
    ASSUME TypeOK, NEW p \in Proc, NEW t \in Tree, Gives(p, t)
    PROVE  hits' \in [Proc -> SUBSET Tree]
BY DEF Gives, TypeOK

LEMMA JobPut ==
    ASSUME TypeOK, NEW p \in Proc, NEW w \in Worker
    PROVE  /\ job[p][w] \in Jobs
           /\ \A i \in Jobs : job' = [job EXCEPT ![p][w] = i] =>
                                  job' \in [Proc -> [Worker -> Jobs]]
<1>1. job \in [Proc -> [Worker -> Jobs]]
    BY DEF TypeOK
<1>2. ASSUME NEW i \in Jobs, job' = [job EXCEPT ![p][w] = i]
      PROVE  job' \in [Proc -> [Worker -> Jobs]]
    BY <1>1, <1>2
<1> QED BY <1>1, <1>2

LEMMA TypeHolds == TypeOK /\ [Next]_vars => TypeOK'
<1> SUFFICES ASSUME TypeOK, [Next]_vars
             PROVE  TypeOK'
    OBVIOUS
<1> USE JobsMade DEF TypeOK, disk, locks, memory
<1>1. ASSUME NEW p \in Proc, Start(p) PROVE TypeOK'
    BY <1>1 DEF Start, Phases
<1>2. ASSUME NEW p \in Proc, Open(p) PROVE TypeOK'
    BY <1>2 DEF Open, Phases
<1>3. ASSUME NEW p \in Proc, NEW w \in Worker, Work(p, w) PROVE TypeOK'
  <2> DEFINE j == job[p][w]
  <2>0. j \in Jobs
      BY JobPut
  <2>1. ASSUME NEW k \in Key, Look(p, w, k) PROVE TypeOK'
    <3>1. \E i \in Jobs : job' = [job EXCEPT ![p][w] = i]
        BY <2>1 DEF Look
    <3> QED BY JobPut, <2>1, <3>1 DEF Look
  <2>2. CASE Check(p, w)
    <3> DEFINE sure == known[p] \cup marks
    <3>1. j.key \in Key /\ j.tree \in Tree
        BY <2>0, <2>2, JobsAbout DEF Check
    <3>2. known' \in [Proc -> SUBSET Tree]
        BY <2>2, <3>1, VisitedAreTrees DEF Check
    <3>3. \E i \in Jobs : job' = [job EXCEPT ![p][w] = i]
        BY <2>2, <3>1 DEF Check
    <3>4. hits' \in [Proc -> SUBSET Tree]
        BY <2>2, <3>1, GivesTrees DEF Check
    <3>5. UNCHANGED <<disk, locks, phase, strayed>>
        BY <2>2 DEF Check
    <3> QED BY JobPut, <3>2, <3>3, <3>4, <3>5
  <2>3. CASE Mark(p, w)
    <3>1. j.tree \in Tree
        BY <2>0, <2>3, JobsAbout DEF Mark
    <3>2. hits' \in [Proc -> SUBSET Tree]
        BY <2>3, <3>1, GivesTrees DEF Mark
    <3>3. marks' \subseteq Tree /\ strayed' \in BOOLEAN
        BY <2>3, <3>1 DEF Mark
    <3>4. job' = [job EXCEPT ![p][w] = Idle]
          /\ UNCHANGED <<blobs, records, temps, locks, phase, known>>
        BY <2>3 DEF Mark
    <3> QED BY JobPut, <3>2, <3>3, <3>4
  <2>4. ASSUME NEW t \in Tree, Make(p, w, t) PROVE TypeOK'
    <3> DEFINE left == Contents(t) \ blobs
    <3>1. left \in SUBSET Blob /\ j.key \in Key
        BY <2>0, <2>4, ContentsAreBlobs, JobsAbout DEF Make
    <3>2. \E i \in Jobs : job' = [job EXCEPT ![p][w] = i]
        BY <2>4, <3>1 DEF Make
    <3>3. temps' = temps \cup {Temp(p, w, b) : b \in left}
        BY <2>4 DEF Make
    <3>4. temps' \subseteq [by : Proc \cup {None}, worker : Worker, blob : Blob]
      <4> HIDE DEF left
      <4> QED BY <3>1, <3>3 DEF Temp
    <3>5. UNCHANGED <<blobs, marks, records, locks, phase, known, hits, strayed>>
        BY <2>4 DEF Make
    <3> QED BY JobPut, <3>2, <3>4, <3>5
  <2>5. CASE GiveUp(p, w)
      BY JobPut, <2>5 DEF GiveUp
  <2>6. ASSUME NEW b \in Blob, Settle(p, w, b) PROVE TypeOK'
    <3> DEFINE i == [j EXCEPT !.left = j.left \ {b}]
    <3>1. i \in Jobs
        BY <2>0, <2>6, JobSettled, JobsAbout DEF Settle
    <3>2. job' = [job EXCEPT ![p][w] = i]
        BY <2>6 DEF Settle
    <3>3. job' \in [Proc -> [Worker -> Jobs]]
      <4> HIDE DEF i
      <4> QED BY JobPut, <3>1, <3>2
    <3> QED BY <2>6, <3>3 DEF Settle
  <2>7. CASE Record(p, w)
    <3>1. j.tree \in Tree /\ j.key \in Key
        BY <2>0, <2>7, JobsAbout DEF Record
    <3>2. hits' \in [Proc -> SUBSET Tree]
        BY <2>7, <3>1, GivesTrees DEF Record
    <3>3. records' \in [Key -> Tree \cup {None}]
        BY <2>7, <3>1 DEF Record
    <3>4. job' = [job EXCEPT ![p][w] = Idle]
          /\ UNCHANGED <<blobs, marks, temps, locks, phase, known, strayed>>
        BY <2>7 DEF Record
    <3> QED BY JobPut, <3>2, <3>3, <3>4
  <2> QED BY <1>3, <2>1, <2>2, <2>3, <2>4, <2>5, <2>6, <2>7 DEF Work
<1>4. ASSUME NEW p \in Proc, End(p) PROVE TypeOK'
  <2>1. CASE Finish(p)
      BY <2>1 DEF Finish, Phases
  <2>2. CASE TryLock(p)
      BY <2>2 DEF TryLock, With, Without, Phases
  <2>3. CASE Sweep(p)
      BY <2>3 DEF Sweep, Phases
  <2>4. CASE Reshare(p)
      BY <2>4 DEF Reshare, Phases
  <2>5. CASE Forget(p)
      BY <2>5 DEF Forget, Phases
  <2>6. ASSUME NEW t \in Tree, ForgetMark(p, t) PROVE TypeOK'
      BY <2>6 DEF ForgetMark
  <2>7. CASE ForgetDone(p)
      BY <2>7 DEF ForgetDone, Phases
  <2>8. ASSUME NEW b \in Blob, RemoveBlob(p, b) PROVE TypeOK'
      BY <2>8 DEF RemoveBlob
  <2>9. CASE EvictEnds(p)
      BY <2>9 DEF EvictEnds, Phases
  <2>10. CASE Close(p)
      BY <2>10 DEF Close, Gone, Phases, Temp
  <2> QED BY <1>4, <2>1, <2>2, <2>3, <2>4, <2>5, <2>6, <2>7, <2>8, <2>9, <2>10
          DEF End
<1>5. ASSUME NEW p \in Proc, Crash(p) PROVE TypeOK'
    BY <1>5 DEF Crash, Gone, Phases, Temp
<1>6. CASE UNCHANGED vars
    BY <1>6 DEF vars
<1> QED BY <1>1, <1>2, <1>3, <1>4, <1>5, <1>6 DEF Next

LEMMA TypeBegins == Init => TypeOK
<1> SUFFICES ASSUME Init PROVE TypeOK
    OBVIOUS
<1>1. strayed \in BOOLEAN
    BY DEF Init
<1>2. job \in [Proc -> [Worker -> Jobs]]
    BY JobsMade DEF Init
<1>3. phase \in [Proc -> Phases]
    BY DEF Init, Phases
<1> QED BY <1>1, <1>2, <1>3 DEF Init, TypeOK

\* Whatever any process does, the store's directories, its lock and what each
\* process and thread is about keep their shape.
THEOREM Types == Spec => []TypeOK
<1>1. Init => TypeOK
    BY TypeBegins
<1> QED BY <1>1, TypeHolds, PTL DEF Spec

-----------------------------------------------------------------------------
(* The invariant.                                                           *)

\* The lock is had exclusively by one, or shared by some, each where it says.
LockRight ==
    /\ \A p \in Proc : exclusive = p <=> phase[p] \in Excluding
    /\ \A p \in Proc : p \in shared <=> phase[p] \in Holding
    /\ exclusive # None => shared = {}

\* Nothing is known or done before the store is open, and only a build that
\* still goes on uses anything.
BeginsAfresh ==
    \A p \in Proc :
        /\ phase[p] \in {"closed", "opening"} =>
               known[p] = {} /\ \A w \in Worker : job[p][w] = Idle
        /\ phase[p] # "building" => hits[p] = {}

\* No mark is left once blobs are removed, but of jobs left behind.
NoMarksLeft ==
    \A p \in Proc : phase[p] = "removing" => marks = {} \/ strayed

\* What is being put by a process that kept its lock is in place, or in tmp/.
PutsAreThere ==
    \A p \in Proc, w \in Worker : Sheltered(p) =>
        /\ job[p][w].at = "settling" =>
               Contents(job[p][w].tree) \subseteq blobs \cup job[p][w].left
        /\ \A b \in job[p][w].left : Temp(p, w, b) \in temps

\* What is marked, and what processes that kept their lock know and use, is
\* so, unless a job left behind has marked a tree since.
TruthsTold ==
    /\ marks \subseteq WholeTrees
    /\ \A p \in Proc : hits[p] \subseteq WholeTrees
    /\ \A p \in Proc : Sheltered(p) =>
           /\ known[p] \subseteq WholeTrees
           /\ \A w \in Worker :
                  job[p][w].at = "marking" => job[p][w].tree \in WholeTrees

StoreInv ==
    /\ TypeOK /\ LockRight /\ BeginsAfresh /\ NoMarksLeft /\ PutsAreThere
    /\ ~strayed => TruthsTold

\* While the lock is held exclusively, no other has it, and none has kept the
\* one it opened with.
LEMMA ExclusiveAlone ==
    ASSUME LockRight, TypeOK, NEW p \in Proc, phase[p] \in Excluding,
           NEW q \in Proc
    PROVE  /\ phase[q] \notin Holding /\ ~Sheltered(q)
           /\ q # p => phase[q] \notin Excluding
BY BlobsApart DEF LockRight, TypeOK, Excluding, Holding, Sheltered

\* A thread at work takes no blob, and leaves the lock, and what every other
\* knows, does and wrote, as it is.
LEMMA WorkIsOwn ==
    ASSUME TypeOK, NEW p \in Proc, NEW w \in Worker, Work(p, w)
    PROVE  /\ Running(p) /\ blobs \subseteq blobs' /\ UNCHANGED <<locks, phase>>
           /\ \A q \in Proc : q # p => known'[q] = known[q] /\ hits'[q] = hits[q]
           /\ phase[p] # "building" => UNCHANGED hits
           /\ \A q \in Proc, v \in Worker : q # p \/ v # w =>
                  job'[q][v] = job[q][v]
           /\ temps \subseteq temps' \cup Temps(p, w)
           /\ marks' = marks \/ Mark(p, w)
           /\ records' = records \/ Record(p, w)
<1> USE DEF TypeOK, disk, locks, memory, Gives
<1> DEFINE Own ==
        /\ Running(p) /\ blobs \subseteq blobs' /\ UNCHANGED <<locks, phase>>
        /\ \A q \in Proc : q # p => known'[q] = known[q] /\ hits'[q] = hits[q]
        /\ phase[p] # "building" => UNCHANGED hits
        /\ \A q \in Proc, v \in Worker : q # p \/ v # w =>
               job'[q][v] = job[q][v]
        /\ temps \subseteq temps' \cup Temps(p, w)
        /\ marks' = marks \/ Mark(p, w)
        /\ records' = records \/ Record(p, w)
<1> SUFFICES Own
    OBVIOUS
<1>1. ASSUME NEW k \in Key, Look(p, w, k) PROVE Own
    BY <1>1 DEF Look
<1>2. CASE Check(p, w)
  <2>1. Running(p) /\ UNCHANGED <<disk, locks, phase>>
      BY <1>2 DEF Check
  <2>2. /\ \A q \in Proc : q # p => known'[q] = known[q] /\ hits'[q] = hits[q]
        /\ phase[p] # "building" => UNCHANGED hits
      BY <1>2 DEF Check
  <2>3. \A q \in Proc, v \in Worker : q # p \/ v # w =>
            job'[q][v] = job[q][v]
      BY <1>2 DEF Check
  <2> QED BY <2>1, <2>2, <2>3
<1>3. CASE Mark(p, w)
    BY <1>3 DEF Mark
<1>4. ASSUME NEW t \in Tree, Make(p, w, t) PROVE Own
    BY <1>4 DEF Make
<1>5. CASE GiveUp(p, w)
    BY <1>5 DEF GiveUp
<1>6. ASSUME NEW b \in Blob, Settle(p, w, b) PROVE Own
    BY <1>6 DEF Settle, Temps, Temp
<1>7. CASE Record(p, w)
    BY <1>7 DEF Record
<1> QED BY <1>1, <1>2, <1>3, <1>4, <1>5, <1>6, <1>7 DEF Work

\* Only a mark that a job left behind makes is astray.
LEMMA WorkStrays ==
    ASSUME NEW p \in Proc, NEW w \in Worker, Work(p, w)
    PROVE  /\ strayed => strayed'
           /\ strayed' => strayed \/ (~Sheltered(p) /\ Mark(p, w))
           /\ ~Sheltered(p) => marks' = marks \/ strayed'
<1>1. CASE Mark(p, w)
  <2>1. strayed' = (strayed \/ (~Sheltered(p) /\ marks' # marks))
      BY <1>1 DEF Mark
  <2>2. strayed => strayed'
      BY <2>1, Zenon
  <2>3. strayed' => strayed \/ ~Sheltered(p)
      BY <2>1, Zenon
  <2>4. ~Sheltered(p) => marks' = marks \/ strayed'
      BY <2>1, Zenon
  <2> QED BY <1>1, <2>2, <2>3, <2>4, Zenon
<1>2. CASE ~Mark(p, w)
  <2>1. UNCHANGED <<marks, strayed>>
      BY <1>2 DEF Work, Look, Check, Make, GiveUp, Settle, Record, disk
  <2> QED BY <2>1, Zenon
<1> QED BY <1>1, <1>2

LEMMA LockHolds ==
    ASSUME TypeOK, LockRight, [Next]_vars
    PROVE  LockRight'
<1> USE DEF TypeOK, LockRight, disk, locks, memory, Holding, Excluding
<1>1. ASSUME NEW p \in Proc, Start(p) PROVE LockRight'
    BY <1>1 DEF Start
<1>2. ASSUME NEW p \in Proc, Open(p) PROVE LockRight'
    BY <1>2 DEF Open
<1>3. ASSUME NEW p \in Proc, NEW w \in Worker, Work(p, w) PROVE LockRight'
  <2>1. UNCHANGED <<shared, exclusive, phase>>
      BY <1>3, WorkIsOwn
  <2> QED BY <2>1
<1>4. ASSUME NEW p \in Proc, End(p) PROVE LockRight'
  <2>1. CASE Finish(p)
      BY <2>1 DEF Finish
  <2>2. CASE TryLock(p)
    <3>1. CASE shared \subseteq {p} /\ exclusive = None
        BY <2>2, <3>1, BlobsApart DEF TryLock, With
    <3>2. CASE ~(shared \subseteq {p} /\ exclusive = None)
        BY <2>2, <3>2 DEF TryLock, Without
    <3> QED BY <3>1, <3>2
  <2>3. CASE Sweep(p)
      BY <2>3, BlobsApart DEF Sweep
  <2>4. CASE Reshare(p)
      BY <2>4 DEF Reshare
  <2>5. CASE Forget(p)
      BY <2>5 DEF Forget
  <2>6. ASSUME NEW t \in Tree, ForgetMark(p, t) PROVE LockRight'
      BY <2>6 DEF ForgetMark
  <2>7. CASE ForgetDone(p)
      BY <2>7 DEF ForgetDone
  <2>8. ASSUME NEW b \in Blob, RemoveBlob(p, b) PROVE LockRight'
      BY <2>8 DEF RemoveBlob
  <2>9. CASE EvictEnds(p)
      BY <2>9, BlobsApart DEF EvictEnds
  <2>10. CASE Close(p)
      BY <2>10, BlobsApart DEF Close, Gone
  <2> QED BY <1>4, <2>1, <2>2, <2>3, <2>4, <2>5, <2>6, <2>7, <2>8, <2>9, <2>10
          DEF End
<1>5. ASSUME NEW p \in Proc, Crash(p) PROVE LockRight'
    BY <1>5, BlobsApart DEF Crash, Gone
<1>6. CASE UNCHANGED vars
    BY <1>6 DEF vars
<1> QED BY <1>1, <1>2, <1>3, <1>4, <1>5, <1>6 DEF Next

\* A step of a process's own thread, or its death: what it leaves as it is.
Ends(p) == Start(p) \/ Open(p) \/ End(p) \/ Crash(p)

LEMMA EndsAlone ==
    ASSUME TypeOK, NEW p \in Proc, Ends(p)
    PROVE  /\ \A q \in Proc : q # p =>
                  /\ phase'[q] = phase[q] /\ known'[q] = known[q]
                  /\ job'[q] = job[q] /\ hits'[q] = hits[q]
           /\ marks' \subseteq marks /\ records' = records
           /\ hits'[p] = hits[p] \/ hits'[p] = {}
           /\ phase'[p] # phase[p] \/ UNCHANGED phase
           /\ known'[p] = known[p] \/ known'[p] = {}
           /\ job'[p] = job[p] \/ job'[p] = [w \in Worker |-> Idle]
<1> USE DEF TypeOK, disk, locks, memory
<1>1. CASE Start(p) \/ Open(p) \/ Finish(p) \/ Sweep(p) \/ Reshare(p)
    BY <1>1 DEF Start, Open, Finish, Sweep, Reshare
<1>2. CASE TryLock(p)
  <2>1. /\ \A q \in Proc : q # p => UNCHANGED phase[q]
        /\ phase'[p] # phase[p]
      BY <1>2 DEF TryLock, With, Without
  <2>2. UNCHANGED <<disk, memory>>
      BY <1>2 DEF TryLock
  <2> QED BY <2>1, <2>2
<1>3. CASE Forget(p) \/ ForgetDone(p) \/ EvictEnds(p)
    BY <1>3 DEF Forget, ForgetDone, EvictEnds
<1>4. CASE \E t \in Tree : ForgetMark(p, t)
    BY <1>4 DEF ForgetMark
<1>5. CASE \E b \in Blob : RemoveBlob(p, b)
    BY <1>5 DEF RemoveBlob
<1>6. CASE Close(p) \/ Crash(p)
    BY <1>6 DEF Close, Crash, Gone
<1> QED BY <1>1, <1>2, <1>3, <1>4, <1>5, <1>6 DEF Ends, End

LEMMA StrayedTill ==
    ASSUME NEW p \in Proc, Ends(p)
    PROVE  strayed' = strayed \/ ForgetDone(p)
BY DEF Ends, Start, Open, End, Finish, TryLock, Sweep, Reshare, Forget,
       ForgetMark, RemoveBlob, EvictEnds, Close, Crash, Gone

LEMMA BeginsAfreshHolds ==
    ASSUME TypeOK, BeginsAfresh, [Next]_vars
    PROVE  BeginsAfresh'
<1> USE DEF BeginsAfresh
<1>1. ASSUME NEW p \in Proc, NEW w \in Worker, Work(p, w) PROVE BeginsAfresh'
  <2> SUFFICES ASSUME NEW q \in Proc
               PROVE  /\ phase[q] \in {"closed", "opening"} =>
                             /\ known'[q] = {}
                             /\ \A v \in Worker : job'[q][v] = Idle
                      /\ phase[q] # "building" => hits'[q] = {}
      BY <1>1, WorkIsOwn
  <2>1. CASE q = p
      BY <1>1, <2>1, WorkIsOwn DEF Running
  <2>2. CASE q # p
      BY <1>1, <2>2, WorkIsOwn
  <2> QED BY <2>1, <2>2
<1>2. ASSUME NEW p \in Proc, Ends(p) PROVE BeginsAfresh'
  <2> DEFINE Afresh == /\ phase'[p] \in {"closed", "opening"} =>
                              known'[p] = {} /\ \A w \in Worker : job'[p][w] = Idle
                       /\ phase'[p] # "building" => hits'[p] = {}
  <2> SUFFICES Afresh
      BY <1>2, EndsAlone
  <2> USE DEF TypeOK, memory, disk, locks
  <2>1. CASE Start(p) \/ Open(p)
      BY <2>1 DEF Start, Open
  <2>2. CASE Finish(p) \/ Sweep(p) \/ Reshare(p) \/ Forget(p) \/ ForgetDone(p)
             \/ EvictEnds(p)
      BY <2>2 DEF Finish, Sweep, Reshare, Forget, ForgetDone, EvictEnds
  <2>3. CASE TryLock(p)
      BY <2>3 DEF TryLock, With, Without
  <2>4. CASE \/ \E t \in Tree : ForgetMark(p, t)
             \/ \E b \in Blob : RemoveBlob(p, b)
      BY <2>4 DEF ForgetMark, RemoveBlob
  <2>5. CASE Close(p) \/ Crash(p)
      BY <2>5 DEF Close, Crash, Gone
  <2> QED BY <1>2, <2>1, <2>2, <2>3, <2>4, <2>5 DEF Ends, End
<1>3. CASE UNCHANGED vars
    BY <1>3 DEF vars, memory
<1> QED BY <1>1, <1>2, <1>3 DEF Next, Ends

LEMMA NoMarksLeftHolds ==
    ASSUME TypeOK, LockRight, NoMarksLeft, [Next]_vars
    PROVE  NoMarksLeft'
<1> USE DEF NoMarksLeft
<1>1. ASSUME NEW p \in Proc, NEW w \in Worker, Work(p, w) PROVE NoMarksLeft'
  <2> SUFFICES ASSUME NEW q \in Proc, phase[q] = "removing"
               PROVE  marks' = {} \/ strayed'
      BY <1>1, WorkIsOwn
  <2>1. ~Sheltered(p)
      BY ExclusiveAlone DEF Excluding
  <2>2. marks' = marks \/ strayed'
      BY <1>1, <2>1, WorkStrays
  <2>3. strayed => strayed'
      BY <1>1, WorkStrays
  <2> QED BY <2>2, <2>3
<1>2. ASSUME NEW p \in Proc, Ends(p) PROVE NoMarksLeft'
  <2>1. CASE ForgetDone(p)
      BY <2>1 DEF ForgetDone, disk
  <2>2. CASE ~ForgetDone(p)
    <3>1. phase'[p] = "removing" => phase[p] = "removing"
        BY <1>2, <2>2
           DEF Ends, End, Start, Open, Finish, TryLock, With, Without, Sweep,
               Reshare, Forget, ForgetMark, RemoveBlob, EvictEnds, Close, Crash,
               Gone, TypeOK
    <3> QED BY <1>2, <2>2, <3>1, EndsAlone, StrayedTill
  <2> QED BY <2>1, <2>2
<1>3. CASE UNCHANGED vars
    BY <1>3 DEF vars, disk
<1> QED BY <1>1, <1>2, <1>3 DEF Next, Ends

\* A process that still has the lock it opened with after a step of another's
\* thread, or of its own but the pool's, is as it was, and so is what it wrote.
LEMMA ShelterKept ==
    ASSUME TypeOK, LockRight, BeginsAfresh, NEW p \in Proc, Ends(p),
           NEW q \in Proc, Sheltered(q)'
    PROVE  /\ known'[q] = known[q] /\ job'[q] = job[q]
           /\ \/ Sheltered(q)
              \/ known[q] = {} /\ \A w \in Worker : job[q][w] = Idle
           /\ \A w \in Worker, b \in Blob : Temp(q, w, b) \in temps =>
                  Temp(q, w, b) \in temps'
           /\ blobs \subseteq blobs' /\ ~ForgetDone(p)
<1> USE DEF TypeOK, disk, locks, memory
<1>1. CASE q = p
  <2>1. Open(p) \/ Finish(p)
    <3>1. CASE TryLock(p)
        BY <1>1, <3>1 DEF TryLock, With, Without, Sheltered
    <3>2. CASE ~TryLock(p)
        BY <1>1, <3>2
           DEF Ends, End, Start, Sweep, Reshare, Forget, ForgetMark, ForgetDone,
               RemoveBlob, EvictEnds, Close, Crash, Gone, Sheltered
    <3> QED BY <3>1, <3>2
  <2>2. CASE Open(p)
      BY <1>1, <2>2 DEF Open, BeginsAfresh, ForgetDone
  <2>3. CASE Finish(p)
      BY <1>1, <2>3 DEF Finish, Sheltered, ForgetDone
  <2> QED BY <2>1, <2>2, <2>3
<1>2. CASE q # p
  <2>1. Sheltered(q) /\ known'[q] = known[q] /\ job'[q] = job[q]
      BY <1>2, EndsAlone DEF Sheltered
  <2>2. phase[p] \notin Excluding
      BY <2>1, ExclusiveAlone
  <2>3. /\ ~Sweep(p) /\ ~ForgetDone(p) /\ \A b \in Blob : ~RemoveBlob(p, b)
      BY <2>2 DEF Sweep, ForgetDone, RemoveBlob, Excluding
  <2>4. CASE Close(p) \/ Crash(p)
    <3>1. /\ UNCHANGED blobs
          /\ temps' = {Temp(IF x.by = p THEN None ELSE x.by, x.worker, x.blob) :
                           x \in temps}
        BY <2>4 DEF Close, Crash, Gone
    <3>2. ASSUME NEW w \in Worker, NEW b \in Blob, Temp(q, w, b) \in temps
          PROVE  Temp(q, w, b) \in temps'
      <4> DEFINE x == Temp(q, w, b)
      <4>1. x.by = q /\ x.worker = w /\ x.blob = b
          BY DEF Temp
      <4>2. x = Temp(IF x.by = p THEN None ELSE x.by, x.worker, x.blob)
          BY <1>2, <4>1
      <4> QED BY <3>1, <3>2, <4>2
    <3> QED BY <2>1, <2>3, <3>1, <3>2
  <2>5. CASE ~(Close(p) \/ Crash(p))
    <3>1. UNCHANGED <<blobs, temps>>
        BY <2>3, <2>5 DEF Ends, End, Start, Open, Finish, TryLock, Reshare,
                          Forget, ForgetMark, EvictEnds
    <3> QED BY <2>1, <2>3, <3>1
  <2> QED BY <2>4, <2>5
<1> QED BY <1>1, <1>2

LEMMA PutsAreThereHolds ==
    ASSUME TypeOK, LockRight, BeginsAfresh, PutsAreThere, [Next]_vars
    PROVE  PutsAreThere'
<1> USE DEF PutsAreThere
<1> DEFINE There(q, v) ==
        /\ job[q][v].at = "settling" =>
               Contents(job[q][v].tree) \subseteq blobs \cup job[q][v].left
        /\ \A b \in job[q][v].left : Temp(q, v, b) \in temps
<1>1. ASSUME NEW p \in Proc, Ends(p) PROVE PutsAreThere'
  <2> SUFFICES ASSUME NEW q \in Proc, NEW v \in Worker, Sheltered(q)'
               PROVE  There(q, v)'
      OBVIOUS
  <2>1. job'[q] = job[q] /\ blobs \subseteq blobs'
      BY <1>1, ShelterKept
  <2>2. There(q, v)
      BY <1>1, ShelterKept, JobAt
  <2>3. job[q][v].left \subseteq Blob
      BY JobPut, JobsAbout
  <2>4. \A b \in job[q][v].left : Temp(q, v, b) \in temps'
      BY <1>1, <2>2, <2>3, ShelterKept
  <2>5. Contents(job[q][v].tree)' = Contents(job'[q][v].tree)
      BY DEF Contents, Visited
  <2> QED BY <2>1, <2>2, <2>4, <2>5
<1>2. ASSUME NEW p \in Proc, NEW w \in Worker, Work(p, w) PROVE PutsAreThere'
  <2> SUFFICES ASSUME NEW q \in Proc, NEW v \in Worker, Sheltered(q)
               PROVE  There(q, v)'
      BY <1>2, WorkIsOwn DEF Sheltered
  <2>0. blobs \subseteq blobs'
      BY <1>2, WorkIsOwn
  <2>1. CASE q # p \/ v # w
    <3>1. job'[q][v] = job[q][v]
        BY <1>2, <2>1, WorkIsOwn
    <3>2. ASSUME NEW b, Temp(q, v, b) \in temps
          PROVE  Temp(q, v, b) \in temps'
      <4>1. Temp(q, v, b) \notin Temps(p, w)
          BY <2>1 DEF Temps, Temp
      <4> QED BY <1>2, <3>2, <4>1, WorkIsOwn
    <3> QED BY <2>0, <3>1, <3>2
  <2>2. CASE q = p /\ v = w
    <3> USE DEF TypeOK
    <3>1. ASSUME NEW i, job' = [job EXCEPT ![p][w] = i],
                 i.at # "settling", i.left = {}
          PROVE  There(q, v)'
        BY <2>2, <3>1
    <3>2. ASSUME NEW k \in Key, Look(p, w, k) PROVE There(q, v)'
      <4> DEFINE missed == Job("missed", k, None)
                 checking == Job("checking", k, records[k])
      <4>1. \/ job' = [job EXCEPT ![p][w] = missed]
            \/ job' = [job EXCEPT ![p][w] = checking]
          BY <3>2 DEF Look
      <4>2. /\ missed.at # "settling" /\ missed.left = {}
            /\ checking.at # "settling" /\ checking.left = {}
          BY JobAt
      <4> HIDE DEF missed, checking
      <4> QED BY <3>1, <4>1, <4>2
    <3>3. CASE Check(p, w)
      <4> DEFINE marking == Job("marking", job[p][w].key, job[p][w].tree)
                 missed == Job("missed", job[p][w].key, None)
      <4>1. \/ job' = [job EXCEPT ![p][w] = Idle]
            \/ job' = [job EXCEPT ![p][w] = marking]
            \/ job' = [job EXCEPT ![p][w] = missed]
          BY <3>3 DEF Check
      <4>2. /\ Idle.at # "settling" /\ Idle.left = {}
            /\ marking.at # "settling" /\ marking.left = {}
            /\ missed.at # "settling" /\ missed.left = {}
          BY JobAt
      <4> HIDE DEF marking, missed
      <4> QED BY <3>1, <4>1, <4>2
    <3>4. CASE Mark(p, w) \/ GiveUp(p, w) \/ Record(p, w)
      <4>1. job' = [job EXCEPT ![p][w] = Idle]
          BY <3>4 DEF Mark, GiveUp, Record
      <4> QED BY <3>1, <4>1, JobAt
    <3>5. ASSUME NEW t \in Tree, Make(p, w, t) PROVE There(q, v)'
      <4> DEFINE left == Contents(t) \ blobs
      <4>1. /\ job'[p][w] = Putting(job[p][w].key, t, left)
            /\ temps' = temps \cup {Temp(p, w, b) : b \in left}
            /\ UNCHANGED blobs
          BY <3>5 DEF Make
      <4>2. job'[p][w].tree = t /\ job'[p][w].left = left
          BY <4>1, JobAt
      <4> HIDE DEF left
      <4>3. Contents(t) \subseteq blobs \cup left
          BY DEF left
      <4> QED BY <2>2, <4>1, <4>2, <4>3
    <3>6. ASSUME NEW b \in Blob, Settle(p, w, b) PROVE There(q, v)'
      <4> DEFINE left == job[p][w].left
      <4>1. job[p][w] \in Jobs /\ job[p][w].at = "settling" /\ left \in SUBSET Blob
          BY <3>6, JobPut, JobsAbout DEF Settle
      <4>2. job'[p][w] = [job[p][w] EXCEPT !.left = left \ {b}]
          BY <3>6 DEF Settle
      <4>3. job'[p][w].tree = job[p][w].tree /\ job'[p][w].left = left \ {b}
          BY <4>1, <4>2, JobSettled
      <4>4. blobs' = blobs \cup {b} /\ temps' = temps \ {Temp(p, w, b)}
          BY <3>6 DEF Settle
      <4>5. ASSUME NEW c \in left \ {b}
            PROVE  Temp(p, w, c) \in temps'
          BY <2>2, <4>4, <4>5 DEF Temp
      <4>6. Contents(job[p][w].tree) \subseteq blobs \cup left
          BY <2>2, <4>1
      <4> QED BY <2>2, <4>3, <4>4, <4>5, <4>6
    <3> QED BY <1>2, <2>2, <3>2, <3>3, <3>4, <3>5, <3>6 DEF Work
  <2> QED BY <2>1, <2>2
<1>3. CASE UNCHANGED vars
    BY <1>3 DEF vars, disk, memory, Sheltered
<1> QED BY <1>1, <1>2, <1>3 DEF Next, Ends


\* A blob is taken only while no mark is left, but of jobs left behind, and no
\* process has the lock it opened with.
LEMMA BlobsStay ==
    ASSUME StoreInv, [Next]_vars, ~(blobs \subseteq blobs')
    PROVE  /\ UNCHANGED <<marks, phase, memory, strayed>>
           /\ marks = {} \/ strayed
           /\ \A q \in Proc : ~Sheltered(q) /\ hits[q] = {}
<1>1. PICK p \in Proc, b \in Blob : RemoveBlob(p, b)
  <2>1. ASSUME NEW p \in Proc, Ends(p), \A b \in Blob : ~RemoveBlob(p, b)
        PROVE  blobs' = blobs
      BY <2>1 DEF Ends, Start, Open, End, Finish, TryLock, Sweep, Reshare,
                  Forget, ForgetMark, ForgetDone, EvictEnds, Close, Crash,
                  Gone, disk
  <2>2. ASSUME UNCHANGED vars PROVE blobs' = blobs
      BY <2>2 DEF vars, disk
  <2> QED BY <2>1, <2>2, WorkIsOwn DEF Next, Ends, StoreInv
<1>2. phase[p] = "removing" /\ UNCHANGED <<marks, phase, memory, strayed>>
    BY <1>1 DEF RemoveBlob
<1>3. marks = {} \/ strayed
    BY <1>2 DEF StoreInv, NoMarksLeft
<1>4. ASSUME NEW q \in Proc
      PROVE  ~Sheltered(q) /\ hits[q] = {}
  <2>1. ~Sheltered(q)
      BY <1>2, ExclusiveAlone DEF StoreInv, Excluding
  <2> QED BY <2>1 DEF StoreInv, BeginsAfresh, Sheltered
<1> QED BY <1>2, <1>3, <1>4

\* What a process that kept its lock records is whole, whatever others left.
LEMMA RecordIsWhole ==
    ASSUME StoreInv, NEW p \in Proc, NEW w \in Worker, Record(p, w), Sheltered(p)
    PROVE  job[p][w].tree \in WholeTrees'
<1> DEFINE t == job[p][w].tree
<1>1. t \in Tree
    BY JobPut, JobsAbout DEF Record, StoreInv
<1>2. Contents(t) \subseteq blobs
    BY DEF Record, StoreInv, PutsAreThere
<1>3. t \in WholeTrees
    BY <1>1, <1>2, ContentsMakeWhole DEF WholeTrees
<1> QED BY <1>3, WholeStays DEF Record

\* What a process that kept its lock finds, marks and uses is so, if what it
\* and the marks told it was.
LEMMA WorkIsRight ==
    ASSUME StoreInv, TruthsTold, NEW p \in Proc, NEW w \in Worker, Work(p, w),
           Sheltered(p)
    PROVE  /\ marks' \cup known'[p] \cup hits'[p] \subseteq WholeTrees'
           /\ job'[p][w].at = "marking" => job'[p][w].tree \in WholeTrees'
<1> USE DEF StoreInv, TypeOK, disk, locks, memory
<1> DEFINE Right ==
        /\ marks' \cup known'[p] \cup hits'[p] \subseteq WholeTrees'
        /\ job'[p][w].at = "marking" => job'[p][w].tree \in WholeTrees'
<1>a. job[p][w] \in Jobs
    BY JobPut
<1>b. WholeTrees \subseteq WholeTrees'
    BY WorkIsOwn, WholeStays
<1>c. marks \cup known[p] \cup hits[p] \subseteq WholeTrees'
    BY <1>b DEF TruthsTold
<1>1. ASSUME NEW k \in Key, Look(p, w, k) PROVE Right
  <2>1. UNCHANGED <<marks, known, hits>> /\ job'[p][w].at \in {"missed", "checking"}
      BY <1>1, JobAt DEF Look
  <2> QED BY <2>1, <1>c
<1>2. CASE Check(p, w)
  <2> DEFINE k == job[p][w].key
             t == job[p][w].tree
             sure == known[p] \cup marks
  <2>1. t \in Tree /\ sure \in SUBSET Tree /\ sure \subseteq WholeTrees
      BY <1>2, <1>a, JobsAbout DEF Check, TruthsTold
  <2>2. UNCHANGED marks
      BY <1>2 DEF Check
  <2>3. CASE t \in sure
    <3>1. /\ known'[p] = known[p] \cup {t} /\ hits'[p] \subseteq hits[p] \cup {t}
          /\ job'[p][w] = Idle
        BY <1>2, <2>1, <2>3, SureIsComplete DEF Check, Gives
    <3>2. t \in WholeTrees'
        BY <2>1, <2>3, <1>b
    <3>3. job'[p][w].at = "idle"
        BY <3>1, JobAt
    <3> HIDE DEF t
    <3> QED BY <3>1, <3>2, <3>3, <2>2, <1>c
  <2>4. CASE t \notin sure /\ CompleteBy(t, sure)
    <3>1. Visited(t, sure) \subseteq WholeTrees'
        BY <2>1, <2>4, <1>b, VisitedAreTrees, WalkFindsWhole DEF WholeTrees
    <3>2. known'[p] = known[p] \cup Visited(t, sure) /\ hits' = hits
        BY <1>2, <2>4 DEF Check
    <3>3. job'[p][w] = Job("marking", k, t)
        BY <1>2, <2>4 DEF Check
    <3>4. t \in Visited(t, sure)
        BY <2>1, WalkBegins
    <3> HIDE DEF k, t, sure
    <3>5. job'[p][w].tree = t
        BY <3>3, JobAt
    <3> QED BY <3>1, <3>2, <3>4, <3>5, <2>2, <1>c
  <2>5. CASE t \notin sure /\ ~CompleteBy(t, sure)
    <3> DEFINE found == {s \in Visited(t, sure) : CompleteBy(s, sure)}
    <3>1. found \subseteq WholeTrees'
        BY <2>1, <1>b, VisitedAreTrees, WalkBegins, WalkFindsWhole DEF WholeTrees
    <3>2. known'[p] \subseteq known[p] \cup found /\ hits' = hits
      <4>1. \E some \in SUBSET found : known' = [known EXCEPT ![p] = @ \cup some]
          BY <1>2, <2>5 DEF Check
      <4>2. hits' = hits
          BY <1>2, <2>5 DEF Check
      <4> HIDE DEF found
      <4> QED BY <4>1, <4>2
    <3>3. job'[p][w] = Job("missed", k, None)
        BY <1>2, <2>5 DEF Check
    <3> HIDE DEF k, found
    <3>4. job'[p][w].at = "missed"
        BY <3>3, JobAt
    <3> QED BY <3>1, <3>2, <3>4, <2>2, <1>c
  <2> QED BY <2>3, <2>4, <2>5
<1>3. CASE Mark(p, w)
  <2> DEFINE t == job[p][w].tree
  <2>1. t \in WholeTrees'
      BY <1>3, <1>b DEF Mark, TruthsTold
  <2>2. /\ marks' \subseteq marks \cup {t} /\ hits'[p] \subseteq hits[p] \cup {t}
        /\ UNCHANGED known /\ job'[p][w] = Idle
      BY <1>3 DEF Mark, Gives
  <2> HIDE DEF t
  <2> QED BY <2>1, <2>2, <1>c, JobAt
<1>4. CASE \/ \E t \in Tree : Make(p, w, t)
           \/ GiveUp(p, w)
           \/ \E b \in Blob : Settle(p, w, b)
  <2>1. UNCHANGED <<marks, known, hits>>
      BY <1>4 DEF Make, GiveUp, Settle
  <2>2. job'[p][w].at # "marking"
    <3>1. ASSUME NEW t \in Tree, Make(p, w, t)
          PROVE  job'[p][w].at = "settling"
        BY <3>1, JobAt DEF Make
    <3>2. CASE GiveUp(p, w)
        BY <3>2, JobAt DEF GiveUp
    <3>3. ASSUME NEW b \in Blob, Settle(p, w, b)
          PROVE  job'[p][w].at = "settling"
      <4>1. /\ job[p][w].at = "settling"
            /\ job[p][w].left \ {b} \in SUBSET Blob
            /\ job'[p][w] = [job[p][w] EXCEPT !.left = job[p][w].left \ {b}]
          BY <3>3, <1>a, JobsAbout DEF Settle
      <4> QED BY <4>1, <1>a, JobSettled
    <3> QED BY <1>4, <3>1, <3>2, <3>3
  <2> QED BY <2>1, <2>2, <1>c
<1>5. CASE Record(p, w)
  <2> DEFINE t == job[p][w].tree
  <2>1. t \in WholeTrees'
      BY <1>5, RecordIsWhole
  <2>2. /\ UNCHANGED <<marks, known>> /\ hits'[p] \subseteq hits[p] \cup {t}
        /\ job'[p][w] = Idle
      BY <1>5 DEF Record, Gives
  <2> HIDE DEF t
  <2> QED BY <2>1, <2>2, <1>c, JobAt
<1> QED BY <1>1, <1>2, <1>3, <1>4, <1>5 DEF Work

\* How a thread's step changes `strayed`.
LEMMA StraysAtOnce ==
    ASSUME TypeOK, NEW p \in Proc, NEW w \in Worker, Work(p, w)
    PROVE  \/ strayed' = strayed
           \/ strayed' = TRUE /\ ~Sheltered(p) /\ Mark(p, w)
<1>1. CASE Mark(p, w) /\ ~Sheltered(p) /\ marks' # marks
  <2>1. strayed' = (strayed \/ (~Sheltered(p) /\ marks' # marks))
      BY <1>1 DEF Mark
  <2>2. strayed' = TRUE
      BY <1>1, <2>1
  <2> QED BY <1>1, <2>2, Zenon
<1>2. CASE Mark(p, w) /\ ~(~Sheltered(p) /\ marks' # marks)
  <2>1. strayed' = (strayed \/ (~Sheltered(p) /\ marks' # marks))
      BY <1>2 DEF Mark
  <2>2. strayed \in BOOLEAN
      BY DEF TypeOK
  <2>3. strayed' = strayed
      BY <1>2, <2>1, <2>2
  <2> QED BY <2>3, Zenon
<1>3. CASE ~Mark(p, w)
  <2>1. strayed' = strayed
      BY <1>3 DEF Work, Look, Check, Make, GiveUp, Settle, Record
  <2> QED BY <2>1, Zenon
<1> QED BY <1>1, <1>2, <1>3

\* What is said to be whole stays so, in every step that leaves no job's mark
\* astray.
LEMMA TruthsHold ==
    ASSUME StoreInv, [Next]_vars, ~strayed'
    PROVE  TruthsTold'
<1> USE DEF disk, locks, memory
<1>1. CASE ~(blobs \subseteq blobs')
  <2>1. /\ UNCHANGED <<marks, phase, memory>> /\ strayed' = strayed
        /\ marks = {} \/ strayed
        /\ \A q \in Proc : ~Sheltered(q) /\ hits[q] = {}
      BY <1>1, BlobsStay
  <2>2. marks' = {}
    <3>1. marks = {}
        BY <2>1, Zenon
    <3> QED BY <2>1, <3>1
  <2> QED BY <2>1, <2>2 DEF TruthsTold, Sheltered
<1>2. CASE blobs \subseteq blobs'
  <2>1. WholeTrees \subseteq WholeTrees'
      BY <1>2, WholeStays
  <2>2. ASSUME NEW p \in Proc, NEW w \in Worker, Work(p, w)
        PROVE  TruthsTold'
    <3>1. TruthsTold
      <4>1. ~strayed
          BY <2>2, WorkStrays, Zenon
      <4> QED BY <4>1, Zenon DEF StoreInv
    <3>2. UNCHANGED phase
        BY <2>2, WorkIsOwn DEF StoreInv
    <3>3. ASSUME NEW q \in Proc, q # p
          PROVE  /\ known'[q] = known[q] /\ hits'[q] = hits[q]
                 /\ \A v \in Worker : job'[q][v] = job[q][v]
        BY <2>2, <3>3, WorkIsOwn DEF StoreInv
    <3>4. \A v \in Worker : v # w => job'[p][v] = job[p][v]
        BY <2>2, WorkIsOwn DEF StoreInv
    <3>5. CASE Sheltered(p)
      <4>1. /\ marks' \cup known'[p] \cup hits'[p] \subseteq WholeTrees'
            /\ job'[p][w].at = "marking" => job'[p][w].tree \in WholeTrees'
          BY <2>2, <3>1, <3>5, WorkIsRight
      <4>2. \A q \in Proc : hits'[q] \subseteq WholeTrees'
          BY <2>1, <3>1, <3>3, <4>1 DEF TruthsTold
      <4>3. ASSUME NEW q \in Proc, Sheltered(q)
            PROVE  known'[q] \subseteq WholeTrees'
          BY <2>1, <3>1, <3>3, <4>1, <4>3 DEF TruthsTold
      <4>4. ASSUME NEW q \in Proc, Sheltered(q), NEW v \in Worker,
                   job'[q][v].at = "marking"
            PROVE  job'[q][v].tree \in WholeTrees'
        <5>1. CASE q = p /\ v = w
            BY <4>1, <4>4, <5>1
        <5>2. CASE ~(q = p /\ v = w)
            BY <2>1, <3>1, <3>3, <3>4, <4>4, <5>2 DEF TruthsTold
        <5> QED BY <5>1, <5>2
      <4> QED BY <3>2, <4>1, <4>2, <4>3, <4>4 DEF TruthsTold, Sheltered
    <3>6. CASE ~Sheltered(p)
      <4>1. UNCHANGED <<marks, hits>>
        <5>1. marks' = marks
            BY <2>2, <3>6, WorkStrays, Zenon
        <5>2. hits' = hits
            BY <2>2, <3>6, WorkIsOwn DEF StoreInv, Sheltered
        <5> QED BY <5>1, <5>2
      <4>2. \A q \in Proc : Sheltered(q) => q # p
          BY <3>6
      <4> QED BY <2>1, <3>1, <3>2, <3>3, <4>1, <4>2 DEF TruthsTold, Sheltered
    <3> QED BY <3>5, <3>6
  <2>3. ASSUME NEW p \in Proc, Ends(p), ForgetDone(p)
        PROVE  TruthsTold'
    <3>1. /\ marks' = {} /\ hits' = hits /\ phase[p] \in Excluding
          /\ phase' = [phase EXCEPT ![p] = "removing"]
        BY <2>3 DEF ForgetDone, Excluding
    <3>2. \A q \in Proc : ~Sheltered(q)
        BY <3>1, ExclusiveAlone DEF StoreInv
    <3>3. \A q \in Proc : ~Sheltered(q)' /\ hits'[q] = {}
        BY <3>1, <3>2 DEF Sheltered, StoreInv, BeginsAfresh, TypeOK
    <3> QED BY <3>1, <3>3 DEF TruthsTold
  <2>4. ASSUME NEW p \in Proc, Ends(p), ~ForgetDone(p)
        PROVE  TruthsTold'
    <3>1. TruthsTold
      <4>1. ~strayed
          BY <2>4, StrayedTill, Zenon
      <4> QED BY <4>1, Zenon DEF StoreInv
    <3>2. marks' \subseteq marks
        BY <2>4, EndsAlone DEF StoreInv
    <3>3. \A q \in Proc : hits'[q] = hits[q] \/ hits'[q] = {}
        BY <2>4, EndsAlone DEF StoreInv
    <3>4. ASSUME NEW q \in Proc, Sheltered(q)'
          PROVE  /\ known'[q] \subseteq WholeTrees'
                 /\ \A v \in Worker : job'[q][v].at = "marking" =>
                        job'[q][v].tree \in WholeTrees'
      <4>1. known'[q] = known[q] /\ job'[q] = job[q]
          BY <2>4, <3>4, ShelterKept DEF StoreInv
      <4>2. CASE Sheltered(q)
          BY <2>1, <3>1, <4>1, <4>2 DEF TruthsTold
      <4>3. CASE known[q] = {} /\ \A v \in Worker : job[q][v] = Idle
          BY <4>1, <4>3, JobAt
      <4> QED BY <2>4, <3>4, <4>2, <4>3, ShelterKept DEF StoreInv
    <3> QED BY <2>1, <3>1, <3>2, <3>3, <3>4 DEF TruthsTold
  <2>5. CASE UNCHANGED vars
    <3>1. TruthsTold
      <4>1. strayed' = strayed
          BY <2>5 DEF vars
      <4>2. ~strayed
          BY <4>1, Zenon
      <4> QED BY <4>2, Zenon DEF StoreInv
    <3>2. UNCHANGED <<marks, hits, phase, known, job>>
        BY <2>5 DEF vars
    <3> QED BY <2>1, <3>1, <3>2 DEF TruthsTold, Sheltered
  <2> QED BY <2>2, <2>3, <2>4, <2>5 DEF Next, Ends
<1> QED BY <1>1, <1>2

LEMMA StoreInvHolds ==
    ASSUME StoreInv, [Next]_vars
    PROVE  StoreInv'
<1>1. TypeOK' /\ LockRight' /\ BeginsAfresh'
    BY TypeHolds, LockHolds, BeginsAfreshHolds DEF StoreInv
<1>2. NoMarksLeft' /\ PutsAreThere'
    BY NoMarksLeftHolds, PutsAreThereHolds DEF StoreInv
<1>3. ~strayed' => TruthsTold'
    BY TruthsHold
<1> QED BY <1>1, <1>2, <1>3, Zenon DEF StoreInv

LEMMA StoreInvBegins == Init => StoreInv
<1> SUFFICES ASSUME Init PROVE StoreInv
    OBVIOUS
<1>1. TypeOK
    BY TypeBegins
<1>2. LockRight
    BY BlobsApart DEF Init, LockRight, Excluding, Holding
<1>3. BeginsAfresh /\ NoMarksLeft /\ PutsAreThere
    BY DEF Init, BeginsAfresh, NoMarksLeft, PutsAreThere, Sheltered
<1>4. TruthsTold
    BY DEF Init, TruthsTold, Sheltered
<1> QED BY <1>1, <1>2, <1>3, <1>4 DEF StoreInv

LEMMA StoreInvAlways == Spec => []StoreInv
BY StoreInvBegins, StoreInvHolds, PTL DEF Spec

-----------------------------------------------------------------------------
(* The theorems. *)

\* In every state, whatever processes build, sweep, evict, leave jobs behind
\* and die meanwhile, a mark in complete/ is on a tree whose every content is
\* there, but between a mark that a job made once its process had let go of its
\* build's lock and the next eviction.
THEOREM MarksAreTrue == Spec => []MarksTrue
<1>1. StoreInv => MarksTrue
    BY DEF StoreInv, TruthsTold, MarksTrue
<1> QED BY <1>1, StoreInvAlways, PTL

\* No build loses a content of a tree it found or made before it is over, but
\* where it may have been misled by such a mark.
THEOREM HitsAreHeld == Spec => []HitsHeld
<1>1. StoreInv => HitsHeld
    BY DEF StoreInv, TruthsTold, HitsHeld
<1> QED BY <1>1, StoreInvAlways, PTL

\* What a job has put into tmp/ stays until the job moves it or gives up, for
\* as long as its process keeps the lock, whoever sweeps.
THEOREM SweepsSpareTheLiving == Spec => []SweepSparesLiving
<1>1. StoreInv => SweepSparesLiving
    BY DEF StoreInv, PutsAreThere, SweepSparesLiving
<1> QED BY <1>1, StoreInvAlways, PTL

\* A record is written only once all it names is there, but by a job whose
\* process has let go of its lock.
THEOREM RecordsAreWhole == Spec => RecordedWhole
<1> DEFINE Written == \A k \in Key : records'[k] # records[k] =>
                          \/ records'[k] \in WholeTrees'
                          \/ \E p \in Proc, w \in Worker : ~Sheltered(p) /\ Record(p, w)
<1>1. ASSUME StoreInv, [Next]_vars, NEW k \in Key, records'[k] # records[k]
      PROVE  \/ records'[k] \in WholeTrees'
             \/ \E p \in Proc, w \in Worker : ~Sheltered(p) /\ Record(p, w)
  <2>1. PICK p \in Proc, w \in Worker : Record(p, w)
    <3>1. ASSUME UNCHANGED vars
          PROVE  records' = records
        BY <3>1 DEF vars, disk
    <3> QED BY <1>1, <3>1, EndsAlone, WorkIsOwn DEF Next, Ends, StoreInv
  <2>2. records'[k] = job[p][w].tree
      BY <1>1, <2>1 DEF Record, StoreInv, TypeOK
  <2> QED BY <1>1, <2>1, <2>2, RecordIsWhole
<1>2. StoreInv /\ [Next]_vars => [Written]_vars
    BY <1>1
<1> QED BY <1>2, StoreInvAlways, PTL DEF Spec, RecordedWhole

\* The store with its lock, its marks, its deaths and the jobs builds leave
\* implements the promise it makes a build: trees are lost only while no build
\* uses any, and a build takes for there what is not only once such a job's
\* mark has misled it.
THEOREM StoreKeepsPromise == Spec => KeepsPromise
<1>1. Init => Promise!Init
  <2>1. WholeTrees \in SUBSET Tree
      BY DEF WholeTrees
  <2> QED BY <2>1 DEF Init, Promise!Init
<1>2. ASSUME StoreInv, [Next]_vars
      PROVE  [Promise!Next]_(Promise!vars)
  <2> USE <1>2 DEF disk, locks, memory
  <2>0. TypeOK
      BY DEF StoreInv
  <2>1. blobs' = blobs => WholeTrees' = WholeTrees
      BY DEF WholeTrees, Whole, CompleteBy, Visited
  <2>2. WholeTrees \in SUBSET Tree /\ WholeTrees' \in SUBSET Tree
      BY DEF WholeTrees
  <2>3. ASSUME blobs \subseteq blobs', hits' = hits, strayed' = strayed
        PROVE  Promise!Next
      BY <2>3, <2>2, WholeStays DEF Promise!Gain, Promise!Next
  <2>4. ASSUME NEW p \in Proc, NEW t \in Tree, blobs' = blobs,
               hits' = [hits EXCEPT ![p] = @ \cup {t}], strayed' = strayed
        PROVE  Promise!Next
    <3>1. t \in WholeTrees \/ strayed
      <4>1. CASE strayed'
          BY <2>4, <4>1, Zenon
      <4>2. CASE ~strayed'
        <5>1. TruthsTold'
            BY <4>2, TruthsHold
        <5>2. t \in hits'[p]
            BY <2>0, <2>4 DEF TypeOK
        <5> QED BY <2>1, <2>4, <5>1, <5>2 DEF TruthsTold
      <4> QED BY <4>1, <4>2
    <3>2. Promise!Use(p, t)
        BY <2>1, <2>4, <3>1 DEF Promise!Use
    <3> QED BY <3>2 DEF Promise!Next
  <2>5. ASSUME NEW p \in Proc, NEW w \in Worker, Work(p, w)
        PROVE  [Promise!Next]_(Promise!vars)
    <3>1. blobs \subseteq blobs' /\ (phase[p] # "building" => hits' = hits)
        BY <2>0, <2>5, WorkIsOwn
    <3>2. CASE strayed' = TRUE /\ ~Sheltered(p) /\ Mark(p, w)
      <4>1. blobs' = blobs /\ hits' = hits
          BY <3>1, <3>2 DEF Mark, Sheltered
      <4> QED BY <2>1, <3>2, <4>1 DEF Promise!Mislead, Promise!Next
    <3>3. CASE strayed' = strayed /\ hits' = hits
        BY <2>3, <3>1, <3>3
    <3>4. CASE strayed' = strayed /\ hits' # hits
      <4>1. CASE Check(p, w)
        <5>1. job[p][w].tree \in Tree
            BY <2>0, <4>1, JobPut, JobsAbout DEF Check
        <5>2. blobs' = blobs
              /\ hits' = [hits EXCEPT ![p] = @ \cup {job[p][w].tree}]
            BY <3>4, <4>1 DEF Check, Gives
        <5> QED BY <2>4, <3>4, <5>1, <5>2
      <4>2. CASE Mark(p, w) \/ Record(p, w)
        <5>1. job[p][w].tree \in Tree
            BY <2>0, <4>2, JobPut, JobsAbout DEF Mark, Record
        <5>2. blobs' = blobs
              /\ hits' = [hits EXCEPT ![p] = @ \cup {job[p][w].tree}]
            BY <3>4, <4>2 DEF Mark, Record, Gives
        <5> QED BY <2>4, <3>4, <5>1, <5>2
      <4> QED BY <2>5, <3>4, <4>1, <4>2 DEF Work, Look, Make, GiveUp, Settle
    <3> QED BY <2>0, <2>5, <3>2, <3>3, <3>4, StraysAtOnce
  <2>6. ASSUME NEW p \in Proc, Finish(p) \/ Close(p) \/ Crash(p)
        PROVE  Promise!Next
    <3>1. blobs' = blobs /\ hits' = [hits EXCEPT ![p] = {}] /\ strayed' = strayed
        BY <2>6 DEF Finish, Close, Crash, Gone
    <3> QED BY <3>1, <2>1 DEF Promise!Next, Promise!Release
  <2>7. ASSUME NEW p \in Proc, NEW b \in Blob, RemoveBlob(p, b)
        PROVE  Promise!Next
    <3>0. blobs' = blobs \ {b} /\ hits' = hits /\ strayed' = strayed
        BY <2>7 DEF RemoveBlob
    <3>1. CASE blobs \subseteq blobs'
        BY <3>0, <3>1, <2>3
    <3>2. CASE ~(blobs \subseteq blobs')
      <4>1. \A q \in Proc : hits[q] = {}
          BY <3>2, BlobsStay
      <4>2. WholeTrees' \in SUBSET WholeTrees
          BY <3>0 DEF WholeTrees, Whole, CompleteBy, Visited
      <4> QED BY <3>0, <4>1, <4>2 DEF Promise!Next, Promise!Lose
    <3> QED BY <3>1, <3>2
  <2>8. ASSUME NEW p \in Proc, ForgetDone(p)
        PROVE  Promise!Next
    <3>1. blobs' = blobs /\ hits' = hits /\ strayed' = FALSE /\ phase[p] \in Excluding
        BY <2>8 DEF ForgetDone, Excluding
    <3>2. \A q \in Proc : hits[q] = {}
        BY <3>1, ExclusiveAlone DEF StoreInv, BeginsAfresh, Sheltered
    <3> QED BY <2>1, <3>1, <3>2 DEF Promise!Recover, Promise!Next
  <2>9. ASSUME NEW p \in Proc,
               \/ Start(p) \/ Open(p) \/ TryLock(p) \/ Sweep(p) \/ Reshare(p)
               \/ Forget(p) \/ EvictEnds(p)
               \/ \E t \in Tree : ForgetMark(p, t)
        PROVE  Promise!Next
    <3>1. blobs' = blobs /\ hits' = hits /\ strayed' = strayed
        BY <2>9 DEF Start, Open, TryLock, Sweep, Reshare, Forget, ForgetMark,
                    EvictEnds
    <3> QED BY <3>1, <2>3
  <2>10. CASE UNCHANGED vars
      BY <2>10, <2>1 DEF vars, Promise!vars
  <2> QED BY <2>5, <2>6, <2>7, <2>8, <2>9, <2>10 DEF Next, End
<1> QED BY <1>1, <1>2, StoreInvAlways, PTL DEF Spec, KeepsPromise, Promise!Spec
=============================================================================
