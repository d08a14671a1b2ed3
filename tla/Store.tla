------------------------------- MODULE Store -------------------------------
(***************************************************************************)
(* The content store that every pekit process of a user shares             *)
(* (crates/pekit/src/store.rs), with what a build does to it as it ends:   *)
(* the sweep of what killed builds left (sweep.rs) and the eviction        *)
(* (evict.rs).                                                             *)
(*                                                                         *)
(* A blob is known by its digest alone.  A tree is a blob that names       *)
(* others, its entries.  Everything a process knows dies with it; what it  *)
(* wrote into cas/, complete/, records/ and tmp/ does not.                 *)
(*                                                                         *)
(* A target that fails leaves jobs on the pool that it no longer needs, and *)
(* nothing waits for them: they go on, and queued ones begin, while their   *)
(* process sweeps and evicts, until it is gone.                            *)
(*                                                                         *)
(* Which blobs an eviction takes is the module Eviction's subject: here it *)
(* may take any, so that what holds here holds whatever is chosen.         *)
(***************************************************************************)
EXTENDS FiniteSets

CONSTANTS
    Proc,       \* the processes that may have the store open
    Worker,     \* the threads of each that use it
    Key,        \* receipts, and the keys of unpackings, fetches, programs
    File,       \* contents that name no other
    Tree,       \* directories
    Entries,    \* what each tree names directly
    None        \* no process, no record, no tree

Blob == File \cup Tree

ASSUME BlobsApart == File \cap Tree = {} /\ None \notin Proc \cup Key \cup Blob
ASSUME EntriesAreBlobs == Entries \in [Tree -> SUBSET Blob]

VARIABLES
    blobs,      \* cas/
    marks,      \* complete/
    records,    \* records/: the tree each record names
    temps,      \* tmp/: who wrote it, None once its process is gone, and what
    shared,     \* who holds the file `lock` shared
    exclusive,  \* who holds it exclusively
    phase,      \* where each process is
    known,      \* Store::complete, the trees each process found complete
    job,        \* what each of its threads is doing
    hits,       \* the trees a build has found or made, and is still to use
    strayed     \* history: whether a job marked a tree after its process had
                \* let go of its build's lock, and no eviction has forgotten it

disk == <<blobs, marks, records, temps>>
locks == <<shared, exclusive>>
memory == <<known, job, hits>>
vars == <<disk, locks, phase, memory, strayed>>

-----------------------------------------------------------------------------
(* Trees. *)

\* The trees a walk from t comes to that does not go into those of `stop`.
Visited(t, stop) ==
    {s \in Tree : \A seen \in SUBSET Tree :
        (/\ t \in seen
         /\ \A r \in seen \ stop : Entries[r] \cap Tree \subseteq seen)
        => s \in seen}

\* Store::complete_by: t is known or marked, or a walk finds every content of
\* it here, at any depth, but of the trees known or marked.
CompleteBy(t, sure) ==
    \A s \in Visited(t, sure) :
        s \in sure \/ (s \in blobs /\ Entries[s] \cap File \subseteq blobs)

\* What "complete" means: every content of t, at any depth, is in cas/.
Whole(t) == CompleteBy(t, {})

WholeTrees == {t \in Tree : Whole(t)}

\* What a put of t writes, unless it is there already.
Contents(t) == LET trees == Visited(t, {})
               IN  trees \cup UNION {Entries[s] \cap File : s \in trees}

-----------------------------------------------------------------------------
(* A process and its threads. *)

Job(at, k, t) == [at |-> at, key |-> k, tree |-> t, left |-> {}]

\* A job that is to settle the blobs `left` of t.
Putting(k, t, left) == [at |-> "settling", key |-> k, tree |-> t, left |-> left]

Idle == Job("idle", None, None)

\* A miss has yet to give a tree; every other job under way is about one.
Jobs == {Idle}
        \cup [at : {"missed"}, key : Key, tree : {None}, left : {{}}]
        \cup [at : {"checking", "marking"}, key : Key, tree : Tree, left : {{}}]
        \cup [at : {"settling"}, key : Key, tree : Tree, left : SUBSET Blob]

Phases == {"closed", "opening", "building", "sweep", "sweeping", "swept",
           "evict", "measuring", "forgetting", "removing", "evicted", "done"}

Holding == {"building", "sweep", "evict", "done"}
Excluding == {"sweeping", "measuring", "forgetting", "removing"}

\* A thread goes on whatever the build's own thread does: Pool's threads are
\* never joined.
Running(p) == phase[p] \notin {"closed", "opening"}

\* p has had the lock ever since it opened the store.
Sheltered(p) == phase[p] \in {"building", "sweep"}

Temp(p, w, b) == [by |-> p, worker |-> w, blob |-> b]

Temps(p, w) == {x \in temps : x.by = p /\ x.worker = w}

\* t is found or made for a build, if it still goes on: what a job it left on
\* the pool gives, nobody takes.
Gives(p, t) ==
    hits' = IF phase[p] = "building" THEN [hits EXCEPT ![p] = @ \cup {t}] ELSE hits

\* What p goes on to once it asked for the lock exclusively, without waiting:
\* with it, or without.
With(p) == IF phase[p] = "sweep" THEN "sweeping" ELSE "measuring"
Without(p) == IF phase[p] = "sweep" THEN "swept" ELSE "evicted"

-----------------------------------------------------------------------------
(* Mistakes the properties are to notice, each in place of the action it is  *)
(* named after.                                                              *)

\* The lock is not waited for.
OpenUnlocked(p) ==
    /\ phase[p] = "opening"
    /\ shared' = shared \cup {p}
    /\ phase' = [phase EXCEPT ![p] = "building"]
    /\ UNCHANGED <<disk, exclusive, memory, strayed>>

\* What a record names is taken to be there.
CheckNothing(p, w) ==
    /\ Running(p)
    /\ job[p][w].at = "checking"
    /\ Gives(p, job[p][w].tree)
    /\ job' = [job EXCEPT ![p][w] = Idle]
    /\ UNCHANGED <<disk, locks, phase, known, strayed>>

\* The record is written while contents of it are still in tmp/.
RecordEarly(p, w) ==
    LET j == job[p][w]
    IN  /\ Running(p)
        /\ j.at = "settling"
        /\ records' = [records EXCEPT ![j.key] = j.tree]
        /\ Gives(p, j.tree)
        /\ job' = [job EXCEPT ![p][w] = Idle]
        /\ UNCHANGED <<blobs, marks, temps, locks, phase, known, strayed>>

\* The lock is had whoever else holds it shared.
TryLockAnyway(p) ==
    /\ phase[p] \in {"sweep", "evict"}
    /\ exclusive = None
    /\ shared' = shared \ {p}
    /\ exclusive' = p
    /\ phase' = [phase EXCEPT ![p] = With(p)]
    /\ UNCHANGED <<disk, memory, strayed>>

\* The lock had for a sweep is kept.
SweepKeeps(p) ==
    /\ phase[p] = "sweeping"
    /\ temps' = {x \in temps : x.by = p}
    /\ phase' = [phase EXCEPT ![p] = "swept"]
    /\ UNCHANGED <<blobs, marks, records, locks, memory, strayed>>

\* Marks that could not be removed are left.
ForgetSome(p) ==
    /\ phase[p] = "forgetting"
    /\ phase' = [phase EXCEPT ![p] = "removing"]
    /\ strayed' = FALSE
    /\ UNCHANGED <<disk, locks, memory>>

-----------------------------------------------------------------------------

Init ==
    /\ blobs = {} /\ marks = {} /\ temps = {}
    /\ records = [k \in Key |-> None]
    /\ shared = {} /\ exclusive = None
    /\ phase = [p \in Proc |-> "closed"]
    /\ known = [p \in Proc |-> {}]
    /\ job = [p \in Proc |-> [w \in Worker |-> Idle]]
    /\ hits = [p \in Proc |-> {}]
    /\ strayed = FALSE

Start(p) ==
    /\ phase[p] = "closed"
    /\ phase' = [phase EXCEPT ![p] = "opening"]
    /\ UNCHANGED <<disk, locks, memory, strayed>>

\* Store::open, once its shared lock is had: an eviction elsewhere is waited
\* for.
Open(p) ==
    /\ phase[p] = "opening"
    /\ exclusive = None
    /\ shared' = shared \cup {p}
    /\ phase' = [phase EXCEPT ![p] = "building"]
    /\ UNCHANGED <<disk, exclusive, memory, strayed>>

\* The record of k is read: Store::record_bytes.  A job queued on the pool may
\* begin once the build's own thread is past its end.
Look(p, w, k) ==
    /\ Running(p)
    /\ job[p][w].at = "idle"
    /\ job' = [job EXCEPT ![p][w] =
                 IF records[k] = None
                 THEN Job("missed", k, None)
                 ELSE Job("checking", k, records[k])]
    /\ UNCHANGED <<disk, locks, phase, known, hits, strayed>>

\* Store::holds_tree of what the record names: a hit, a walk that found it
\* complete and is to mark it so, or a miss, whose walk came to some trees that
\* are complete first.
Check(p, w) ==
    LET k == job[p][w].key
        t == job[p][w].tree
        sure == known[p] \cup marks
    IN  /\ Running(p)
        /\ job[p][w].at = "checking"
        /\ \/ /\ t \in sure
              /\ known' = [known EXCEPT ![p] = @ \cup {t}]
              /\ Gives(p, t)
              /\ job' = [job EXCEPT ![p][w] = Idle]
           \/ /\ t \notin sure
              /\ CompleteBy(t, sure)
              /\ known' = [known EXCEPT ![p] = @ \cup Visited(t, sure)]
              /\ job' = [job EXCEPT ![p][w] = Job("marking", k, t)]
              /\ UNCHANGED hits
           \/ /\ ~CompleteBy(t, sure)
              /\ \E found \in SUBSET {s \in Visited(t, sure) : CompleteBy(s, sure)} :
                    known' = [known EXCEPT ![p] = @ \cup found]
              /\ job' = [job EXCEPT ![p][w] = Job("missed", k, None)]
              /\ UNCHANGED hits
        /\ UNCHANGED <<disk, locks, phase, strayed>>

\* Store::mark_complete, which may fail unheard.
Mark(p, w) ==
    LET t == job[p][w].tree
    IN  /\ Running(p)
        /\ job[p][w].at = "marking"
        /\ marks' \in {marks, marks \cup {t}}
        /\ strayed' = (strayed \/ (~Sheltered(p) /\ marks' # marks))
        /\ Gives(p, t)
        /\ job' = [job EXCEPT ![p][w] = Idle]
        /\ UNCHANGED <<blobs, records, temps, locks, phase, known>>

\* What was missed is done again and gives the tree t, whose contents are
\* written to tmp/, but those that are in place: Store::put_tree.
Make(p, w, t) ==
    LET left == Contents(t) \ blobs
    IN  /\ Running(p)
        /\ job[p][w].at = "missed"
        /\ job' = [job EXCEPT ![p][w] = Putting(job[p][w].key, t, left)]
        /\ temps' = temps \cup {Temp(p, w, b) : b \in left}
        /\ UNCHANGED <<blobs, marks, records, locks, phase, known, hits, strayed>>

\* The step fails, or a flush or a rename does, as they do of a file another
\* process swept away: what is left of what was written is removed, and
\* nothing is recorded.
GiveUp(p, w) ==
    /\ Running(p)
    /\ job[p][w].at \in {"missed", "settling"}
    /\ job' = [job EXCEPT ![p][w] = Idle]
    /\ temps' = temps \ Temps(p, w)
    /\ UNCHANGED <<blobs, marks, records, locks, phase, known, hits, strayed>>

\* Store::settle: one blob in place, or dropped if it is there, in the order
\* they were written, so a tree after what it names.
Settle(p, w, b) ==
    LET left == job[p][w].left
    IN  /\ Running(p)
        /\ job[p][w].at = "settling"
        /\ b \in left /\ Temp(p, w, b) \in temps
        /\ b \in Tree => Entries[b] \cap left \subseteq {b}
        /\ blobs' = blobs \cup {b}
        /\ temps' = temps \ {Temp(p, w, b)}
        /\ job' = [job EXCEPT ![p][w].left = left \ {b}]
        /\ UNCHANGED <<marks, records, locks, phase, known, hits, strayed>>

\* Store::put_record_bytes, once every content is in place.
Record(p, w) ==
    LET j == job[p][w]
    IN  /\ Running(p)
        /\ j.at = "settling"
        /\ j.left = {}
        /\ records' = [records EXCEPT ![j.key] = j.tree]
        /\ Gives(p, j.tree)
        /\ job' = [job EXCEPT ![p][w] = Idle]
        /\ UNCHANGED <<blobs, marks, temps, locks, phase, known, strayed>>

-----------------------------------------------------------------------------
(* A build's end. *)

\* Run::drive returns, every target done, and what it gave is copied out.  A
\* target that fails leaves the jobs it no longer needs on the pool.
Finish(p) ==
    /\ phase[p] = "building"
    /\ phase' = [phase EXCEPT ![p] = "sweep"]
    /\ hits' = [hits EXCEPT ![p] = {}]
    /\ UNCHANGED <<disk, locks, known, job, strayed>>

\* File::try_lock of the shared lock.  One that fails has let go of it.
TryLock(p) ==
    /\ phase[p] \in {"sweep", "evict"}
    /\ shared' = shared \ {p}
    /\ IF shared \subseteq {p} /\ exclusive = None
       THEN /\ exclusive' = p
            /\ phase' = [phase EXCEPT ![p] = With(p)]
       ELSE /\ UNCHANGED exclusive
            /\ phase' = [phase EXCEPT ![p] = Without(p)]
    /\ UNCHANGED <<disk, memory, strayed>>

\* sweep::sweep_held, of all but p's own, and the exclusive lock let go of to
\* be shared again.
Sweep(p) ==
    /\ phase[p] = "sweeping"
    /\ temps' = {x \in temps : x.by = p}
    /\ exclusive' = None
    /\ phase' = [phase EXCEPT ![p] = "swept"]
    /\ UNCHANGED <<blobs, marks, records, shared, memory, strayed>>

\* File::lock_shared, after either.
Reshare(p) ==
    /\ phase[p] \in {"swept", "evicted"}
    /\ exclusive = None
    /\ shared' = shared \cup {p}
    /\ phase' = [phase EXCEPT ![p] = IF @ = "swept" THEN "evict" ELSE "done"]
    /\ UNCHANGED <<disk, exclusive, memory, strayed>>

\* Store::forget_complete, what this process knows first,
Forget(p) ==
    /\ phase[p] = "measuring"
    /\ known' = [known EXCEPT ![p] = {}]
    /\ phase' = [phase EXCEPT ![p] = "forgetting"]
    /\ UNCHANGED <<disk, locks, job, hits, strayed>>

\* then a mark at a time,
ForgetMark(p, t) ==
    /\ phase[p] = "forgetting"
    /\ t \in marks
    /\ marks' = marks \ {t}
    /\ UNCHANGED <<blobs, records, temps, locks, phase, memory, strayed>>

\* then complete/ itself, which a mark made meanwhile keeps from going.
ForgetDone(p) ==
    /\ phase[p] = "forgetting"
    /\ marks = {}
    /\ phase' = [phase EXCEPT ![p] = "removing"]
    /\ strayed' = FALSE
    /\ UNCHANGED <<disk, locks, memory>>

\* evict::evict_to takes a blob.
RemoveBlob(p, b) ==
    /\ phase[p] = "removing"
    /\ b \in blobs
    /\ blobs' = blobs \ {b}
    /\ UNCHANGED <<marks, records, temps, locks, phase, memory, strayed>>

\* The store is within its limit, or small enough, or something failed.
EvictEnds(p) ==
    /\ phase[p] \in {"measuring", "forgetting", "removing"}
    /\ exclusive' = None
    /\ phase' = [phase EXCEPT ![p] = "evicted"]
    /\ UNCHANGED <<disk, shared, memory, strayed>>

\* The process is gone: at its end, or killed, or stopped by an error of
\* pekit's own, at any point.  The kernel lets go of its locks; what it was
\* writing stays in tmp/ under a token no process has.
Gone(p) ==
    /\ phase' = [phase EXCEPT ![p] = "closed"]
    /\ shared' = shared \ {p}
    /\ exclusive' = IF exclusive = p THEN None ELSE exclusive
    /\ known' = [known EXCEPT ![p] = {}]
    /\ job' = [job EXCEPT ![p] = [w \in Worker |-> Idle]]
    /\ hits' = [hits EXCEPT ![p] = {}]
    /\ temps' = {Temp(IF x.by = p THEN None ELSE x.by, x.worker, x.blob) :
                     x \in temps}
    /\ UNCHANGED <<blobs, marks, records, strayed>>

Close(p) == phase[p] = "done" /\ Gone(p)

Crash(p) == phase[p] # "closed" /\ Gone(p)

-----------------------------------------------------------------------------

Work(p, w) ==
    \/ \E k \in Key : Look(p, w, k)
    \/ Check(p, w)
    \/ Mark(p, w)
    \/ \E t \in Tree : Make(p, w, t)
    \/ GiveUp(p, w)
    \/ \E b \in Blob : Settle(p, w, b)
    \/ Record(p, w)

End(p) ==
    \/ Finish(p)
    \/ TryLock(p)
    \/ Sweep(p)
    \/ Reshare(p)
    \/ Forget(p)
    \/ \E t \in Tree : ForgetMark(p, t)
    \/ ForgetDone(p)
    \/ \E b \in Blob : RemoveBlob(p, b)
    \/ EvictEnds(p)
    \/ Close(p)

Next ==
    \E p \in Proc :
        \/ Start(p)
        \/ Open(p)
        \/ \E w \in Worker : Work(p, w)
        \/ End(p)
        \/ Crash(p)

Spec == Init /\ [][Next]_vars

-----------------------------------------------------------------------------
(* Properties. *)

TypeOK ==
    /\ blobs \subseteq Blob
    /\ marks \subseteq Tree
    /\ records \in [Key -> Tree \cup {None}]
    /\ temps \subseteq [by : Proc \cup {None}, worker : Worker, blob : Blob]
    /\ shared \subseteq Proc
    /\ exclusive \in Proc \cup {None}
    /\ phase \in [Proc -> Phases]
    /\ known \in [Proc -> SUBSET Tree]
    /\ job \in [Proc -> [Worker -> Jobs]]
    /\ hits \in [Proc -> SUBSET Tree]
    /\ strayed \in BOOLEAN

\* A mark in complete/ says the truth, in every state and so after a crash at
\* any step, even midway through an eviction, until a job that a build left on
\* the pool marks a tree once its process let go of the build's lock, and
\* again from the next eviction on (store.rs: "An eviction removes every mark
\* before it removes a blob").
MarksTrue == ~strayed => marks \subseteq WholeTrees

\* The same said of every mark, as store.rs says it of complete/: "marks each
\* tree found to have every content it names".
MarksNeverLie == marks \subseteq WholeTrees

\* What a build found or made stays whole until it has copied out what it
\* gave, whatever other processes, and the jobs they left, sweep, evict, write
\* or leave half done meanwhile, unless it found it by what such a job marked.
HitsHeld == ~strayed => \A p \in Proc : hits[p] \subseteq WholeTrees

\* A sweep takes no file that a build is writing: what a job has put into tmp/
\* stays there until the job itself moves it or gives up, for as long as its
\* process has had the lock, whatever others sweep meanwhile.
SweepSparesLiving ==
    \A p \in Proc, w \in Worker : Sheltered(p) =>
        \A b \in job[p][w].left : Temp(p, w, b) \in temps

\* A build writes a record only once every content it names is in place, so
\* that a crash before it leaves blobs that no record names, never the
\* reverse.  A job left behind by a build is no exception until its process
\* lets go of the build's lock.
RecordedWhole ==
    [][\A k \in Key : records'[k] # records[k] =>
          \/ records'[k] \in WholeTrees'
          \/ \E p \in Proc, w \in Worker : ~Sheltered(p) /\ Record(p, w)]_vars

-----------------------------------------------------------------------------
(* Every process that waits for the lock gets it.  A process that holds it   *)
(* exclusively only removes files, so it ends; the kernel wakes whoever      *)
(* waits for a lock as it is let go of, so one that could have it again and  *)
(* again has it.  No build is taken to end: its lock is shared.              *)

Fairness ==
    \A p \in Proc :
        /\ SF_vars(Open(p)) /\ SF_vars(Reshare(p))
        /\ WF_vars(Sweep(p)) /\ WF_vars(EvictEnds(p))

FairSpec == Spec /\ Fairness

\* No process waits for ever to open the store, or to share it again after
\* its sweep or its eviction, whatever the others do.
WaitsEnd ==
    \A p \in Proc :
        phase[p] \in {"opening", "swept", "evicted"}
        ~> phase[p] \notin {"opening", "swept", "evicted"}

-----------------------------------------------------------------------------
(* What the store promises a build, whatever the lock and the marks are. *)

Promise == INSTANCE StorePromise
    WITH whole <- WholeTrees, using <- hits, misled <- strayed

KeepsPromise == Promise!Spec
=============================================================================
