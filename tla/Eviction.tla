------------------------------ MODULE Eviction ------------------------------
(***************************************************************************)
(* evict.rs: keeping the store within its limit by GreedyDual-Size.        *)
(*                                                                         *)
(* Builds open the store, put blobs in it and note the records they find   *)
(* or write. As each ends it journals what it noted, adds what it put to   *)
(* the ledger and, if no other process has the store, evicts: the blobs no *)
(* live record names, largest first, then the contents of records and the  *)
(* scratch directories, by priority, until the store is at its low mark.   *)
(* Each blob counts what names it, and a blob is removed as its count      *)
(* comes to nothing.  A build may be killed at any step.                   *)
(*                                                                         *)
(* A blob's numbered copies are blobs no record names.  What an eviction   *)
(* lets go of is a set of pairs, namer and named, taken in any order, where *)
(* the code has a stack of the named.  Marks and materialised trees, which *)
(* go before any blob does, are Store's.                                   *)
(***************************************************************************)
EXTENDS Naturals, FiniteSets, Functions, FiniteSetsExt

CONSTANTS
    Procs,       \* builds, each a process
    Unlimited,   \* those whose PEKIT_CACHE_LIMIT is 0
    Records,     \* keys of records
    Scratches,   \* names of scratch directories
    Blobs,       \* contents, those of files and of trees
    Roots,       \* the blobs each record names itself
    Entries,     \* the blobs each blob names, none but a tree's
    Size,        \* the bytes of each blob and each scratch directory
    Cost,        \* what each record took to make
    Scale,       \* cost_per_byte's 2^20
    Limit,       \* the store's limit
    Low,         \* and what an eviction brings it to
    MaxAdded,    \* bound: the bytes a build puts
    MaxBuilds,   \* bound: the builds there are
    MaxDeaths    \* bound: those killed

ASSUME NamesAssumption ==
    /\ IsFiniteSet(Records) /\ IsFiniteSet(Blobs)
    /\ Records \cap Blobs = {}
    /\ Roots \in [Records -> SUBSET Blobs]
    /\ Entries \in [Blobs -> SUBSET Blobs]

ASSUME SizeAssumption ==
    /\ IsFiniteSet(Procs) /\ IsFiniteSet(Scratches)
    /\ Unlimited \subseteq Procs
    /\ Scratches \cap (Records \cup Blobs) = {}
    /\ Size \in [Blobs \cup Scratches -> Nat]
    /\ Cost \in [Records -> Nat]
    /\ {Scale, Limit, Low, MaxAdded, MaxBuilds, MaxDeaths} \subseteq Nat
    /\ Low <= Limit

VARIABLES
    there,       \* cas/: the blobs the store has
    scratch,     \* scratch/: the directories there
    records,     \* records/: the records there
    kept,        \* eviction.json: inflation, priorities, and the evicted
    journals,    \* usage/: what each build used
    ledger,      \* size: the blobs' bytes, or none
    pc,          \* what each build is about
    noted,       \* what it used
    added,       \* the bytes it put
    opened,      \* builds there were
    deaths,      \* those killed
    phase,       \* what the eviction is about
    seen,        \* the blobs it found
    dirs,        \* the scratch directories it found
    live,        \* the records whose contents it takes for there
    heap,        \* the records and directories it has not evicted
    reached,     \* the blobs live records name at any depth
    named,       \* how many name each blob
    letting,     \* what it lets go of: namer and named
    total,       \* the store's bytes, as it counts them
    state,       \* what is to be kept
    read,        \* the journals it read and has not removed
    lost,        \* ghost: bytes put since the last walk by builds that add nothing
    fresh        \* ghost: records used since they were last evicted

disk == <<there, scratch, records, kept, journals, ledger>>
builds == <<pc, noted, added, opened, deaths>>
memory == <<seen, dirs, live, reached, named, state>>
work == <<heap, letting, total>>
vars == <<disk, builds, phase, memory, work, read, lost, fresh>>

Candidates == Records \cup Scratches

\* The sum of what f gives for the elements of S.
SumOf(f, S) == MapThenSumSet(LAMBDA x : f[x], S)

Bytes(S) == SumOf(Size, S)

\* What r names at any depth in S, the smallest set that has what it names
\* itself and what each tree in it holds.
Closed(C, S) == \A b \in C : Entries[b] \cap S \subseteq C
Reach(R, S) ==
    {b \in S : \A C \in SUBSET S :
        (Closed(C, S) /\ (UNION {Roots[r] : r \in R}) \cap S \subseteq C) => b \in C}

\* The size of what r names at any depth in S, a file two trees hold counted
\* for each.
SizeUnder(r, S) ==
    LET under[b \in S] == Size[b] + MapThenSumSet(LAMBDA c : under[c], Entries[b] \cap S)
    IN  MapThenSumSet(LAMBDA b : under[b], Roots[r] \cap S)

CostPerByte(cost, size) == (cost * Scale) \div (IF size = 0 THEN 1 ELSE size)
Weigh(r, S) == CostPerByte(Cost[r], SizeUnder(r, S))

Edges == (Records \cup Blobs) \X Blobs

\* A record of R, or a tree of T, names a blob.
Naming(e, R, T) ==
    \/ e[1] \in R /\ e[2] \in Roots[e[1]]
    \/ e[1] \in T /\ e[2] \in Entries[e[1]]

NamedOf(R, T, S) ==
    [b \in Blobs |-> IF b \in S THEN Cardinality({e \in Edges : e[2] = b /\ Naming(e, R, T)}) ELSE 0]

Nothing == [inflation |-> 0, priority |-> [c \in Candidates |-> {}], evicted |-> {}]

\* Nobody evicts.
Idle ==
    /\ phase' = "none"
    /\ seen' = {} /\ dirs' = {} /\ live' = {} /\ reached' = {}
    /\ named' = [b \in Blobs |-> 0]
    /\ state' = Nothing
    /\ heap' = {} /\ letting' = {} /\ total' = 0
    /\ read' = {}

Init ==
    /\ there = {} /\ scratch = {} /\ records = {}
    /\ kept = Nothing
    /\ journals = {} /\ ledger = {}
    /\ pc = [p \in Procs |-> "out"]
    /\ noted = [p \in Procs |-> {}]
    /\ added = [p \in Procs |-> 0]
    /\ opened = 0 /\ deaths = 0
    /\ phase = "none"
    /\ seen = {} /\ dirs = {} /\ live = {} /\ reached = {}
    /\ named = [b \in Blobs |-> 0]
    /\ state = Nothing
    /\ heap = {} /\ letting = {} /\ total = 0
    /\ read = {}
    /\ lost = 0 /\ fresh = {}

-----------------------------------------------------------------------------
(* A build. *)

Aside == UNCHANGED <<phase, memory, work, read>>

\* Nobody holds the store's lock exclusively.
Open(p) ==
    /\ pc[p] = "out"
    /\ \A q \in Procs : pc[q] # "evicting"
    /\ opened < MaxBuilds
    /\ opened' = opened + 1
    /\ pc' = [pc EXCEPT ![p] = "in"]
    /\ UNCHANGED <<disk, noted, added, deaths, lost, fresh>> /\ Aside

\* A tree is put after what it holds. A blob another process puts as well is
\* counted by both.
Put(p, b) ==
    /\ pc[p] = "in"
    /\ Entries[b] \subseteq there
    /\ b \in there => \E q \in Procs \ {p} : pc[q] = "in" /\ added[q] > 0
    /\ added[p] + Size[b] <= MaxAdded
    /\ there' = there \cup {b}
    /\ added' = [added EXCEPT ![p] = @ + Size[b]]
    /\ UNCHANGED <<scratch, records, kept, journals, ledger, pc, noted, opened, deaths, lost, fresh>>
    /\ Aside

\* A record found, whether or not what it names is there.
Find(p, r) ==
    /\ pc[p] = "in"
    /\ r \in records
    /\ noted' = [noted EXCEPT ![p] = @ \cup {r}]
    /\ UNCHANGED <<disk, pc, added, opened, deaths, lost, fresh>> /\ Aside

\* A record written, once all it names is in place.
Write(p, r) ==
    /\ pc[p] = "in"
    /\ Reach({r}, Blobs) \subseteq there
    /\ records' = records \cup {r}
    /\ noted' = [noted EXCEPT ![p] = @ \cup {r}]
    /\ UNCHANGED <<there, scratch, kept, journals, ledger, pc, added, opened, deaths, lost, fresh>>
    /\ Aside

Hold(p, s) ==
    /\ pc[p] = "in"
    /\ scratch' = scratch \cup {s}
    /\ noted' = [noted EXCEPT ![p] = @ \cup {s}]
    /\ UNCHANGED <<there, records, kept, journals, ledger, pc, added, opened, deaths, lost, fresh>>
    /\ Aside

Journal(p) ==
    /\ pc[p] = "in"
    /\ p \notin Unlimited
    /\ journals' = IF noted[p] = {} THEN journals ELSE journals \cup {noted[p]}
    /\ fresh' = fresh \cup (noted[p] \cap Records)
    /\ noted' = [noted EXCEPT ![p] = {}]
    /\ pc' = [pc EXCEPT ![p] = "journalled"]
    /\ UNCHANGED <<there, scratch, records, kept, ledger, added, opened, deaths, lost>> /\ Aside

\* Mutant: what was put is forgotten as the build ends.
AddNothing(p) ==
    /\ pc[p] = "journalled"
    /\ added' = [added EXCEPT ![p] = 0]
    /\ pc' = [pc EXCEPT ![p] = "added"]
    /\ UNCHANGED <<disk, noted, opened, deaths, lost, fresh>> /\ Aside

\* Ledger::add, which adds nothing to a ledger that is not there.
AddUp(p) ==
    /\ pc[p] = "journalled"
    /\ ledger' = {n + added[p] : n \in ledger}
    /\ added' = [added EXCEPT ![p] = 0]
    /\ pc' = [pc EXCEPT ![p] = "added"]
    /\ UNCHANGED <<there, scratch, records, kept, journals, noted, opened, deaths, lost, fresh>> /\ Aside

Out(p) == pc' = [pc EXCEPT ![p] = "out"]

\* With no limit, nothing is journalled or added.
Close(p) ==
    /\ pc[p] = "in"
    /\ p \in Unlimited
    /\ Out(p)
    /\ lost' = lost + added[p]
    /\ noted' = [noted EXCEPT ![p] = {}]
    /\ added' = [added EXCEPT ![p] = 0]
    /\ UNCHANGED <<disk, opened, deaths, fresh>> /\ Aside

Alone(p) == \A q \in Procs \ {p} : pc[q] = "out"

TryLock(p) ==
    /\ pc[p] = "added"
    /\ pc' = [pc EXCEPT ![p] = IF Alone(p) THEN "evicting" ELSE "out"]
    /\ UNCHANGED <<disk, noted, added, opened, deaths, lost, fresh>> /\ Aside

\* Killed, or ended by an error, before it adds what it put; or killed as it
\* evicts, what it has done to the disk left as it is.
Die(p) ==
    /\ pc[p] # "out"
    /\ deaths < MaxDeaths
    /\ deaths' = deaths + 1
    /\ Out(p)
    /\ lost' = lost + added[p]
    /\ noted' = [noted EXCEPT ![p] = {}]
    /\ added' = [added EXCEPT ![p] = 0]
    /\ IF pc[p] = "evicting" THEN Idle ELSE Aside
    /\ UNCHANGED <<disk, opened, fresh>>

-----------------------------------------------------------------------------
(* An eviction, by p, the only process that has the store. *)

Evicting(p, at) == pc[p] = "evicting" /\ phase = at

\* Within its limit by a ledger less than a day old.
Trust(p) ==
    /\ Evicting(p, "none")
    /\ \E n \in ledger : n + Bytes(scratch) <= Limit
    /\ Out(p)
    /\ UNCHANGED <<disk, noted, added, opened, deaths, lost, fresh>> /\ Aside

\* The ledger is not there, old or above the limit, the store within it.
Measure(p) ==
    /\ Evicting(p, "none")
    /\ Bytes(there) + Bytes(scratch) <= Limit
    /\ ledger' = {Bytes(there)}
    /\ lost' = 0
    /\ Out(p)
    /\ UNCHANGED <<there, scratch, records, kept, journals, noted, added, opened, deaths, fresh>> /\ Aside

Used == UNION journals

\* Mutant: what was used is weighed, and stays evicted.
WeighedOnly ==
    [kept EXCEPT
        !.priority = [c \in Candidates |->
            IF c \in Used \cap records THEN {kept.inflation + Weigh(c, there)} ELSE @[c]]]

\* What was used is live again, and weighed as now.
Renewed ==
    [kept EXCEPT
        !.evicted = @ \ Used,
        !.priority = [c \in Candidates |->
            IF c \in Used \cap records THEN {kept.inflation + Weigh(c, there)}
            ELSE IF c \in Used \cap Scratches THEN {kept.inflation}
            ELSE @[c]]]

Begin(p) ==
    /\ Evicting(p, "none")
    /\ Bytes(there) + Bytes(scratch) > Limit
    /\ phase' = "unnamed"
    /\ seen' = there
    /\ dirs' = scratch
    /\ total' = Bytes(there) + Bytes(scratch)
    /\ state' = Renewed
    /\ read' = journals
    /\ live' = records \ Renewed.evicted
    /\ reached' = Reach(records \ Renewed.evicted, there)
    /\ named' = NamedOf(records \ Renewed.evicted, Reach(records \ Renewed.evicted, there), there)
    /\ UNCHANGED <<disk, builds, heap, letting, lost, fresh>>

Remove(b) == there' = there \ {b} /\ total' = total - Size[b]

Unnamed == {b \in seen \cap there : named[b] = 0}

RemoveUnnamed(p) ==
    /\ Evicting(p, "unnamed")
    /\ total > Low
    /\ \E b \in Unnamed :
        /\ \A c \in Unnamed : Size[c] <= Size[b]
        /\ Remove(b)
    /\ UNCHANGED <<scratch, records, kept, journals, ledger, builds, phase, memory, heap, letting,
                   read, lost, fresh>>

\* At its low mark already, or else on to the records.
UnnamedGone(p) ==
    /\ Evicting(p, "unnamed")
    /\ total <= Low \/ Unnamed = {}
    /\ phase' = IF total <= Low THEN "saving" ELSE "records"
    /\ heap' = IF total <= Low THEN {} ELSE live \cup dirs
    /\ UNCHANGED <<disk, builds, memory, letting, total, read, lost, fresh>>

Priority(c) ==
    IF state.priority[c] # {} THEN CHOOSE n \in state.priority[c] : TRUE
    ELSE IF c \in Scratches THEN state.inflation
    ELSE state.inflation + Weigh(c, seen)

Lowest(c) == c \in heap /\ \A d \in heap : Priority(c) <= Priority(d)

Inflated(c) == IF Priority(c) > state.inflation THEN Priority(c) ELSE state.inflation

EvictRecord(p, r) ==
    /\ Evicting(p, "records")
    /\ letting = {} /\ total > Low
    /\ Lowest(r)
    /\ heap' = heap \ {r}
    /\ letting' = {<<r, b>> : b \in Roots[r] \cap seen}
    /\ state' = [inflation |-> Inflated(r),
                 priority |-> [state.priority EXCEPT ![r] = {}],
                 evicted |-> state.evicted \cup {r}]
    /\ fresh' = fresh \ {r}
    /\ UNCHANGED <<disk, builds, phase, seen, dirs, live, reached, named, total, read, lost>>

\* Mutant: a tree let go of lets go of its entries, whatever else names it.
LetGoDeep(p, e) ==
    /\ Evicting(p, "records")
    /\ e \in letting
    /\ named' = [named EXCEPT ![e[2]] = @ - 1]
    /\ IF named[e[2]] = 1 THEN Remove(e[2]) ELSE UNCHANGED <<there, total>>
    /\ letting' = (letting \ {e}) \cup {<<e[2], b>> : b \in Entries[e[2]] \cap seen}
    /\ UNCHANGED <<scratch, records, kept, journals, ledger, builds, phase, seen, dirs, live, reached,
                   state, heap, read, lost, fresh>>

\* Mutant: a tree that is removed keeps what it names.
LetGoShallow(p, e) ==
    /\ Evicting(p, "records")
    /\ e \in letting
    /\ named' = [named EXCEPT ![e[2]] = @ - 1]
    /\ IF named[e[2]] = 1 THEN Remove(e[2]) ELSE UNCHANGED <<there, total>>
    /\ letting' = letting \ {e}
    /\ UNCHANGED <<scratch, records, kept, journals, ledger, builds, phase, seen, dirs, live, reached,
                   state, heap, read, lost, fresh>>

\* A blob that nothing names any more goes, and a tree lets go of its entries.
LetGo(p, e) ==
    /\ Evicting(p, "records")
    /\ e \in letting
    /\ named' = [named EXCEPT ![e[2]] = @ - 1]
    /\ IF named[e[2]] = 1
       THEN /\ Remove(e[2])
            /\ letting' = (letting \ {e}) \cup {<<e[2], b>> : b \in Entries[e[2]] \cap seen}
       ELSE /\ UNCHANGED <<there, total>>
            /\ letting' = letting \ {e}
    /\ UNCHANGED <<scratch, records, kept, journals, ledger, builds, phase, seen, dirs, live, reached,
                   state, heap, read, lost, fresh>>

\* Mutant: a directory that a run holds is counted as gone.
EvictHeld(p, s) ==
    /\ Evicting(p, "records")
    /\ letting = {} /\ total > Low
    /\ Lowest(s)
    /\ heap' = heap \ {s}
    /\ scratch' \in {scratch, scratch \ {s}}
    /\ total' = total - Size[s]
    /\ state' = [state EXCEPT !.inflation = Inflated(s)]
    /\ UNCHANGED <<there, records, kept, journals, ledger, builds, phase, seen, dirs, live, reached,
                   named, letting, read, lost, fresh>>

\* A directory that a run holds stays, its priority as it was.
EvictScratch(p, s) ==
    /\ Evicting(p, "records")
    /\ letting = {} /\ total > Low
    /\ Lowest(s)
    /\ heap' = heap \ {s}
    /\ \/ /\ scratch' = scratch \ {s}
          /\ total' = total - Size[s]
          /\ state' = [state EXCEPT !.inflation = Inflated(s), !.priority[s] = {}]
       \/ /\ UNCHANGED <<scratch, total>>
          /\ state' = [state EXCEPT !.inflation = Inflated(s)]
    /\ UNCHANGED <<there, records, kept, journals, ledger, builds, phase, seen, dirs, live, reached,
                   named, letting, read, lost, fresh>>

Evicted(p) ==
    /\ Evicting(p, "records")
    /\ letting = {}
    /\ total <= Low \/ heap = {}
    /\ phase' = "saving"
    /\ UNCHANGED <<disk, builds, memory, work, read, lost, fresh>>

\* Only what is still there is remembered.
Save(p) ==
    /\ Evicting(p, "saving")
    /\ kept' = [state EXCEPT
                    !.evicted = @ \cap records,
                    !.priority = [c \in Candidates |-> IF c \in records \cup dirs THEN @[c] ELSE {}]]
    /\ phase' = "journals"
    /\ UNCHANGED <<there, scratch, records, journals, ledger, builds, memory, work, read, lost, fresh>>

RemoveJournal(p) ==
    /\ Evicting(p, "journals")
    /\ \E j \in read :
        /\ journals' = journals \ {j}
        /\ read' = read \ {j}
    /\ UNCHANGED <<there, scratch, records, kept, ledger, builds, phase, memory, work, lost, fresh>>

Finish(p) ==
    /\ Evicting(p, "journals")
    /\ read = {}
    /\ ledger' = {IF total < Bytes(scratch) THEN 0 ELSE total - Bytes(scratch)}
    /\ lost' = 0
    /\ Out(p)
    /\ Idle
    /\ UNCHANGED <<there, scratch, records, kept, journals, noted, added, opened, deaths, fresh>>

Build(p) ==
    \/ Open(p) \/ Journal(p) \/ AddUp(p) \/ Close(p) \/ TryLock(p) \/ Die(p)
    \/ \E b \in Blobs : Put(p, b)
    \/ \E r \in Records : Find(p, r) \/ Write(p, r)
    \/ \E s \in Scratches : Hold(p, s)

Evict(p) ==
    \/ Trust(p) \/ Measure(p) \/ Begin(p)
    \/ RemoveUnnamed(p) \/ UnnamedGone(p)
    \/ \E r \in Records : EvictRecord(p, r)
    \/ \E s \in Scratches : EvictScratch(p, s)
    \/ \E e \in letting : LetGo(p, e)
    \/ Evicted(p) \/ Save(p) \/ RemoveJournal(p) \/ Finish(p)

Next == \E p \in Procs : Build(p) \/ Evict(p)

Spec == Init /\ [][Next]_vars

-----------------------------------------------------------------------------
(* Properties. *)

Kept == [inflation : Nat, priority : [Candidates -> SUBSET Nat], evicted : SUBSET Records]

\* The shape of what the store and an eviction keep.
TypeOK ==
    /\ there \subseteq Blobs /\ scratch \subseteq Scratches /\ records \subseteq Records
    /\ kept \in Kept /\ state \in Kept
    /\ journals \subseteq SUBSET Candidates /\ read \subseteq journals
    /\ ledger \subseteq Nat /\ Cardinality(ledger) <= 1
    /\ pc \in [Procs -> {"out", "in", "journalled", "added", "evicting"}]
    /\ noted \in [Procs -> SUBSET Candidates]
    /\ added \in [Procs -> Nat] /\ opened \in Nat /\ deaths \in Nat
    /\ phase \in {"none", "unnamed", "records", "saving", "journals"}
    /\ seen \subseteq Blobs /\ dirs \subseteq Scratches /\ live \subseteq Records
    /\ heap \subseteq live \cup dirs
    /\ reached \subseteq seen
    /\ named \in [Blobs -> Nat]
    /\ letting \subseteq (Records \cup Blobs) \X Blobs
    /\ total \in Nat /\ lost \in Nat /\ fresh \subseteq Records

\* The records an eviction has not evicted.
Standing == IF phase = "unnamed" THEN live ELSE live \cap heap

\* What still names b: records that stand, trees that are there, and what is
\* yet to be let go of.
Namers(b) ==
    {e \in Edges : e[2] = b /\ (Naming(e, Standing, reached \cap there) \/ e \in letting)}

\* Each blob's count is of what still names it, at every step of letting go:
\* one too many leaves a blob for ever, one too few takes a blob of a record
\* that stays (evict.rs, named_of and evict_to).
CountsRight ==
    phase \in {"unnamed", "records"} => \A b \in seen : named[b] = Cardinality(Namers(b))

\* An eviction never takes a blob from a record it has not evicted: all that
\* the record names, at any depth, of what the store had is still there,
\* whatever it shares with those evicted (evict.rs, "A blob is removed once
\* no live record names it at any depth").
SparesLive ==
    phase \in {"unnamed", "records"} => Reach(Standing, seen) \subseteq there

\* An eviction ends with a count that is the store's true size, at its low
\* mark, unless nothing but directories that runs hold is left.
ReachesLow ==
    phase \in {"saving", "journals"} =>
        /\ total = Bytes(there) + Bytes(scratch)
        /\ total <= Low \/ there = {}

\* No record is worth less than what was evicted last, so that what is used
\* is kept longer than it would have been (GreedyDual-Size): L is never past
\* a priority kept with it, in eviction.json and so after a crash.
NoneBelowInflation ==
    \A r \in Records : \A n \in kept.priority[r] : kept.inflation <= n

\* A record that a build used after it was evicted is live to the next
\* eviction, though evictions and builds are killed between: its journal
\* outlives every crash until what it says is kept.
UsedAreLive ==
    phase = "unnamed" => fresh \cap records \subseteq live

\* What each build that runs has put and not yet added.
Unadded == SumOf(added, Procs)

\* The ledger is never too small but for what builds that were killed put:
\* with those, and what running builds are to add, it is at least what the
\* store holds (evict.rs, "which can only be too large").
LedgerCovers ==
    \A n \in ledger : Bytes(there) <= n + Unadded + lost

\* docs, 8--maintenance/1--eviction.md: "The ledger can only be too large,
\* never too small, so it never hides a store over its limit", of a machine
\* on which no build is killed and none runs now.
LedgerNeverHides ==
    (deaths = 0 /\ \A p \in Procs : pc[p] = "out") => \A n \in ledger : Bytes(there) <= n
=============================================================================
