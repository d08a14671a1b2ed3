# A model of pekit

pekit builds targets that recipes describe. It evaluates a recipe written in
GCSL, finds the steps its targets need, looks each step up by what it would
read, runs in a sandbox what is not there, and keeps what it gave in a content
store that all pekit processes of a user, and through a remote cache all
machines of a team, share. This directory models the parts of it whose
correctness rests on what happens at once, on what is left behind when
something dies, and on the order in which things are done.

Every definition is of the code under `crates/pekit/src/`; file names below
are relative to it. `PROJECT.json` says, for each definition, which lines.

## The system

| part | state it keeps | operations | what is hard about it |
|---|---|---|---|
| content store: `store.rs` | `cas/`, `complete/`, `records/`, `tmp/`, the file `lock` | open, find a record, find a tree complete, mark it, put a tree, settle, record | several processes at once; death between any two steps |
| sweep: `sweep.rs` | what it holds the lock for | remove what dead builds left in `tmp/`, `steps/`, `sandboxes/` | what is dead's and what is being written look alike; a lock that is let go of to be had in another way |
| eviction: `evict.rs` | `eviction.json`, `usage/`, `size`, and in memory a heap, counts and a total | journal what a build used, keep the ledger, choose and remove blobs | counts of what names a blob; death between saving and clearing; priorities that must not fall behind |
| steps: `engine.rs` (`claim_name` to `keep_record`), `receipt.rs`, `record.rs` | names, holders of names, records by receipt, manifests by base | name, claim, share, look up, run, key by what was read, record | who holds a name fails; order of starting; contexts that are not known to be read yet |
| engine's loop: `engine.rs` (`drive`) | units, the graph, three counters of what is out | run units, demand, start, take what the pool did, try again, give up | one thread that blocks on counters a dozen handlers keep; deciding that nothing more can happen |
| pool: `pool.rs` | a queue of jobs and one of what they came to | do a job | results come in any order; never joined |
| remote cache: `remote.rs` | whether a call failed | find a record and what it names, write a record and what it names | calls that fail; a cache that drops things; several builds merging one manifest |
| programs' own cache: `programs.rs`, `engine/programs.rs` | each step's view and the digests of what its programs may write | key, find, place, run, record, fold | what is known until the next effect only; secrets bound between two programs |
| scratch directories: `scratch.rs` | `scratch/` and a lock file beside each | hold, leave, evict | two runs that want one; an eviction meanwhile |
| materialised trees and compositions: `store/trees.rs`, `layers.rs` | `trees/`, and in memory what was linked and made | make once, mount, link, compose, forget | a race to make one; two files that must not be one; an eviction killed |
| overlay sandboxes: `layers.rs`, `sandbox.rs` | layers, whiteouts, opaque marks | what programs do through the kernel; GCSL's reads and writes of the layers | two views of one tree, written by both |
| workspace stamps: `store.rs`, `engine.rs` | a file's stat and digest, in memory and in `seen/` | trust or hash again, keep | a file changed within the clock's tick; a stamp that outlives its blob |
| exposure: `exposure.rs` | what waits to be exposed | defer, expose, drop | the last of a path; what may read it first |
| fetching, unpacking: `fetch.rs`, `git_fetch.rs`, `unpack.rs` | turns within a process | fetch, unpack once, record | the walk and the mark (in `Store`) |
| dependencies: `lock.rs`, `cli.rs` | `pekit.lock`, `.gcsl/libraries/`, a clone | pin, restore, load, check | several commands, death midway, and edits between |
| targets and queries: `target.rs`, `query.rs` | none | names and globs to definitions; what a target reads | what is unknown must not be taken for no |
| sandboxes: `sandbox.rs`, `host.rs`, `platform.rs` | a step's directory | stage, run, collect | outside the program: bubblewrap and the kernel |
| loading, secrets, releases, command line, events | none that outlives a command | parse, hash, ask git, show | sequential |
| GCSL's evaluator | units, memoised calls | | another repository's: known by what `engine.rs` calls |

How they meet: the engine's one thread owns all of a build's state, and
reaches the store directly and by the pool's threads. What the pool does comes
back over a channel; only the store, shared with other processes, and the
remote's `down` flag are touched by several threads. Processes meet only in
files and in the file lock of the store.

What makes each correct, in a line:

- store: a record is of what is there, a mark tells the truth, and a build
  keeps what it found until it ends;
- sweep and eviction: what a process there uses is not taken, the store gets
  small enough, and counts are of what names;
- steps: each is given what its own run would give, and no directory is two
  steps' at once;
- loop: a build ends, gives up only when it must, does nothing twice, and a
  target that fails fails alone;
- remote: what goes either way is whole before it is named, and a cache that
  fails costs a build neither its result nor its end;
- programs' cache: a step cannot tell whether a program ran or was found, and
  no secret is kept;
- materialised trees: an instance is whole and stays as it is while anyone
  builds, and no two files of a composition are one;
- overlay sandboxes: programs and GCSL see one tree, as a copy would be;
- stamps: a file taken to be what it was, unread, is;
- lock: a strict build loads what is pinned, and what is pinned is what the
  imports reach.

## Modules

Ten components, each a module, its instance for TLC, and for eight of them their
proofs; for three an abstract specification of what they promise, which the
detailed one is checked to implement. Each module holds, just before the action
it is named after, the mistakes its properties are to notice: definitions no
specification uses.

### `Store`, `StorePromise`, `MCStore`, `StoreProofs`

`Store` is the content store as the processes of a user share it. `blobs`,
`marks`, `records` and `temps` are `cas/`, `complete/`, `records/` and `tmp/`,
and outlive a process; `known`, `job` and `hits` are in its memory, and do not.
`shared` and `exclusive` are the file lock. A process goes through
`Start`/`Open` (`Store::open`), work on its threads, `Finish` (what
`build_roots` does once `Run::drive` is back), `TryLock`/`Sweep`/`Reshare`
(`sweep.rs`), again `TryLock`, then `Forget`/`ForgetMark`/`ForgetDone`/`RemoveBlob`
(`evict.rs`), `Reshare` and `Close`; `Crash` may come between any two. A thread
looks a record up (`Look`), walks what it names (`Check`: `holds_tree`,
`complete_by`), marks it (`Mark`), or makes what is missing in `tmp/`
(`Make`), moves it into place file by file (`Settle`) and records it
(`Record`). Trying for the lock exclusively lets go of the shared one, whether
it is had or not, as converting a `flock` does: that is one step, and sharing
it again another.

A walk is one step. It reads blobs one by one, but none goes while its process has
the lock it opened with, and one that comes meanwhile only makes more complete.
(The walk of a job left behind may overlap an eviction, and take for whole a tree
of which no time saw all; here it finds what is whole as it walks, and
may lie once it marks that, which is the same to everybody else.) Which blobs
an eviction takes is any: `Eviction` says which.

`StorePromise` is what the store is for, with no lock, mark or `tmp/`: what a
build uses is there, and is lost only while nobody uses anything, unless the
store was misled. `Store` implements it (`KeepsPromise`), the whole trees being
those whose every content at any depth is there.

`drive` returns once every target is done, and nothing joins the pool. So a
target that fails leaves jobs behind, which go on, and queued ones begin, while
their process sweeps and evicts, until it is gone (`Running`); what they give,
nobody takes (`Gives`). From its first `TryLock` on a process has let go of the
lock it opened with, even where it has one again; before it, it is `Sheltered`.
A job of one that is not may do what the store must not:

- mark a tree that it walked before its own process, or another, forgot the marks
  and took a blob of it. That mark lies, until the next eviction forgets it;
- record what was just taken. That costs nothing: who finds a record walks what it
  names, or has it marked;
- have what it writes to `tmp/` swept by another process, which has the store to
  itself. Then its flush or rename fails, and it records nothing (`GiveUp`).

All of it is in the model, and each property says what is so with it. What a job
of a sheltered process does is right without exception (`SweepSparesLiving`,
`RecordedWhole`). Of marks, and of what builds find, the exception is `strayed`, a
history variable no action's guard reads: a job of a process not sheltered made a mark,
and no eviction has forgotten the marks since. Until then, and again after,
no mark lies and no build loses what it uses (`MarksTrue`, `HitsHeld`); `misled` of
`StorePromise` is `strayed`.

### `Claims`, `MCClaims`, `ClaimsProofs`

`Claims` is what happens to each step from when the graph holds it (`Meet`:
`name_new_steps`) to its result: whether it may start, whether it has its name
or shares a holder's, waits for it or is named apart (`Start`, `Hold`, `Wait`,
`Share`, `Apart`: `start_step`, `claim_name`), how it is looked up by each set
of contexts its manifest has, in the store and then in the remote cache
(`Find`, `Miss`, `AskedManifest`, `AskedRecords`), what its run is keyed by
(`Succeed`, `Kept`: `read_receipt`, `keep_record`) and remembered by
(`Remember`). `RecordElsewhere` and `RememberElsewhere` are other builds and
the remote cache, and `NextBuild` another build of the same store, whose steps
start in another order or in other contexts.

Digests stand for what they are of: two receipts are one where all they hold
is. `Identity` takes what a step is given for its result whole once it has one,
and for its giver's name before; the code's takes files in it by their paths
alone, so that it tells apart a little less. A run is a function of what it reads, which is what pekit asks of recipes
and what `RunsAreFunctions` says; whether *pekit* treats it as one is what the
module is about.

### `Engine`, `MCEngine`, `EngineProofs`

`Engine` is the loop that `Run::drive` is. The code of each unit is a sequence of
what the engine sees of an evaluation: nodes made, nodes stopped for, memoised
calls begun and ended. `phase` is where in a round it is: it runs each unit that
may run (`Pick`, `RunUnit`), demands what is waited for (`Demand`), starts what is
ready (`StartNode`), and takes one result of the pool (`Take`) or all that are
there (`Drained`), then decides whether anything happened (`Round`), and else
gives up (`GiveUp`). `inFlight`, `background` and `uploads` are the code's
counters, `jobs` and `results` the pool's two channels. `TryAgain` is a retry,
with the unit forgotten. `waits` is what a target's unit stopped for
(`Main::Paused`): a unit that runs again may stop for more.

The code of units is any that GCSL's evaluation can show the engine:
`NodesAreOwn` says that steps make no steps, and that a step's unit stops for
effects of its own, one at a time; `NodesAreMadeInOrder` that a node is made of nodes
made before; `CallsAreWhole` that calls end, are within each other, and, being
functions, make the same nodes in whichever unit they run.

### `Eviction`, `MCEviction`, `EvictionProofs`

`Eviction` is the whole of `evict.rs`: builds journal what they used and add
what they put to the ledger (`Journal`, `AddUp`), try for the store
(`TryLock`), and evict: unless the ledger is trusted (`Trust`) they walk the
store (`Measure`), read the journals, weigh records, drop what no live record
names, largest first (`Begin`, `RemoveUnnamed`, `UnnamedGone`), then evict the
lowest priority and let go of what it named, blob by blob (`EvictRecord`,
`LetGo`, `EvictScratch`), save `eviction.json` and remove the journals that
were read (`Save`, `RemoveJournal`). Any step may be the last (`Die`).

### `Remote`, `MCRemote`, `RemoteProofs`

`Remote` is a record's way between stores by the cache, and the manifests
beside the records. Each step's job on the pool goes by its own steps: the
manifest is asked for and merged (`AskFound`, `MergeRead`, `MergeWrite`), the
record and what it names that the store lacks (`Get`, `Read`), and the record
is written last (`StoreRecord`); or what a record names and the cache lacks is
written (`Send`, `Put`) and the result last (`PutResult`). Reading a manifest
and writing it are two steps here, on the engine's thread as on the pool's,
since no lock is held between. `CallFails` may come at any call, `StreamFails`
at any stream, `Drop` at any time.

`Claims` takes the manifest's update for one step and `Remote` takes
keys for what they are: each leaves to the other what the other is about.

### `Programs`, `ProgramsPromise`, `MCPrograms`, `ProgramsProofs`

`Programs` is the cache of single programs within a step. A run is a step's, attempt
after attempt (`Begin`, `End`, `Fail`: a fresh sandbox each, all that was
its dropped). Its code reads contexts, which stage files or bind a secret
(`Read`, `ReadFails`: `StepSandbox`), sends effects that write (`SendWriter`,
`Wrote`: `program_before`, `program_folded`), and programs, which are found or
recorded as long as `on` says (`SendProgram`), and else just run (`SendPlain`).
A thread makes the key, of the view, what was staged and the two trees the
program can write, hashed unless they are `known` (`Key`: `exec_key`), looks
for a record, places its trees beside and then in place (`Beside`, `Place`:
`replay`), or runs the program (`Run`) and records it (`Keep`: `put_record`).
`Evict` takes contents, between builds, and leaves records. `made` is a ghost:
what really made what the program sees, of which `view` is the code's account.

`ProgramsPromise` has no cache: each program runs in its step's world. That
`Programs` implements it (`Transparent`) is that the cache cannot be told.

### `Trees`, `MCTrees`, `TreesProofs`

`Trees` is `trees/` and the compositions that mount what is there. A file on
the host is its node: a blob, a numbered copy of it, or a file of a step's own.
`StageTree` is `StepSandbox::stage`, `PlaceFile` and `PlaceTree` are
`place_file` and `place_tree`, with `Placing` and `Bases` choosing which copy a
file links; `Make` and `Rename` are `materialise_tree_into` and the rename into
place, one process's own making locked by instance (`Free`), another's winning by
being there first (`InPlace`). `Evict`, `Forget`, `Forgotten`, `RemoveBlob` are an
eviction by a process that has the store alone. `MayDie` says where processes
are killed: in `trees_composed` anywhere but as they forget instances, which is
what `trees_killed` is about.

### `Overlay`, `SandboxPromise`, `MCOverlay`

`Overlay` is a sandbox over a directory, with a tree mounted in it as an
overlay of its own. The kernel's half (`View`; `Write`, `MakeDir`, `Unlink`,
`Move`) is external, as overlayfs's documentation has it and the code takes it
to be: copying up, whiteouts, opaque directories. The program's half is
`Resolve` with `MergeInto` (`Layers::resolve`, `merged`, `merge_into`), what GCSL
is sent to for a path, and `WriteTarget` with `WriteFile` and `WriteDir`
(`write_target`), where it writes. `SandboxPromise` is a copy of the
directory; `AsACopy` is that the layers implement it.

### `Stamps`, `MCStamps`, `WorkspaceProofs`

`Stamps` is what lets a build put a file without reading it. A stamp is the file's
node and change time, of a clock so coarse that much happens in one tick; size,
mode and modification time are left out, since an edit may keep them. `BeginBuild`
reads `seen/` (`workspace_stamps`), `Again` is one more put by what the last saw,
`Look` and `Read` are `file_seen` before and after it decides to read, `End` is
`keep_workspace_stamps`. Files are edited in place, replaced by nodes just freed,
renamed, swapped with the directories they are in, and blobs evicted, at any time
between. `Swaps` lets directories be renamed even between `Look` and `Read`, where
the stamp of one file is noted with the contents of another.

### `Lock`, `MCLock`, `WorkspaceProofs`

`Lock` is `pekit.lock`, `.gcsl/libraries/` and the clone in the cache directory,
as commands at once use them: `pekit lock`, with `--update` or not (`LockNext`,
`Pin`, `Drop`, `Write`: `lock::lock`), and builds (`RestoreNext`: `restore`;
`Load`: `load`; `Check`: `check_strict`). Both export a library by
the same steps (`Cached`, `Clone`, `Fetch`, `Archive`, `Remove`, `Rename`:
`cached`, `fetch`, `export`). `Fail` is an error, or a kill, anywhere, and
`Remove` may leave half a library, as `remove_tree` killed does. Others push
commits, edit the workspace's imports and libraries, remove libraries, and pull a
lock. `calm` are the commands since whose begin nobody else changed the
workspace: what is promised is promised to them.

## Runs

| run | question | instance | states |
|---|---|---|---|
| `store` | is the store right, whoever dies when, and with jobs left behind? | 2 processes of a thread each, a record, a tree of a file | 0.3 M |
| `claims_five` | is naming and sharing right in every order? | 5 calls of 2 functions, 3 contexts, one build | 26 k |
| `claims_store` | is what is given right, with others recording? | 4 calls of 2 functions, one of which keeps a secret, 2 builds, which use the store or compare, others recording, a remote cache | 0.8 M |
| `engine_build` | does the loop end, doing each thing once? | 3 targets, 3 steps, 4 effects, 3 shared calls | 0.2 M |
| `eviction_builds` | are counts, order and ledger right? | 3 builds, one with no limit, 2 records that share, 3 blobs, a scratch directory, a death | 1.7 M |
| `remote_machines` | is all whole, both ways, whatever fails? | a build of 2 steps and one of a step on another machine, a drop | 0.5 M |
| `programs_found` | can a step tell a program found from one run? | 2 runs, 2 attempts of 2 effects, 3 programs and an effect that writes, a context, an input, builds of every mode | 2.6 M |
| `trees_composed` | are instances whole and files apart? | 2 processes, 2 steps, a tree mounted and one linked, 2 contents, a link that fails, 2 deaths or builds' ends | 1.4 M |
| `trees_killed` | and if an eviction is killed as it forgets? | the same, killed there too | violated |
| `overlay` | are a sandbox's two views one, as a copy's? | 3 directories with a tree mounted in each, one content to write, any number of writes | 39 k |
| `stamps` | is an unread file what it was? | 2 builds, 2 paths, 2 contents, 3 nodes, 3 ticks | 1.5 M |
| `lock` | is what is pinned what is reached, and loaded? | 2 commands, 2 libraries, 2 commits, 2 changes by others | 5.6 M |

The bounds, and why they do:

- *Two processes and a tree of one file* (`store`): all that is
  shared is the lock, of which one process that asks and one that has it are
  all the cases, and `cas/` and the marks, for which it matters that a tree and what
  it names come and go apart. That a tree may be within another, marked or not, is
  checked of the safety properties by `MCStoreNested.cfg` (2.3 M states, up to
  which process is which). The proofs need neither bound.
- *Five steps* (`claims_five`): a holder, one that shares with it, one named
  apart from it, one apart from that (the second number), and one that is
  given another's result. Two reads differ by a context's value, so that
  what is read is not known before. No step of this build is found: what is looked up,
  `claims_store` is about, where a build finds what the one before it, the others
  or the cache recorded, and a step that fails passes on its name.
- *Two calls, each begun by the target that waits for the other's*
  (`engine_build`): the smallest cycle; with a step that shares a name, one that
  shares a call, one that is tried again, and one whose time runs out, each
  cause of a wait is there at once.
- *`MaxAdded`, `MaxBuilds`, `MaxDeaths`* (`Eviction`): bytes put by a build,
  builds and deaths. With three builds one evicts what a second put and a
  third uses again. Sizes and costs are chosen so that a shared file is
  counted for two records and the priorities of two records cross.
- *`MaxDrops`* (`Remote`): what the cache drops. One is enough for any
  property to fail of the next read; the proofs have no bound.

- *Two effects, two attempts* (`programs_found`): a program that follows an
  effect that writes, or another program; and a second attempt, by the same run
  or one of another build, that finds what the first recorded. Results and
  trees are counted on by what programs do to them, so that different worlds
  give different ones; one cannot be kept.
- *Three files and trees* (`trees_composed`): of one content as the store's
  blob, as a copy and in a mounted tree, in each order. The second step
  competes for the instances, in another process or the same.
- *`MaxClock` = 2, three nodes* (`stamps`): an edit before, in and after the
  tick of a put, and a node that comes back at the same path by way of another. The
  proofs have no bound.
- *`MaxChanges` = 2, `MaxCommands` = 2* (`lock`): a change before a command and
  one during it; a command on what a killed one left. Two commits whose
  imports differ, so that updating drops a library and a lock pulled adds one. Two
  commands cannot leave a library half removed for a third, undisturbed one to
  find: one that was edited, or removed by others, is there to be found instead,
  and that a library in part is dealt with as these are rests on the
  theorems, which have no bound.

Calls that fail need none: a job that fails is over.

Runs stop (`CHECK_DEADLOCK FALSE`) where every build, attempt or command there
may be is over, or no change is left to others; that of `Store`, whose processes
start again, and that of `Overlay` never do, and are checked for it.

Configurations no run of the list uses show by hand what is beside it: that a
promise fails (below), that the store is right of nested trees
(`MCStoreNested.cfg`), and, in `MC*Types.cfg`, the type invariants of `Claims`,
`Engine` and `Eviction` (those of all modules with theorems are proved)
with properties that follow from little else (`ApartIfDifferent`, `GivenFirst`,
`ResultsStay`, `NoneBelowInflation`).
`tlc -config MCLockBuilds.cfg MCLock` is one.

### What they found

The first is a run; the others are had by the configuration named.

- **Half an instance is taken for whole** (`trees_killed`, `InstancesWhole`).
  `forget_materialised` removes `trees/` in place. Killed midway, it leaves an
  instance with files missing, which `materialised` takes as it is, a directory
  being there, where `store/trees.rs` says that one there is complete.
- **Steps that wait for each other run for ever** (`MCEngineSteps.cfg`, `Ends`).
  `advance_steps` answers whether a step was there to run, which `drive` takes
  for progress. Two steps that each need the shared call the other has begun
  are woken in every round by having been run in it, so the round in which
  nothing moved, and the error that `engine.rs` and the documentation promise, never
  come. Of two targets, or a target and a step, it does: a target that runs again
  and stops is no progress.
- **A job left behind marks what its own eviction takes** (`MCStoreStraggler.cfg`,
  `MarksNeverLie`). A target that fails ends the build while other targets' jobs are
  on the pool, and nothing joins the pool's threads. One that is walking an
  archive's tree marks it after `forget_complete` and the removal of a blob of it:
  the mark stays, and later builds take the tree for whole, until the next
  eviction, though `store.rs` says that `complete/` marks each tree found to have
  every content it names, and that an eviction removes every mark before it removes a
  blob. One process is enough. `MarksTrue` is what is so all the same.
- **A composition of a composition has a file twice** (`MCTreesTwice.cfg`,
  `Distinct`). With the files of a finished composition composed again,
  two of them may be one node.
- **Two strict builds begun at once in a new checkout** (`MCLockBuilds.cfg`,
  `StrictAlways`). Both put back a library that is not there; one's export
  removes what the other put there, and may be between removing and renaming
  as the other loads. What that one loads is not what is pinned, and it passes,
  since what differs was looked at before. `StrictIsPinned` leaves such
  builds out: it is of builds that nobody else disturbs.
- **A library within another** (`MCLockNested.cfg`, `LockedAsPinned`). Where one
  library's path is within another's, exporting or dropping the outer
  removes the inner, which stays pinned.
- **A manifest loses a set** (`MCRemoteBeside.cfg`, `SetsKept`). `remember_reads` and
  `merge_remote_manifest` read a manifest and write it whole, with no lock;
  of two at once the later wins, and the other's record is not found again.
  The comments say neither loses a set.
- **A target that fails takes another with it** (`MCEngineStatic.cfg`,
  `GivesUpRightly`). Under `--no-dynamic` a unit that stopped inside a
  memoised call is never run again, so the call is never ended, and a second
  target that needs it makes `drive` fail the whole build with "wait for each
  other's shared results".
- **A failed staging is not a failed program, if it is found**
  (`MCProgramsUnstaged.cfg`, `NoneWithoutInputs`). Where staging what a context gave
  failed, a program that runs fails with it; one found is placed all the same.
- **A file swapped as it is read** (`MCStampsSwapped.cfg`, `StampsTrue`). A
  directory renamed between the look at a file and its reading has the stamp of
  one file noted with the contents of another.
- **A step's path depends on the order it started in** (`MCClaimsPath.cfg`,
  `SamePath`), where `receipt.rs` says it does not.
- **A build without a limit hides what it put** (`MCEvictionUnlimited.cfg`,
  `LedgerNeverHides`): `evict` is not called, so nothing is added to a ledger that
  the documentation says is never too small.

Half an instance and the mark of a job left behind can make a later build take for there
what is not; a file that is there twice and two strict builds show a program
what it should not see; steps that wait for each other hang a build of
recipes that are wrong; the others cost work, or a build that should have gone on.

### Fairness

- `Store`: strong for having the lock (`Open`, `Reshare`), since the kernel wakes
  who waits for a lock each time it is let go of; weak for `Sweep` and
  `EvictEnds`, which only remove files. No build is taken to end, since a shared
  lock blocks no other shared one.
- `Claims`: strong for each step's way to its result, since every round of
  `drive` tries every ready step anew, and a step that is not ready in one
  round may be in the next.
- `Engine`: weak for the loop's thread, and for the pool doing some job it
  has: the channel is first in, first out, but nothing rests on that.
- `Programs`, `Trees`, `Overlay`, `Stamps` and `Lock` state no liveness: what
  they wait for is a lock within a process, or nothing.
- `Remote`: weak for *some* thread that may go on: no thread waits for another,
  so none need be favoured. Each call is taken to come to an answer or an
  error. The code has a limit for connecting only (`CONNECT_TIMEOUT`), so a
  server that takes a call and never answers it holds a thread, and the
  build's end, for as long as the connection stands: `AllEnd` does not cover
  it.

## Proofs

For any constants that satisfy the modules' assumptions (which say what the
code's types do: entries are blobs, steps are calls, a run is a function of
what it reads). TLC checks each inductive invariant's parts that are
properties of a run; the invariants themselves were run by TLC before they
were proved.

- `StoreProofs`: `Types`, `MarksAreTrue`, `HitsAreHeld`,
  `SweepsSpareTheLiving`, `RecordsAreWhole`, `StoreKeepsPromise`, of builds that leave
  jobs behind, with the exceptions the properties name. A blob goes only while
  one process holds the lock alone, past `forgetting`; so the invariant
  (`StoreInv`) says that an exclusive holder is alone in holding it, and that no
  process is sheltered then (`LockRight`), that only a build that goes on uses
  anything (`BeginsAfresh`), that once blobs go no mark is left but astray
  (`NoMarksLeft`), that what a sheltered process is putting is in place or in
  `tmp/` (`PutsAreThere`), and that, unless a mark strayed, all that claims a tree
  to be whole is right: marks, hits, and of sheltered processes what is known
  and is about to be marked (`TruthsTold`). Of what the jobs of the others know and
  are about nothing is said, but that they take no blob, and that a mark of theirs
  strays. Trees of any depth are dealt with by the
  smallest-set definition of a walk, which needs no induction. The refinement
  maps each step to `Gain`, `Use`, `Release`, `Lose`, `Mislead`, `Recover` or a
  stutter.
- `ClaimsProofs`: `StepsAreGivenTheirs`, `DirectoriesAreApart`,
  `TheFunctionalAreNotBlamed`, `RecordedStepsAreFound`. Since a run is a
  function of what it reads, a receipt by the contexts another run read is the
  receipt of one's own run; so every record is right for whoever finds it
  (`RecordsRight`). A name has one holder, which lets it go only by failing,
  before anyone was given its result (`OneHolder`).
  `AlikeStepsRunOnce` is of names. A name is apart by what tells the step from
  a holder, and holders that ran keep their names (`ApartRight`, `RanHolds`);
  so two steps that no read tells apart were, as far as both were named
  apart, named apart from the same (`AlikeAgree`), and had one of them run
  under a name the other would have come to, it would have shared.
- `EngineProofs`: `CountersCountWhatIsOut`, `EffectsRunOnce`,
  `StepsAreGivenFirst`, `TargetsFailAlone`, `ResultsAreKept` and
  `EngineTypes`, from one invariant (`IInv`): whose turn it is, that each node
  which waits is at just one place (to be started, on the pool, or come back),
  that each counter is of its set, by which none goes below nothing
  (`Positive`), that what a unit is past is made (`Made`), and that a target
  which failed met what failed (`Alone`).
  `BuildsGiveUpRightly` is of builds that start steps as they go, and needs more
  (`KInv`), since it is about a round in which nothing moved. Who has begun a
  call is in it and may go on (`Holders`), for calls are within each other, so
  that a unit done has ended its own; who waits, waits for a call begun
  (`Awaited`); and as long as nothing moved no step ran (`StepsStill`), no target
  that paused was given anything (`Stopped`), and what targets want is
  under way or is to be started (`Stirring`): a wanted node all of whose own nodes
  came to something is started, by `NodesAreMadeInOrder` there is one, and
  starting is moving. So at the end of such a round none wants anything, and the
  units that are left wait, each for one that waits. Under `--no-dynamic`
  (`Mode = "static"`) this is false, as above, and a query may give up with
  nodes it does not start.
- `ProgramsProofs`: `ProgramsRecordsAreTrue`, `WhatIsKnownIsTrue`,
  `ProgramsKeepPromise`, `SecretsAreKept`, `ModesAreKept`. While programs may be
  found the view is all that was made and the digests known are the trees'
  (`Followed`), which holds only between effects; so a key is all that its
  program sees (`KeyIsRight`), and what is recorded by it, or found, is true of
  every world of that key (`FoundIsRight`). The refinement maps a program's run, and
  the last step of placing one found, to the promise's `Program`; the key,
  the trees placed beside, and evictions stutter. What a found one gives is all
  there though contents go between builds, since a build holds what it found
  (`HInv`).
- `EvictionProofs`: `CountsAreRight`, `LiveRecordsAreSpared`,
  `UsedRecordsAreLive`, `EvictionsReachLow`, `LedgersCover`,
  `LimitedLedgersNeverHide`. The counts are not inductive alone. The invariant
  adds: types (`Named`), that nobody else is in while one evicts (`Exclusive`),
  that what is counted is there until its count is nothing (`Losing`), that what
  live records reach is closed under entries (`ReachedIsClosed`), that nothing is
  let go of before records are evicted (`NothingLetGo`), that what goes first is
  what nothing reaches (`UnnamedIsUnreached`), and that a pair being let go of has
  a namer that is gone (`LettingGo`). `SparesLive` follows from the counts: what
  is gone of what a record reaches would be named by something that stands. For
  what was used (`UsedIsJournalled`): of the records used since they were evicted,
  those that `eviction.json` says are evicted are in a journal; what an eviction
  has in memory says none of them is, and `eviction.json` says none is before the
  first journal goes. A kill at any step leaves the first of these. Bytes are sums
  over finite sets, defined by a recursive function of the set. That a sum is
  there, and what one more changes of it, is proved by the smallest set of which
  it would be false, which a theorem of the library gives without an operator for
  its parameter; for this processes and scratch directories are taken to be
  finitely many. An eviction's total is what there is at each step
  (`TotalIsTrue`). One that ends above `Low` has no record left and nothing to let
  go of; all that is there is named by then (`OnlyNamedLeft`), so by a tree that
  is there. But of blobs put in order, each after what it names (`PutInOrder`),
  one is named by no other, so none is left (`BareAtLast`). What is lost to a
  ledger is what the killed had not added (`NothingLost`), and where every build
  has a limit there is nothing else, which is `LimitedLedgersNeverHide`, with that
  as its hypothesis.
- `RemoteProofs`: `Types`, `RecordsAreWhole`, `ResultsAreWhole`,
  `RecordsAreUploaded`, `AloneStoresKeep`, `FailuresAreFew`. A record is
  written long after its contents, by a thread that holds it meanwhile; so the
  invariant says what each has seen to of what it holds (`InHand`): all the
  store lacks is wanted, all the cache lacks is wanted, and a run's contents
  are there before its record. Others only add, but for `Drop`, after
  which results promise no contents. That a build which is over has uploaded is
  `WillUpload`, of how far each upload has come: what a run made is recorded
  before it is queued, and an upload past its record has a result; the
  manifest it merges first names nothing, so no stream of it can end it. A store
  that one step uses keeps its sets since what that step read of the manifest
  is still so as it writes (`HasSets`). And once the cache is down only calls
  under way may fail, each on a thread of its own (`FailuresBounded`).
- `TreesProofs`: `InstancesThereStay`; `InstancesThereAreWhole`, where none is
  killed as it forgets instances (`"forgetting" \notin MayDie`); and
  `CompositionsDistinct`, where besides no composition is composed again
  (`~Again`). Without either it is false, as `trees_killed` and
  `MCTreesTwice.cfg` show; the deaths left in are those anywhere else. Instances
  stay since only a process that has the store alone takes from them, and what
  is renamed into place was not there. That a composition's files are apart is
  of the numbers it gives: its copies of a blob, and those in instances
  that stand for such, are numbered below what it links next
  (`PlacedUnder`), and an instance it mounts has none of them, its
  numbers being counted from there on (`MountCounted`); a file of a step's own is in
  one place, of one composition, one making or one instance (`OwnedOnce`). For
  what is mounted to be what was counted, the instances it is made of must have
  stayed, for which `WInv` is part of the invariant (`CInv`).
- `WorkspaceProofs`, of `Stamps`: `StampsAreTrue`, `PutsGiveWhatIs`, without
  `Swaps`. A note is only made of a stamp older than its put, so older than any
  change since; so a node that still has that change time still has what was read,
  if what was read was of that node. That is `NotesSound`, and of a file looked at
  and not yet read, that its node, unchanged, is still at its path, `WorkSound`: a
  rename changes the node it moves, and only a directory's does not, which is why
  `Swaps` must not be.
- `WorkspaceProofs`, of `Lock`: `Types`, `LocksArePinned`,
  `StrictBuildsArePinned`, where no library is within another (`Flat`). Since a
  calm command began nobody else has changed the workspace. So of a calm build
  (`Restoring`) each pinned library is yet to be seen to, found to differ, being
  exported, or as pinned; when it is checked only the last is left. Of a calm lock
  (`Following`) each library pinned so far is at its commit, what is seen or yet
  to be seen is closed under what the pinned import, but for what is yet to be
  pinned, and every closed set has all of it, which is how `Reached` is defined:
  no induction is needed. The pins' commits are never 0, the mark of one to be
  found, once an export has come as far as its archive (`Shape`).

Only model-checked: liveness (`WaitsEnd`, `Settles`, `Ends`, `AllEnd`), which the
prover does not reach; `NoneBelowInflation`, that
what an eviction goes by only grows, which orders evictions and on which nothing
proved rests; and `ReadsAgree` and `AsACopy` of `Overlay`, whose `MergeInto` is
recursive, as the code's is: what it gives for every path is an induction over
data, and GCSL's writes are guarded by what it gives, so that the refinement rests
on it too.

## What is left out

- Jobs left behind, in any module but `Store`: `Eviction`, `Programs` and
  `Trees` take a build's threads to be done as it evicts, so what such a job
  adds to the store after its build's journal, finds in the contents being taken, or
  makes in `trees/` and mounts meanwhile is not covered by what they show.
- When a query gives up, which it may with nodes it does not start:
  `GivesUpRightly` is neither run nor proved of queries.
- In `Store` to `Remote`: hashing (a digest is what it is of), links and copies of
  blobs, modes, clocks; a walk that fails midway; how archives, trees and
  messages are encoded; `Unlimited`'s text; how outputs are copied out; two runs of a
  reproducibility check, which are two builds; shared results in the naming of
  steps, and so the error that ends a build where a step that holds a name
  waits for a shared result whose own target waits for that name
  (`engine.rs`, 2488); GCSL's own evaluation; a step's several forked tasks,
  and so the effects that a failed attempt of one leaves out, whose results
  `finished_effect` gives the next attempt (`engine.rs`, 3454).
- In `Programs`: what a program does is a function of what it sees, as a step's
  record takes a step for one; arguments that are no data; times and links the
  store's trees lose.
- In `Trees`: work directories, directories that nothing changes but the
  store has not, and what directories' modes become.
- In `Overlay`: links on a path's way, a hermetic step's user database, which is
  a layer beneath the root, and reading the sandbox's root itself. GCSL writes
  no file where it is shown a directory and makes no directory where it is
  shown anything; where a program removed what the directory had, its
  write is refused by the host, since a whiteout is there, which the promise
  allows it.
- In `Stamps`: directories said to be fixed or mounted, what is left out of a
  tree, links to blobs, a read torn by a write, and a clock set back.
- In `Lock`: one repository, and so no sources or prefixes; `$GCSL_LIBRARY_PATH`;
  a clone there and not whole; what git does within.
- Not modelled: what the table of the system names and no module does. What
  bubblewrap, git, the kernel and the remote's server do is outside the
  program; loading, secrets, releases, the command line and events are sequential
  and keep no state; the modules planned for the rest are below.

## Plan

1. *Done*: `Store` (with `StorePromise`), `Claims`, `Engine`, `Eviction`, `Remote`;
   then `Programs` (with `ProgramsPromise`), `Trees`, `Overlay` (with
   `SandboxPromise`), `Stamps`, `Lock`; the proofs above.
2. Proofs: *done* are those above; of the properties that runs check what is
   left is what the prover does not reach.
3. `Scratch`: the lock file beside a scratch directory, with `sweep` and
   `remove_scratch` removing both. Safety: no two runs have one directory, and
   none is removed while a run has it.
4. `Exposure`: waiting exposures, against an abstract output directory in
   which each is made at once.
5. `Target`, `Query` as operators against a reference definition over bounded
   inputs.
6. `Claims` with shared results, and with the records of a set whose contents are
   gone.
