------------------------------ MODULE Programs ------------------------------
(***************************************************************************)
(* programs.rs and engine/programs.rs: each program of a step found or     *)
(* recorded by what it can see.                                            *)
(*                                                                         *)
(* A run is a step's, in a build of its own: attempt after attempt, each   *)
(* in a sandbox of its own.  Its code, one effect at a time, reads         *)
(* contexts, which stage files or bind secrets, has effects that write,    *)
(* which are folded into the run's view, and runs programs.  A program is  *)
(* sent with the view and, while they are known, the digests of what it    *)
(* can write; the thread that takes it makes its key, and puts back what   *)
(* its record says it left, or runs it and records it.  Runs share the     *)
(* store's records and contents, which an eviction between builds takes.   *)
(*                                                                         *)
(* A tree is what the store keeps of it: its digest is itself.  An effect  *)
(* or a program does to its step's world what Writes and Leaves say: they  *)
(* are functions of it, as a step's record takes its step for one.  The    *)
(* effects that only read change nothing and are left out.                 *)
(*                                                                         *)
(* An argument that is no data, which no program's is once checked, and a  *)
(* link's or a time's loss, which the store's trees do not keep, are not   *)
(* modelled.                                                               *)
(***************************************************************************)
EXTENDS Naturals, Sequences, FiniteSets

CONSTANTS
    Runs,        \* the runs of steps
    Programs,    \* exec and Sandbox.exec, each with its arguments
    Boxed,       \* those that are Sandbox.exec
    Secret,      \* exec_secret
    Writers,     \* the effects that are folded
    Contexts,    \* what a step can read as it runs
    Inputs,      \* files by their path and contents
    Places,      \* own output directories
    Starts,      \* what an attempt begins with: its build's mode, own
                 \* directory, inputs, and whether a secret
    Gives,       \* what a context may give: files, and whether a secret
    Trees,       \* what a directory can hold
    Unkeepable,  \* those that hold what the store can't keep
    Results,     \* what a program can give
    Empty,       \* the empty directory, and what is given before any program
    None,        \* what is not known, or not there
    Leaves(_, _),\* what a program leaves in a world, and gives
    Writes(_, _),\* what an effect leaves of a world's trees
    MaxEffects,  \* bound: the effects of an attempt
    MaxAttempts  \* bound: the attempts there are

\* What an attempt begins with, and what a context gives, is of these inputs.
ASSUME InputsAreGiven ==
    /\ \A start \in Starts : start.place \in Places /\ start.given \subseteq Inputs
    /\ \A gives \in Gives : gives.files \subseteq Inputs

VARIABLES
    pc,          \* what each run is about
    reuse,       \* what its build does with records
    on,          \* Programs: whether its programs may be found and recorded
    view,        \*   the chain of the effects it had
    known,       \*   the digests of what it can write, or None
    pending,     \* its sandbox: contexts not yet read
    staged,      \*   the files staged from those read
    unstaged,    \*   whether staging one failed
    bound,       \*   whether a secret is bound
    made,        \*   ghost: what made the rest of what programs only read
    trees,       \*   its own directory and /tmp
    job,         \* the program or effect it had sent
    key,         \* the program's key, or None
    record,      \* its record, or None
    last,        \* what its last program gave
    effects,     \* the effects its attempt had
    attempts,    \* the attempts there were
    records,     \* the store's records of programs
    contents     \* the trees and long results the store holds

engine == <<reuse, on, view, known>>
sandbox == <<pending, staged, unstaged, bound, made, trees>>
thread == <<job, key, record>>
store == <<records, contents>>
vars == <<pc, engine, sandbox, thread, last, effects, attempts, store>>

Clean == [own |-> Empty, tmp |-> Empty]

Keys == [view : Seq([by : Places \cup Writers, kept : SUBSET Inputs]),
         staged : SUBSET Inputs, own : Trees, tmp : Trees, program : Programs]
Records == [key : Keys, result : Results, own : Trees, tmp : Trees]

\* What a program of a run sees.
World(r) == [made |-> made[r], staged |-> staged[r],
             own |-> trees[r].own, tmp |-> trees[r].tmp]

\* What a program of a key sees.
WorldOf(k) == [made |-> k.view, staged |-> k.staged, own |-> k.own, tmp |-> k.tmp]

Init ==
    /\ pc = [r \in Runs |-> "out"]
    /\ reuse = [r \in Runs |-> "store"]
    /\ on = [r \in Runs |-> TRUE]
    /\ view = [r \in Runs |-> <<>>]
    /\ known = [r \in Runs |-> None]
    /\ pending = [r \in Runs |-> {}]
    /\ staged = [r \in Runs |-> {}]
    /\ unstaged = [r \in Runs |-> FALSE]
    /\ bound = [r \in Runs |-> FALSE]
    /\ made = [r \in Runs |-> <<>>]
    /\ trees = [r \in Runs |-> Clean]
    /\ job = [r \in Runs |-> None]
    /\ key = [r \in Runs |-> None]
    /\ record = [r \in Runs |-> None]
    /\ last = [r \in Runs |-> Empty]
    /\ effects = [r \in Runs |-> 0]
    /\ attempts = 0
    /\ records = {}
    /\ contents = {}

\* An attempt begins, in a fresh sandbox staged with what the step is given.
Begin(r, start) ==
    /\ pc[r] = "out"
    /\ attempts < MaxAttempts
    /\ attempts' = attempts + 1
    /\ pc' = [pc EXCEPT ![r] = "code"]
    /\ reuse' = [reuse EXCEPT ![r] = start.mode]
    /\ view' = [view EXCEPT ![r] = <<[by |-> start.place, kept |-> start.given]>>]
    /\ made' = [made EXCEPT ![r] = <<[by |-> start.place, kept |-> start.given]>>]
    /\ pending' = [pending EXCEPT ![r] = Contexts]
    /\ bound' = [bound EXCEPT ![r] = start.secret]
    /\ UNCHANGED <<on, known, staged, unstaged, trees, thread, last, effects, store>>

\* The attempt is over: all that was its is dropped, its sandbox removed.
Over(r) ==
    /\ pc' = [pc EXCEPT ![r] = "out"]
    /\ reuse' = [reuse EXCEPT ![r] = "store"]
    /\ on' = [on EXCEPT ![r] = TRUE]
    /\ view' = [view EXCEPT ![r] = <<>>]
    /\ known' = [known EXCEPT ![r] = None]
    /\ pending' = [pending EXCEPT ![r] = {}]
    /\ staged' = [staged EXCEPT ![r] = {}]
    /\ unstaged' = [unstaged EXCEPT ![r] = FALSE]
    /\ bound' = [bound EXCEPT ![r] = FALSE]
    /\ made' = [made EXCEPT ![r] = <<>>]
    /\ trees' = [trees EXCEPT ![r] = Clean]
    /\ job' = [job EXCEPT ![r] = None]
    /\ key' = [key EXCEPT ![r] = None]
    /\ record' = [record EXCEPT ![r] = None]
    /\ last' = [last EXCEPT ![r] = Empty]
    /\ effects' = [effects EXCEPT ![r] = 0]
    /\ UNCHANGED <<attempts, store>>

End(r) == pc[r] = "code" /\ Over(r)

\* The step's code reads the context c, whose value names the files and
\* maybe a secret; a file that cannot be staged leaves the rest alone.
Read(r, c, gives) ==
    /\ pc[r] = "code"
    /\ c \in pending[r]
    /\ pending' = [pending EXCEPT ![r] = @ \ {c}]
    /\ staged' = [staged EXCEPT ![r] = @ \cup gives.files]
    /\ bound' = [bound EXCEPT ![r] = @ \/ gives.secret]
    /\ UNCHANGED <<pc, engine, unstaged, made, trees, thread, last, effects, attempts, store>>

ReadFails(r, c) ==
    /\ pc[r] = "code"
    /\ c \in pending[r]
    /\ pending' = [pending EXCEPT ![r] = @ \ {c}]
    /\ unstaged' = [unstaged EXCEPT ![r] = TRUE]
    /\ UNCHANGED <<pc, engine, staged, bound, made, trees, thread, last, effects, attempts, store>>

\* program_before, of any effect that does not only read: whether the run's
\* programs may be found from now on.
StillOnBound(r, e) == on[r] /\ e # Secret

StillOn(r, e) == on[r] /\ e # Secret /\ ~bound[r]

Sending(r, e) ==
    /\ pc[r] = "code"
    /\ effects[r] < MaxEffects
    /\ effects' = [effects EXCEPT ![r] = @ + 1]
    /\ on' = [on EXCEPT ![r] = StillOn(r, e)]
    /\ UNCHANGED <<reuse, view, sandbox, last, attempts, store>>

SendWriterKnown(r, e) ==
    /\ Sending(r, e)
    /\ pc' = [pc EXCEPT ![r] = "writing"]
    /\ job' = [job EXCEPT ![r] = [of |-> e, known |-> None]]
    /\ UNCHANGED <<known, key, record>>

\* What the run could write is no longer known, whatever comes of the effect.
SendWriter(r, e) ==
    /\ Sending(r, e)
    /\ known' = [known EXCEPT ![r] = IF StillOn(r, e) THEN None ELSE @]
    /\ pc' = [pc EXCEPT ![r] = "writing"]
    /\ job' = [job EXCEPT ![r] = [of |-> e, known |-> None]]
    /\ UNCHANGED <<key, record>>

SendProgram(r, e) ==
    /\ Sending(r, e)
    /\ StillOn(r, e)
    /\ known' = [known EXCEPT ![r] = None]
    /\ pc' = [pc EXCEPT ![r] = "sent"]
    /\ job' = [job EXCEPT ![r] = [of |-> e, known |-> known[r]]]
    /\ UNCHANGED <<key, record>>

\* A program that is neither found nor recorded.
SendPlain(r, e) ==
    /\ Sending(r, e)
    /\ ~StillOn(r, e)
    /\ pc' = [pc EXCEPT ![r] = "running"]
    /\ job' = [job EXCEPT ![r] = [of |-> e, known |-> None]]
    /\ UNCHANGED <<known, key, record>>

\* program_folded: the effect that ran, and what it staged by contents.
Folded(r, kept) == Append(view[r], [by |-> job[r].of, kept |-> kept])

\* finished_effect: the effect has written, and staged what it unpacked.
Wrote(r, kept) ==
    /\ pc[r] = "writing"
    /\ made' = [made EXCEPT ![r] = Append(@, [by |-> job[r].of, kept |-> kept])]
    /\ trees' = [trees EXCEPT ![r] = Writes(job[r].of, World(r))]
    /\ view' = [view EXCEPT ![r] = IF on[r] THEN Folded(r, kept) ELSE @]
    /\ pc' = [pc EXCEPT ![r] = "code"]
    /\ job' = [job EXCEPT ![r] = None]
    /\ UNCHANGED <<reuse, on, known, pending, staged, unstaged, bound, key, record, last, effects, attempts, store>>

\* captured: what the run can write put into the store, or None.
Captured(r) ==
    IF {trees[r].own, trees[r].tmp} \cap Unkeepable = {} THEN trees[r] ELSE None

\* The trees before the program: known, or hashed now.
Before(r) == IF job[r].known # None THEN job[r].known ELSE Captured(r)

PutCaptured(t) ==
    contents' = IF t = None THEN contents ELSE contents \cup {t.own, t.tmp}

KeyOfView(r) == [view |-> view[r], staged |-> {}, own |-> Before(r).own,
                 tmp |-> Before(r).tmp, program |-> job[r].of]

\* exec_key
KeyOf(r) == [view |-> view[r], staged |-> staged[r], own |-> Before(r).own,
             tmp |-> Before(r).tmp, program |-> job[r].of]

Keyed(r) == Before(r) # None

\* A record of the key, where records are reused, whose long strings are there.
Usable(r, x) ==
    Keyed(r) /\ x.key = KeyOf(r) /\ reuse[r] = "store" /\ x.result \in contents

\* The thread makes the key, if it can, and looks for the record.
Key(r) ==
    /\ pc[r] = "sent"
    /\ PutCaptured(IF job[r].known = None THEN Captured(r) ELSE None)
    /\ key' = [key EXCEPT ![r] = IF Keyed(r) THEN KeyOf(r) ELSE None]
    /\ \/ \E x \in records :
            /\ Usable(r, x)
            /\ record' = [record EXCEPT ![r] = x]
            /\ pc' = [pc EXCEPT ![r] = "found"]
       \/ /\ \A x \in records : ~Usable(r, x)
          /\ pc' = [pc EXCEPT ![r] = "running"]
          /\ UNCHANGED record
    /\ UNCHANGED <<engine, sandbox, job, last, effects, attempts, records>>

\* replay: each tree that is not as the record has it is placed beside, if
\* every content of it is there.
DiffersTmp(r) == {part \in {"tmp"} : key[r][part] # record[r][part]}

Differs(r) == {part \in {"own", "tmp"} : key[r][part] # record[r][part]}

Beside(r) ==
    /\ pc[r] = "found"
    /\ \/ /\ \A part \in Differs(r) : record[r][part] \in contents
          /\ pc' = [pc EXCEPT ![r] = "placing"]
          /\ record' = record
       \/ /\ pc' = [pc EXCEPT ![r] = "running"]
          /\ record' = [record EXCEPT ![r] = None]
    /\ UNCHANGED <<engine, sandbox, job, key, last, effects, attempts, store>>

\* program_ran, of a program that gave its result.
Ran(r, after) ==
    /\ known' = [known EXCEPT ![r] = after]
    /\ on' = [on EXCEPT ![r] = @ /\ after # None]
    /\ UNCHANGED <<reuse, view>>

\* The trees placed beside take their places.
Place(r) ==
    /\ pc[r] = "placing"
    /\ LET after == [own |-> record[r].own, tmp |-> record[r].tmp]
           place == [part \in {"own", "tmp"} |->
                       IF part \in Differs(r) THEN record[r][part] ELSE trees[r][part]]
       IN /\ trees' = [trees EXCEPT ![r] = [own |-> place["own"], tmp |-> place["tmp"]]]
          /\ Ran(r, after)
    /\ last' = [last EXCEPT ![r] = record[r].result]
    /\ pc' = [pc EXCEPT ![r] = "code"]
    /\ job' = [job EXCEPT ![r] = None]
    /\ key' = [key EXCEPT ![r] = None]
    /\ record' = [record EXCEPT ![r] = None]
    /\ UNCHANGED <<pending, staged, unstaged, bound, made, effects, attempts, store>>

\* The program runs: what staging failed with is what it fails with, unless
\* it runs in a sandbox the step made.
Run(r) ==
    /\ pc[r] = "running"
    /\ unstaged[r] => job[r].of \in Boxed
    /\ LET gave == Leaves(job[r].of, World(r)) IN
       /\ gave.ok
       /\ trees' = [trees EXCEPT ![r] = [own |-> gave.own, tmp |-> gave.tmp]]
       /\ last' = [last EXCEPT ![r] = gave.out]
    /\ pc' = [pc EXCEPT ![r] = "ran"]
    /\ UNCHANGED <<engine, pending, staged, unstaged, bound, made, thread, effects, attempts, store>>

\* put_record: one of the same key is replaced.
Recorded(r) ==
    {x \in records : x.key # key[r]}
        \cup {[key |-> key[r], result |-> last[r], own |-> trees[r].own, tmp |-> trees[r].tmp]}

\* What it wrote is hashed again, and it is recorded; a record that can't
\* be written is not there.
Keep(r) ==
    /\ pc[r] = "ran"
    /\ LET after == IF key[r] = None THEN None ELSE Captured(r) IN
       /\ IF key[r] # None /\ after # None /\ reuse[r] # "compare"
          THEN /\ records' \in {records, Recorded(r)}
               /\ contents' = contents \cup {after.own, after.tmp, last[r]}
          ELSE PutCaptured(after) /\ UNCHANGED records
       /\ Ran(r, after)
    /\ pc' = [pc EXCEPT ![r] = "code"]
    /\ job' = [job EXCEPT ![r] = None]
    /\ key' = [key EXCEPT ![r] = None]
    /\ UNCHANGED <<sandbox, record, last, effects, attempts>>

\* The effect or program fails, or the trees placed beside can't all take
\* their places: the attempt is over.
Fail(r) == pc[r] \in {"writing", "placing", "running"} /\ Over(r)

\* Between builds an eviction takes contents, and leaves records.
Evict ==
    /\ \A r \in Runs : pc[r] = "out"
    /\ contents' \in SUBSET contents
    /\ UNCHANGED <<pc, engine, sandbox, thread, last, effects, attempts, records>>

Step(r) ==
    \/ \E start \in Starts : Begin(r, start)
    \/ \E c \in Contexts : ReadFails(r, c) \/ \E gives \in Gives : Read(r, c, gives)
    \/ \E e \in Writers : SendWriter(r, e)
    \/ \E p \in Programs : SendProgram(r, p) \/ SendPlain(r, p)
    \/ \E kept \in SUBSET Inputs : Wrote(r, kept)
    \/ Key(r) \/ Beside(r) \/ Place(r) \/ Run(r) \/ Keep(r) \/ Fail(r) \/ End(r)

Next == Evict \/ \E r \in Runs : Step(r)

Spec == Init /\ [][Next]_vars

-----------------------------------------------------------------------------
\* The types of the variables.
TypeOK ==
    /\ pc \in [Runs -> {"out", "code", "writing", "sent", "found", "placing", "running", "ran"}]
    /\ reuse \in [Runs -> {"store", "rerun", "compare"}]
    /\ on \in [Runs -> BOOLEAN]
    /\ unstaged \in [Runs -> BOOLEAN]
    /\ bound \in [Runs -> BOOLEAN]
    /\ pending \in [Runs -> SUBSET Contexts]
    /\ staged \in [Runs -> SUBSET Inputs]
    /\ trees \in [Runs -> [own : Trees, tmp : Trees]]
    /\ last \in [Runs -> Results]
    /\ effects \in [Runs -> 0..MaxEffects]
    /\ attempts \in 0..MaxAttempts
    /\ contents \subseteq Trees \cup Results
    /\ \A r \in Runs :
         /\ known[r] # None => known[r] \in [own : Trees \ Unkeepable, tmp : Trees \ Unkeepable]
         /\ job[r] # None => job[r].of \in Programs \cup Writers
         /\ record[r] # None => record[r] \in records

\* What a program's record gives is what the program gives wherever it has
\* that key: the view, what was staged and the two trees are all it can see,
\* and two programs of one key are one.  Over every effect a step may have
\* had before it (receipt.rs exec_key, engine/programs.rs).
IsTrue(x) ==
    LET gave == Leaves(x.key.program, WorldOf(x.key)) IN
    gave.ok /\ gave.own = x.own /\ gave.tmp = x.tmp /\ gave.out = x.result

RecordsTrue == \A x \in records : IsTrue(x)

\* While a run's programs may be found, its view is of what was made, in
\* order, and digests it knows are of its trees as they are: nothing wrote
\* them unnoticed since the last program (engine/programs.rs).
KnownTrue ==
    \A r \in Runs : (pc[r] # "out" /\ on[r]) =>
        /\ view[r] = made[r]
        /\ known[r] # None => known[r] = trees[r]
        /\ (pc[r] = "sent" /\ job[r].known # None) => job[r].known = trees[r]

\* A run whose programs are found is told apart from one without a cache by
\* nothing its step sees: each gives and leaves what it would have, or the
\* attempt fails (programs.rs perform_program).
Promise == INSTANCE ProgramsPromise WITH going <- [r \in Runs |-> pc[r] # "out"]
Transparent == Promise!Spec

\* Once a secret is bound nothing of a run is put in the store, neither a
\* record nor the contents of what its programs can write, until its
\* attempt is over (design/additive.md F1, engine/programs.rs).
SecretsStay ==
    [][\A r \in Runs : (bound[r] /\ (pc[r] # pc'[r] \/ effects[r] # effects'[r])
                        /\ pc[r] # "out")
                       => UNCHANGED store]_vars

\* A build that compares records nothing, and only one that reuses what the
\* store has takes a program's result from there; nothing is taken whose
\* contents an eviction had (programs.rs, engine.rs Reuse).
ModesKept ==
    [][\A r \in Runs :
        /\ (pc[r] = "ran" /\ pc'[r] = "code" /\ reuse[r] = "compare") => records' = records
        /\ (pc[r] = "placing" /\ pc'[r] = "code") =>
              /\ reuse[r] = "store"
              /\ {trees'[r].own, trees'[r].tmp} \subseteq contents]_vars

\* Staging what a context gives failed, so a program run by exec from then
\* on fails (sandbox.rs, StepSandbox::unstaged).
NoneWithoutInputs ==
    [][\A r \in Runs : (unstaged[r] /\ pc[r] \in {"placing", "running"})
                        => (pc'[r] \in {pc[r], "out"} \/ job[r].of \in Boxed)]_vars
=============================================================================
