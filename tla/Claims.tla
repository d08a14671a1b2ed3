------------------------------- MODULE Claims -------------------------------
(***************************************************************************)
(* The steps of a build, from the moment the graph holds them until each   *)
(* is given a result (crates/pekit/src/engine.rs): how a step is named,    *)
(* which of several steps of one name runs, and how a step is looked up by *)
(* the contexts that runs before it read.                                  *)
(*                                                                         *)
(* A step's body is a function of what it reads, so what a run gives is    *)
(* told by what the run depended on: its function, its own directory, the  *)
(* result it is given, and the contexts it read.  A receipt is the same    *)
(* four things as pekit keys them, and a record is right if the two are    *)
(* one.  Digests stand for what they are digests of.                       *)
(*                                                                         *)
(* Other builds of the user, and the remote cache, write records and       *)
(* manifests as this one runs.  A build may end, or be killed, anywhere;   *)
(* the next one finds what it recorded.                                    *)
(***************************************************************************)
EXTENDS Naturals, Sequences

CONSTANTS
    Step,       \* the steps the build's targets make
    Fn,         \* the functions they are calls of
    FnOf,       \* which each is a call of
    Dep,        \* the step whose result each is given, or None
    Key,        \* the contexts there are
    Val,        \* what one may hold, unbound included
    Ctx,        \* the contexts each step is made in
    Reads,      \* what a run of each function reads, made in given contexts
    Failing,    \* the steps whose runs may fail
    Secret,     \* the functions whose results hold a secret
    Reuses,     \* what a build may be asked to do with records
    Remote,     \* whether there is a remote cache
    Elsewhere,  \* the contexts other builds make the same calls in
    MaxBuilds,  \* how many builds, one after the other
    None

Contexts == [Key -> Val]

ASSUME StepsAreCalls ==
    /\ FnOf \in [Step -> Fn]
    /\ Dep \in [Step -> Step \cup {None}]
    /\ Ctx \in [Step -> Contexts]
    /\ Elsewhere \subseteq Contexts
    /\ Reads \in [Fn -> [Contexts -> SUBSET Key]]

\* A run is a function of what it reads (design/engine.md, R2): made where
\* all that it read is the same, it reads the same.
ASSUME RunsAreFunctions ==
    \A f \in Fn : \A c, d \in Contexts :
        (\A k \in Reads[f][c] : c[k] = d[k]) => Reads[f][d] = Reads[f][c]

ASSUME NoneIsNoStep == None \notin Step
ASSUME SettingsAreKnown ==
    /\ Reuses \subseteq {"store", "rerun", "compare"}
    /\ Remote \in BOOLEAN
    /\ MaxBuilds \in Nat

VARIABLES
    at,         \* how far each step is
    name,       \* step_names: its identity, and what it was named apart by
    holds,      \* held: the steps that hold their names
    keyed,      \* Held::keyed_by: a receipt and the contexts it is by, once there
    result,     \* what each step was given
    ran,        \* the steps that ran, not found nor shared
    mismatches, \* the steps that gave another result than their records
    reuse,      \* Settings::reuse
    builds,     \* how many builds there were
    records,    \* StepRecords: by receipt, and whether its contents are there
    remembered  \* Manifests: a base, and a set of contexts a run of it read

build == <<at, name, holds, keyed, result, ran, mismatches, reuse, builds>>
store == <<records, remembered>>
vars == <<build, store>>

-----------------------------------------------------------------------------
(* What keys a step. *)

Part(c, keys) == [k \in keys |-> c[k]]

\* What a step is given: its argument, once its step is given.
Arg(s) == IF Dep[s] = None THEN None ELSE result[Dep[s]]

\* Run::receipt_of: the step's receipt by the contexts `keys`, in its name.
Keyed(f, own, arg, values) ==
    [fn |-> f, own |-> own, arg |-> arg, values |-> values]

Receipt(s, keys) == Keyed(FnOf[s], name[s], Arg(s), Part(Ctx[s], keys))

Base(s) == Receipt(s, {})

\* What a run of s reads, and so what it gives.
ReadBy(s) == Reads[FnOf[s]][Ctx[s]]

Outcome(s) == Receipt(s, ReadBy(s))

\* Run::identity_of: the function and the argument, a result not given yet by
\* the name of its step.  No context names it.
Identity(s) ==
    [fn |-> FnOf[s],
     of |-> IF Dep[s] # None /\ at[Dep[s]] # "given" THEN name[Dep[s]] ELSE Arg(s)]

Named(identity, apart) == [identity |-> identity, apart |-> apart]

-----------------------------------------------------------------------------

\* The engine is one thread: what is under way in one of its handlers.
Handling == {"naming", "looking", "remembering"}
Free == \A s \in Step : at[s] \notin Handling

Places == {"unmet", "waiting", "manifest", "records", "running", "keeping",
           "given", "failed"} \cup Handling

\* A mistake in place of Waiting: a step that started waits no more.
WaitingToStart(s) == at[s] \in {"unmet", "waiting"}

\* Run::is_waiting.
Waiting(s) == at[s] \notin {"given", "failed"}

Ready(s) == Dep[s] # None => at[Dep[s]] = "given"

\* held.get(name), if another step holds it.
Holders(s) == {h \in holds \ {s} : name[h] = name[s]}

\* Run::looked_up: the records of s by the sets its manifest has.
Found(s) == {r \in records :
                \E m \in remembered : /\ m.base = Base(s)
                                      /\ r.receipt = Receipt(s, m.keys)}

Put(r) == {x \in records : x.receipt # r.receipt} \cup {r}

Recorded(receipt, given) == [receipt |-> receipt, result |-> given, whole |-> TRUE]

KeyedBy(receipt, keys) == [receipt |-> receipt, keys |-> keys]

Remembers(base, keys) == [base |-> base, keys |-> keys]

-----------------------------------------------------------------------------
(* Mistakes the properties are to notice, each in place of the definition it *)
(* is named after.                                                           *)

\* A step is named apart by every context it is made in.
ApartByAll(s) ==
    /\ at[s] = "naming"
    /\ \E h \in Holders(s) : \E by \in keyed[h] :
          /\ Receipt(s, by.keys) # by.receipt
          /\ name' = [name EXCEPT ![s] =
                Named(@.identity, Append(@.apart, Receipt(s, Key)))]
    /\ UNCHANGED <<at, holds, keyed, result, ran, mismatches, reuse, builds, store>>

\* A step is keyed by every context it could read, or by none.
KeptByKeys(s, keys) ==
    LET key == Receipt(s, keys)
        first == {r \in records : r.receipt = key}
        recorded == ~(reuse = "compare" /\ first # {})
    IN  /\ Free
        /\ at[s] = "keeping"
        /\ keyed' = [keyed EXCEPT ![s] = {KeyedBy(key, keys)}]
        /\ result' = [result EXCEPT ![s] = Outcome(s)]
        /\ ran' = ran \cup {s}
        /\ records' = IF recorded THEN Put(Recorded(key, Outcome(s))) ELSE records
        /\ at' = [at EXCEPT ![s] = "given"]
        /\ mismatches' =
              IF ~recorded /\ \E r \in first : r.result # Outcome(s)
              THEN mismatches \cup {s} ELSE mismatches
        /\ UNCHANGED <<name, holds, reuse, builds, remembered>>

KeptByBase(s) == KeptByKeys(s, {})

\* The manifest the remote cache gave is not looked at.
AskedManifestOnly(s) ==
    /\ Free
    /\ at[s] = "manifest"
    /\ at' = [at EXCEPT ![s] = "running"]
    /\ UNCHANGED <<name, holds, keyed, result, ran, mismatches, reuse, builds, store>>

\* A holder that failed is waited for.
StartAfterHolder(s) ==
    /\ Free
    /\ at[s] = "waiting"
    /\ Ready(s)
    /\ ~\E h \in Holders(s) : keyed[h] = {}
    /\ at' = [at EXCEPT ![s] = "naming"]
    /\ UNCHANGED <<name, holds, keyed, result, ran, mismatches, reuse, builds, store>>

-----------------------------------------------------------------------------

Init ==
    /\ at = [s \in Step |-> "unmet"]
    /\ name = [s \in Step |-> None]
    /\ holds = {}
    /\ keyed = [s \in Step |-> {}]
    /\ result = [s \in Step |-> None]
    /\ ran = {}
    /\ mismatches = {}
    /\ reuse \in Reuses
    /\ builds = 1
    /\ records = {}
    /\ remembered = {}

\* The graph holds s, which is named: after what it is given is.
Meet(s) ==
    /\ Free
    /\ at[s] = "unmet"
    /\ Dep[s] # None => at[Dep[s]] # "unmet"
    /\ at' = [at EXCEPT ![s] = "waiting"]
    /\ name' = [name EXCEPT ![s] = Named(Identity(s), <<>>)]
    /\ UNCHANGED <<holds, keyed, result, ran, mismatches, reuse, builds, store>>

\* Run::start_needed: what needs a failed result fails, unrun.
FailWith(s) ==
    /\ Free
    /\ at[s] = "waiting"
    /\ Dep[s] # None
    /\ at[Dep[s]] = "failed"
    /\ at' = [at EXCEPT ![s] = "failed"]
    /\ UNCHANGED <<name, holds, keyed, result, ran, mismatches, reuse, builds, store>>

\* Run::start_step, unless Run::waits_for_holder.
Start(s) ==
    /\ Free
    /\ at[s] = "waiting"
    /\ Ready(s)
    /\ ~\E h \in Holders(s) : keyed[h] = {} /\ Waiting(h)
    /\ at' = [at EXCEPT ![s] = "naming"]
    /\ UNCHANGED <<name, holds, keyed, result, ran, mismatches, reuse, builds, store>>

-----------------------------------------------------------------------------
(* Run::claim_name, as often as the step is named apart. *)

\* Claim::Holds: nobody holds the name, or one that failed.
Hold(s) ==
    /\ at[s] = "naming"
    /\ \A h \in Holders(s) : keyed[h] = {} /\ ~Waiting(h)
    /\ holds' = (holds \ Holders(s)) \cup {s}
    /\ at' = [at EXCEPT ![s] = "looking"]
    /\ UNCHANGED <<name, keyed, result, ran, mismatches, reuse, builds, store>>

\* Claim::Waits.
Wait(s) ==
    /\ at[s] = "naming"
    /\ \E h \in Holders(s) : keyed[h] = {} /\ Waiting(h)
    /\ at' = [at EXCEPT ![s] = "waiting"]
    /\ UNCHANGED <<name, holds, keyed, result, ran, mismatches, reuse, builds, store>>

\* Claim::Shares, and Run::share.
Share(s) ==
    /\ at[s] = "naming"
    /\ \E h \in Holders(s) : \E by \in keyed[h] :
          /\ Receipt(s, by.keys) = by.receipt
          /\ result' = [result EXCEPT ![s] = result[h]]
          /\ at' = [at EXCEPT ![s] = at[h]]
    /\ UNCHANGED <<name, holds, keyed, ran, mismatches, reuse, builds, store>>

\* Claim::Apart: named by what its receipt is by the holder's contexts.
Apart(s) ==
    /\ at[s] = "naming"
    /\ \E h \in Holders(s) : \E by \in keyed[h] :
          /\ Receipt(s, by.keys) # by.receipt
          /\ name' = [name EXCEPT ![s] =
                Named(@.identity, Append(@.apart, Receipt(s, by.keys)))]
    /\ UNCHANGED <<at, holds, keyed, result, ran, mismatches, reuse, builds, store>>

-----------------------------------------------------------------------------
(* Looking a step up. *)

\* Run::found_step: by the record r, and the contexts it was looked up by.
\* A long string of the record that the store cannot give fails it.
FoundBy(s, r) ==
    /\ keyed' = [keyed EXCEPT ![s] = {KeyedBy(r.receipt, DOMAIN r.receipt.values)}]
    /\ \/ /\ result' = [result EXCEPT ![s] = r.result]
          /\ at' = [at EXCEPT ![s] = "given"]
       \/ /\ at' = [at EXCEPT ![s] = "failed"]
          /\ UNCHANGED result
    /\ UNCHANGED <<name, holds, ran, mismatches, reuse, builds, store>>

\* The step is not found, or some of what its record names was evicted.
Missed(s) == reuse = "store" => Found(s) = {} \/ \E r \in Found(s) : ~r.whole

Find(s) ==
    /\ at[s] = "looking"
    /\ reuse = "store"
    /\ \E r \in Found(s) : r.whole /\ FoundBy(s, r)

Miss(s) ==
    /\ at[s] = "looking"
    /\ Missed(s)
    /\ at' = [at EXCEPT ![s] = IF reuse = "store" /\ Remote THEN "manifest" ELSE "running"]
    /\ UNCHANGED <<name, holds, keyed, result, ran, mismatches, reuse, builds, store>>

\* Run::looked_remotely, the manifest asked for: the records it names next.
AskedManifest(s) ==
    /\ Free
    /\ at[s] = "manifest"
    /\ at' = [at EXCEPT ![s] =
          IF \E m \in remembered : m.base = Base(s) THEN "records" ELSE "running"]
    /\ UNCHANGED <<name, holds, keyed, result, ran, mismatches, reuse, builds, store>>

\* The records asked for.
AskedRecords(s) ==
    /\ Free
    /\ at[s] = "records"
    /\ \/ \E r \in Found(s) : r.whole /\ FoundBy(s, r)
       \/ /\ Missed(s)
          /\ at' = [at EXCEPT ![s] = "running"]
          /\ UNCHANGED <<name, holds, keyed, result, ran, mismatches, reuse, builds, store>>

-----------------------------------------------------------------------------
(* Running it. *)

\* Run::succeeded.
Succeed(s) ==
    /\ Free
    /\ at[s] = "running"
    /\ at' = [at EXCEPT ![s] = "keeping"]
    /\ UNCHANGED <<name, holds, keyed, result, ran, mismatches, reuse, builds, store>>

\* Run::failed, its attempts over, or Run::kept a file it did not make.
Fail(s) ==
    /\ Free
    /\ s \in Failing
    /\ at[s] \in {"running", "keeping"}
    /\ at' = [at EXCEPT ![s] = "failed"]
    /\ UNCHANGED <<name, holds, keyed, result, ran, mismatches, reuse, builds, store>>

\* Run::record and Run::keep_record: keyed by what its run read, and recorded,
\* unless it is compared, or holds a secret.
Kept(s) ==
    LET key == Receipt(s, ReadBy(s))
        first == {r \in records : r.receipt = key}
        recorded == FnOf[s] \notin Secret /\ ~(reuse = "compare" /\ first # {})
    IN  /\ Free
        /\ at[s] = "keeping"
        /\ keyed' = [keyed EXCEPT ![s] = {KeyedBy(key, ReadBy(s))}]
        /\ result' = [result EXCEPT ![s] = Outcome(s)]
        /\ ran' = ran \cup {s}
        /\ records' = IF recorded THEN Put(Recorded(key, Outcome(s))) ELSE records
        /\ at' = [at EXCEPT ![s] = IF recorded THEN "remembering" ELSE "given"]
        /\ mismatches' =
              IF FnOf[s] \notin Secret /\ ~recorded /\ \E r \in first : r.result # Outcome(s)
              THEN mismatches \cup {s} ELSE mismatches
        /\ UNCHANGED <<name, holds, reuse, builds, remembered>>

\* Run::remember_reads, whose own race is the module Remote's subject.
Remember(s) ==
    /\ at[s] = "remembering"
    /\ remembered' = remembered \cup {Remembers(Base(s), ReadBy(s))}
    /\ at' = [at EXCEPT ![s] = "given"]
    /\ UNCHANGED <<name, holds, keyed, result, ran, mismatches, reuse, builds, records>>

-----------------------------------------------------------------------------
(* What others do. *)

\* Another build, or the pool with what the remote cache holds, records a run
\* of the call s is, made in the contexts c, or remembers what it read, unless
\* what it gives holds a secret.
RecordElsewhere(s, c) ==
    LET seen == Keyed(FnOf[s], name[s], Arg(s), Part(c, Reads[FnOf[s]][c]))
    IN  /\ at[s] # "unmet" /\ Ready(s) /\ FnOf[s] \notin Secret
        /\ records' = Put(Recorded(seen, seen))
        /\ UNCHANGED <<build, remembered>>

RememberElsewhere(s, c) ==
    /\ at[s] # "unmet" /\ Ready(s) /\ FnOf[s] \notin Secret
    /\ remembered' = remembered \cup {Remembers(Base(s), Reads[FnOf[s]][c])}
    /\ UNCHANGED <<build, records>>

\* The build is over, or killed, and evicts what some records name; the next
\* one begins.
NextBuild ==
    /\ builds < MaxBuilds
    /\ at' = [s \in Step |-> "unmet"]
    /\ name' = [s \in Step |-> None]
    /\ holds' = {}
    /\ keyed' = [s \in Step |-> {}]
    /\ result' = [s \in Step |-> None]
    /\ ran' = {}
    /\ mismatches' = {}
    /\ reuse' \in Reuses
    /\ builds' = builds + 1
    /\ \E evicted \in SUBSET records :
          records' = {[receipt |-> r.receipt, result |-> r.result,
                       whole |-> r.whole /\ r \notin evicted] : r \in records}
    /\ UNCHANGED remembered

-----------------------------------------------------------------------------

Claim(s) == Hold(s) \/ Wait(s) \/ Share(s) \/ Apart(s)

Look(s) == Find(s) \/ Miss(s) \/ AskedManifest(s) \/ AskedRecords(s)

Run(s) == Succeed(s) \/ Fail(s) \/ Kept(s) \/ Remember(s)

Engine(s) == Meet(s) \/ FailWith(s) \/ Start(s) \/ Claim(s) \/ Look(s) \/ Run(s)

Others ==
    \/ \E s \in Step, c \in Elsewhere : RecordElsewhere(s, c) \/ RememberElsewhere(s, c)
    \/ NextBuild

Next == (\E s \in Step : Engine(s)) \/ Others

Spec == Init /\ [][Next]_vars

-----------------------------------------------------------------------------
(* Properties. *)

TypeOK ==
    /\ at \in [Step -> Places]
    /\ DOMAIN name = Step /\ DOMAIN result = Step /\ DOMAIN keyed = Step
    /\ \A s \in Step : keyed[s] # {} => at[s] \in {"remembering", "given", "failed"}
    /\ holds \subseteq Step /\ ran \subseteq Step /\ mismatches \subseteq Step
    /\ reuse \in Reuses
    /\ builds \in 1..MaxBuilds

\* A step is given what its run would give, by its own name, argument and
\* contexts, wherever that came from: its run, a record another build or the
\* remote cache made in other contexts, or the step that holds its name.
Sound == \A s \in Step : at[s] = "given" => result[s] = Outcome(s)

\* At work in its own directory: looked for, running or being kept.
Working(s) == at[s] \in {"looking", "manifest", "records", "running", "keeping", "remembering"}

\* No output's path is ever another's (foreign_file: "so that no other step's
\* have its paths"): while a step works in a directory no other does, nor was
\* given what is in it; and two steps of one directory were given one result.
OneDirectory ==
    \A s, t \in Step :
        s # t /\ name[s] = name[t] /\ at[s] # "unmet" /\ at[t] # "unmet" =>
            /\ Working(s) => at[t] \in {"waiting", "naming", "failed"}
            /\ at[s] = "given" /\ at[t] = "given" => result[s] = result[t]

Alike(s, t) ==
    /\ at[s] # "unmet" /\ at[t] # "unmet"
    /\ name[s].identity = name[t].identity
    /\ Arg(s) = Arg(t)
    /\ \A u \in Step : FnOf[u] = FnOf[s] =>
          \A k \in ReadBy(u) : Ctx[s][k] = Ctx[t][k]

\* Steps that only contexts none of them reads tell apart are one, in whatever
\* order they start (Run::claim_name): one of them runs.
RunOnce == \A s, t \in ran : Alike(s, t) => s = t

\* And none is named apart: one that is differs from a step of its identity
\* in its argument, or in a context that the other read.
ApartIfDifferent ==
    \A s \in Step : at[s] # "unmet" /\ name[s].apart # <<>> =>
        \E t \in Step :
            /\ at[t] # "unmet"
            /\ name[t].identity = name[s].identity
            /\ \/ Arg(t) # Arg(s)
               \/ \E k \in ReadBy(t) : Ctx[t][k] # Ctx[s][k]

\* Built to compare, no step whose code gives one result for what it reads is
\* reported to have given two (Reuse::Compare).
NoneBlamed == mismatches = {}

\* With a record of its very run in reach, whole and remembered, a step does
\* not run again, whatever other sets its manifest has.
NoneRunAgain ==
    [][\A s \in Step :
          /\ at[s] # "running" /\ at'[s] = "running"
          /\ reuse = "store"
          => ~\E r \in records : /\ r.whole /\ r.receipt = Outcome(s)
                                 /\ Remembers(Base(s), ReadBy(s)) \in remembered]_vars

\* "A step is at the same path in every build that makes it, whichever targets
\* reach it, in whatever order" (receipt.rs, Identities): a record of what it
\* was given is a record of a step of its name.
SamePath ==
    \A s \in Step, r \in records :
        /\ at[s] = "given"
        /\ r.result = [Outcome(s) EXCEPT !.own = r.result.own]
        => r.receipt.own = name[s]

-----------------------------------------------------------------------------
(* Each round of Run::drive tries every ready step, and takes what the pool   *)
(* has; a run, its attempts bounded, ends.                                    *)

Fairness ==
    \A s \in Step : SF_vars(FailWith(s) \/ Start(s) \/ Claim(s) \/ Look(s) \/ Run(s))

FairSpec == Spec /\ Fairness

\* No step waits for its name for ever: once what it is given is, it is given
\* a result or fails, though whoever holds its name may fail and those after
\* it may take it.
Settles ==
    \A s \in Step :
        at[s] = "waiting" /\ (Ready(s) \/ at[Dep[s]] = "failed")
        ~> at[s] \in {"given", "failed", "unmet"}
=============================================================================
