------------------------------- MODULE Remote -------------------------------
(***************************************************************************)
(* Records of steps shared by builds, in a store and in a remote cache     *)
(* (crates/pekit/src/remote.rs, pool.rs, record.rs, and Run::start_step to *)
(* Run::finish_uploads of engine.rs): a step missed in the store is looked *)
(* for in the cache, its base's manifest first, on a thread of the pool;   *)
(* missed there it runs, is recorded, and is written to the cache.  The    *)
(* builds may share a store, any call may fail, and the cache may drop     *)
(* what it likes.                                                          *)
(*                                                                         *)
(* The steps here are of one base, and of one set of contexts to a record: *)
(* a record's key stands for its set in the manifest.  A tree and its      *)
(* files are contents, and so is a record's encoding.  Nothing is evicted  *)
(* from a store meanwhile (Store's HitsHeld).                              *)
(***************************************************************************)
EXTENDS Naturals, FiniteSets

CONSTANTS
    Build,      \* builds, each a process
    Step,       \* the steps of builds
    Key,        \* the records' keys: receipts
    Content,    \* what results name
    Outcome,    \* what runs come to
    BuildOf,    \* the build of each step
    StoreOf,    \* the store of each build
    KeyOf,      \* the receipt of each step
    Gives,      \* the outcomes a run that has each receipt may have
    Names,      \* the contents each outcome names
    Connected,  \* the builds that have the remote cache
    Uploading,  \* and those that write to it
    Large,      \* the contents too large for a batch: streamed
    Threads,    \* how many threads each build's pool has
    Manifest,   \* the key of the base's manifest
    MaxDrops,   \* bound: how often the cache drops something
    None

Store == {StoreOf[b] : b \in Build}

ASSUME StepsAssumption ==
    /\ IsFiniteSet(Step)
    /\ BuildOf \in [Step -> Build]
    /\ KeyOf \in [Step -> Key]
    /\ \A s, t \in Step : BuildOf[s] = BuildOf[t] /\ KeyOf[s] = KeyOf[t] => s = t
    /\ Gives \in [Key -> SUBSET Outcome]
    /\ Names \in [Outcome -> SUBSET Content]
    /\ Uploading \subseteq Connected /\ Connected \subseteq Build

ASSUME NamesAssumption ==
    /\ Manifest \notin Key
    /\ None \notin Outcome /\ None \notin [sets : SUBSET Key]
    /\ None \notin {"manifest", "records", "upload"}
    /\ None \notin [record : Outcome \cup [sets : SUBSET Key], names : SUBSET Content]
    /\ Outcome \cap [sets : SUBSET Key] = {}
    /\ Threads \in Nat \ {0} /\ MaxDrops \in Nat

\* A record is an outcome, or a manifest: the keys of the records there are.
Manifests == [sets : SUBSET Key]
Value == Outcome \cup Manifests
Blob == Content \cup Value
Kept == Key \cup {Manifest}

Named(v) == IF v \in Outcome THEN Names[v] ELSE {}

VARIABLES
    holds,      \* cas/ of each store: contents
    records,    \* records/ of each store: by key
    cas,        \* the cache's blobs
    results,    \* its action results, each the record and what it names
    dropped,    \* ghost: how often it dropped anything
    at,         \* what each step is about
    job,        \* what its job on the pool is
    key,        \* the record that job has come to
    got,        \* the result it was given, or is to write
    wanted,     \* the blobs it has yet to read, or to write
    had,        \* the manifest of the store as it, or the engine, read it
    made,       \* what its run came to
    down,       \* Remote::down of each build
    failed,     \* ghost: the calls of each build that failed
    broken      \* ghost: and the streams it read

disk == <<holds, records>>
cache == <<cas, results, dropped>>
work == <<at, job, key, got, wanted, had>>
vars == <<disk, cache, work, made, down, failed, broken>>

-----------------------------------------------------------------------------

Of(s) == StoreOf[BuildOf[s]]
Sets(st) == IF records[st][Manifest] = None THEN {} ELSE records[st][Manifest].sets

\* Run::looked_up and Run::holds_all: there is a record by a set of the
\* manifest, and all it names.
IsHit(s) ==
    LET record == records[Of(s)][KeyOf[s]]
    IN  /\ KeyOf[s] \in Sets(Of(s))
        /\ record # None
        /\ Named(record) \subseteq holds[Of(s)]

OnThread == {"asking", "getting", "storing", "merging", "writing", "sending", "putting"}
OnMain == {"recorded", "remembering"}

MainIsFree(b) == \A s \in Step : BuildOf[s] = b => at[s] \notin OnMain
ThreadIsFree(b) == Cardinality({s \in Step : BuildOf[s] = b /\ at[s] \in OnThread}) < Threads

Goes(s, place) == at' = [at EXCEPT ![s] = place]

\* What a thread had in hand is gone as it goes on to something else.
Forgets(s) ==
    /\ got' = [got EXCEPT ![s] = None]
    /\ wanted' = [wanted EXCEPT ![s] = {}]
    /\ had' = [had EXCEPT ![s] = {}]

Init ==
    /\ holds = [st \in Store |-> {}]
    /\ records = [st \in Store |-> [k \in Kept |-> None]]
    /\ cas = {} /\ results = [k \in Kept |-> None] /\ dropped = 0
    /\ at = [s \in Step |-> "new"]
    /\ job = [s \in Step |-> None]
    /\ key = [s \in Step |-> Manifest]
    /\ got = [s \in Step |-> None]
    /\ wanted = [s \in Step |-> {}]
    /\ had = [s \in Step |-> {}]
    /\ made = [s \in Step |-> None]
    /\ down = [b \in Build |-> FALSE]
    /\ failed = [b \in Build |-> 0] /\ broken = [b \in Build |-> 0]

-----------------------------------------------------------------------------
(* The engine's thread: a step is looked up, run and recorded. *)

\* Work sent to the pool: it has come to the manifest, but that which looks
\* for records.
Queue(s, work_) ==
    /\ Goes(s, "queued")
    /\ job' = [job EXCEPT ![s] = work_]
    /\ key' = [key EXCEPT ![s] = IF work_ = "records" THEN KeyOf[s] ELSE Manifest]

\* Run::start_step.
LookUp(s) ==
    /\ at[s] = "new"
    /\ MainIsFree(BuildOf[s])
    /\ IF IsHit(s) THEN Goes(s, "over") /\ UNCHANGED <<job, key>>
       ELSE IF BuildOf[s] \in Connected THEN Queue(s, "manifest")
       ELSE Goes(s, "running") /\ UNCHANGED <<job, key>>
    /\ UNCHANGED <<disk, cache, got, wanted, had, made, down, failed, broken>>

\* A mistake in place of Looked: only what was found is gone on with.
LookedForHits(s) ==
    /\ at[s] = "ended" /\ job[s] \in {"manifest", "records"}
    /\ MainIsFree(BuildOf[s])
    /\ IF job[s] = "manifest" THEN Sets(Of(s)) # {} /\ Queue(s, "records")
       ELSE IsHit(s) /\ Goes(s, "over") /\ UNCHANGED <<job, key>>
    /\ had' = [had EXCEPT ![s] = Sets(Of(s))]
    /\ UNCHANGED <<disk, cache, got, wanted, made, down, failed, broken>>

\* Run::looked_remotely, whether what was asked for was found, or could not be
\* asked for: then records by each set of the manifest are asked for.
Looked(s) ==
    /\ at[s] = "ended" /\ job[s] \in {"manifest", "records"}
    /\ MainIsFree(BuildOf[s])
    /\ IF job[s] = "manifest" /\ Sets(Of(s)) # {} THEN Queue(s, "records")
       ELSE /\ Goes(s, IF job[s] = "records" /\ IsHit(s) THEN "over" ELSE "running")
            /\ UNCHANGED <<job, key>>
    /\ had' = [had EXCEPT ![s] = Sets(Of(s))]
    /\ UNCHANGED <<disk, cache, got, wanted, made, down, failed, broken>>

\* It runs, and the files of its result are kept in the store, on the pool.
Run(s) ==
    /\ at[s] = "running"
    /\ \E o \in Gives[KeyOf[s]] :
          /\ made' = [made EXCEPT ![s] = o]
          /\ holds' = [holds EXCEPT ![Of(s)] = @ \cup Names[o]]
    /\ Goes(s, "kept")
    /\ UNCHANGED <<records, cache, job, key, got, wanted, had, down, failed, broken>>

\* Run::keep_record; then Run::remember_reads reads the manifest and writes it
\* with the key, unless it has it.
Record(s) ==
    /\ at[s] = "kept"
    /\ MainIsFree(BuildOf[s])
    /\ records' = [records EXCEPT ![Of(s)] = [@ EXCEPT ![KeyOf[s]] = made[s]]]
    /\ Goes(s, "recorded")
    /\ UNCHANGED <<holds, cache, job, key, got, wanted, had, made, down, failed, broken>>

RememberRead(s) ==
    /\ at[s] = "recorded"
    /\ had' = [had EXCEPT ![s] = Sets(Of(s))]
    /\ Goes(s, "remembering")
    /\ UNCHANGED <<disk, cache, job, key, got, wanted, made, down, failed, broken>>

RememberWrite(s) ==
    /\ at[s] = "remembering"
    /\ IF KeyOf[s] \in had[s] THEN UNCHANGED records
       ELSE records' = [records EXCEPT ![Of(s)] =
                [@ EXCEPT ![Manifest] = [sets |-> had[s] \cup {KeyOf[s]}]]]
    /\ IF BuildOf[s] \in Uploading THEN Queue(s, "upload")
       ELSE Goes(s, "over") /\ UNCHANGED <<job, key>>
    /\ Forgets(s)
    /\ UNCHANGED <<holds, cache, made, down, failed, broken>>

\* Run::uploaded, whatever came of it.
Uploaded(s) ==
    /\ at[s] = "ended" /\ job[s] = "upload"
    /\ Goes(s, "over")
    /\ UNCHANGED <<disk, cache, job, key, got, wanted, had, made, down, failed, broken>>

-----------------------------------------------------------------------------
(* A thread of the pool: looked_for and uploaded of pool.rs. *)

Begin(s) ==
    /\ at[s] = "queued"
    /\ ThreadIsFree(BuildOf[s])
    /\ Goes(s, "asking")
    /\ UNCHANGED <<disk, cache, job, key, got, wanted, had, made, down, failed, broken>>

\* A mistake in place of WithNone: with no manifest there, nothing is written.
WithNoneEnds(s) == "ended"

\* An upload goes on where a manifest is not there, as where it is merged.
WithNone(s) == IF job[s] = "upload" THEN "sending" ELSE "ended"

\* By the sets of a manifest other than its own, a step's receipts name no
\* record.
InCache(s) == results[key[s]] # None /\ (job[s] = "records" => key[s] \in had[s])

\* Where what key names is not asked for, as the cache is down; where it is
\* not there; and what it names that the store lacks, where it is
\* (Remote::fetch, Remote::fetch_record).
AskNot(s) ==
    /\ at[s] = "asking"
    /\ down[BuildOf[s]]
    /\ Goes(s, WithNone(s))
    /\ key' = [key EXCEPT ![s] = KeyOf[s]]
    /\ UNCHANGED <<disk, cache, job, got, wanted, had, made, down, failed, broken>>

AskNone(s) ==
    /\ at[s] = "asking"
    /\ ~down[BuildOf[s]]
    /\ ~InCache(s)
    /\ Goes(s, WithNone(s))
    /\ key' = [key EXCEPT ![s] = KeyOf[s]]
    /\ UNCHANGED <<disk, cache, job, got, wanted, had, made, down, failed, broken>>

\* A mistake in place of AskFound: what the store has not is not looked for.
AskFoundOnly(s) ==
    /\ at[s] = "asking"
    /\ ~down[BuildOf[s]]
    /\ InCache(s)
    /\ got' = [got EXCEPT ![s] = results[key[s]]]
    /\ wanted' = [wanted EXCEPT ![s] = results[key[s]].names \cap holds[Of(s)]]
    /\ Goes(s, "getting")
    /\ UNCHANGED <<disk, cache, job, key, had, made, down, failed, broken>>

AskFound(s) ==
    /\ at[s] = "asking"
    /\ ~down[BuildOf[s]]
    /\ InCache(s)
    /\ got' = [got EXCEPT ![s] = results[key[s]]]
    /\ wanted' = [wanted EXCEPT ![s] = results[key[s]].names \ holds[Of(s)]]
    /\ Goes(s, "getting")
    /\ UNCHANGED <<disk, cache, job, key, had, made, down, failed, broken>>

\* Remote::fetch_blobs, of one; then the record is read (Remote::read_bytes).
Get(s) ==
    /\ at[s] = "getting"
    /\ \E c \in wanted[s] \cap cas :
          /\ holds' = [holds EXCEPT ![Of(s)] = @ \cup {c}]
          /\ wanted' = [wanted EXCEPT ![s] = @ \ {c}]
    /\ UNCHANGED <<records, cache, at, job, key, got, had, made, down, failed, broken>>

Read(s) ==
    /\ at[s] = "getting"
    /\ wanted[s] = {}
    /\ got[s].record \in cas
    /\ Goes(s, IF key[s] = Manifest THEN "merging" ELSE "storing")
    /\ UNCHANGED <<disk, cache, job, key, got, wanted, had, made, down, failed, broken>>

\* What it asks for the cache dropped: an error, which ends the job.
Lost(s) ==
    /\ at[s] = "getting"
    /\ IF wanted[s] = {} THEN got[s].record \notin cas ELSE ~(wanted[s] \subseteq cas)
    /\ Goes(s, "ended")
    /\ Forgets(s)
    /\ UNCHANGED <<disk, cache, job, key, made, down, failed, broken>>

\* Remote::find writes the record last.
StoreRecord(s) ==
    /\ at[s] = "storing"
    /\ records' = [records EXCEPT ![Of(s)] = [@ EXCEPT ![KeyOf[s]] = got[s].record]]
    /\ Goes(s, "ended")
    /\ Forgets(s)
    /\ UNCHANGED <<holds, cache, job, key, made, down, failed, broken>>

\* merge_remote_manifest reads the store's manifest, and writes it with what
\* the cache's has, if it had not, or there was none.
MergeRead(s) ==
    /\ at[s] = "merging"
    /\ had' = [had EXCEPT ![s] = Sets(Of(s))]
    /\ Goes(s, "writing")
    /\ UNCHANGED <<disk, cache, job, key, got, wanted, made, down, failed, broken>>

\* A mistake in place of MergeWrite: the cache's manifest takes the place of
\* the store's.
MergeOver(s) ==
    /\ at[s] = "writing"
    /\ records' = [records EXCEPT ![Of(s)] = [@ EXCEPT ![Manifest] = got[s].record]]
    /\ key' = [key EXCEPT ![s] = KeyOf[s]]
    /\ Goes(s, WithNone(s))
    /\ Forgets(s)
    /\ UNCHANGED <<holds, cache, job, made, down, failed, broken>>

MergeWrite(s) ==
    /\ at[s] = "writing"
    /\ IF got[s].record.sets \subseteq had[s] /\ had[s] # {} THEN UNCHANGED records
       ELSE records' = [records EXCEPT ![Of(s)] = 
                [@ EXCEPT ![Manifest] = [sets |-> had[s] \cup got[s].record.sets]]]
    /\ key' = [key EXCEPT ![s] = KeyOf[s]]
    /\ Goes(s, WithNone(s))
    /\ Forgets(s)
    /\ UNCHANGED <<holds, cache, job, made, down, failed, broken>>

-----------------------------------------------------------------------------
(* Remote::upload, of the record, and then of the manifest. *)

\* What is written for a record the store has: it, and what it names that the
\* store has.
Result(s, record) == [record |-> record, names |-> Named(record) \cap holds[Of(s)]]

NextOf(s) == IF key[s] = Manifest THEN "ended" ELSE "sending"

SendNot(s) ==
    /\ at[s] = "sending"
    /\ down[BuildOf[s]] \/ records[Of(s)][key[s]] = None
    /\ Goes(s, NextOf(s))
    /\ key' = [key EXCEPT ![s] = Manifest]
    /\ UNCHANGED <<disk, cache, job, got, wanted, had, made, down, failed, broken>>

\* A mistake in place of Send: the cache is taken to have the contents.
SendRecord(s) ==
    /\ at[s] = "sending"
    /\ ~down[BuildOf[s]]
    /\ LET record == records[Of(s)][key[s]]
       IN  /\ record # None
           /\ got' = [got EXCEPT ![s] = Result(s, record)]
           /\ wanted' = [wanted EXCEPT ![s] = {record} \ cas]
    /\ Goes(s, "putting")
    /\ UNCHANGED <<disk, cache, job, key, had, made, down, failed, broken>>

\* What the cache lacks of it.
Send(s) ==
    /\ at[s] = "sending"
    /\ ~down[BuildOf[s]]
    /\ LET record == records[Of(s)][key[s]]
       IN  /\ record # None
           /\ got' = [got EXCEPT ![s] = Result(s, record)]
           /\ wanted' = [wanted EXCEPT ![s] = (Result(s, record).names \cup {record}) \ cas]
    /\ Goes(s, "putting")
    /\ UNCHANGED <<disk, cache, job, key, had, made, down, failed, broken>>

\* Remote::write_missing, of one.
Put(s) ==
    /\ at[s] = "putting"
    /\ \E c \in wanted[s] :
          /\ cas' = cas \cup {c}
          /\ wanted' = [wanted EXCEPT ![s] = @ \ {c}]
    /\ UNCHANGED <<disk, results, dropped, at, job, key, got, had, made, down, failed, broken>>

PutResult(s) ==
    /\ at[s] = "putting"
    /\ wanted[s] = {}
    /\ results' = [results EXCEPT ![key[s]] = got[s]]
    /\ Goes(s, NextOf(s))
    /\ key' = [key EXCEPT ![s] = Manifest]
    /\ Forgets(s)
    /\ UNCHANGED <<disk, cas, dropped, job, made, down, failed, broken>>

-----------------------------------------------------------------------------
(* The cache. *)

Calling(s) ==
    \/ at[s] = "asking" /\ ~down[BuildOf[s]]
    \/ at[s] = "getting" /\ (wanted[s] = {} \/ ~(wanted[s] \subseteq Large))
    \/ at[s] = "sending" /\ ~down[BuildOf[s]] /\ records[Of(s)][key[s]] # None
    \/ at[s] = "putting"

\* Remote::noted: any call may fail, which ends the job, and the build begins
\* no other.
CallFails(s) ==
    /\ Calling(s)
    /\ down' = [down EXCEPT ![BuildOf[s]] = TRUE]
    /\ failed' = [failed EXCEPT ![BuildOf[s]] = @ + 1]
    /\ Goes(s, "ended")
    /\ Forgets(s)
    /\ UNCHANGED <<disk, cache, job, key, made, broken>>

\* A stream that Remote::fetch_blobs reads fails as the store it is put into
\* does: it ends the job, and is not noted.
StreamFails(s) ==
    /\ at[s] = "getting" /\ wanted[s] \cap Large # {}
    /\ broken' = [broken EXCEPT ![BuildOf[s]] = @ + 1]
    /\ Goes(s, "ended")
    /\ Forgets(s)
    /\ UNCHANGED <<disk, cache, job, key, made, down, failed>>

Drop ==
    /\ dropped < MaxDrops
    /\ \/ \E c \in cas : cas' = cas \ {c} /\ UNCHANGED results
       \/ \E k \in Kept : /\ results[k] # None
                          /\ results' = [results EXCEPT ![k] = None]
                          /\ UNCHANGED cas
    /\ dropped' = dropped + 1
    /\ UNCHANGED <<disk, work, made, down, failed, broken>>

-----------------------------------------------------------------------------

Engine(s) ==
    \/ LookUp(s) \/ Looked(s) \/ Run(s) \/ Record(s)
    \/ RememberRead(s) \/ RememberWrite(s) \/ Uploaded(s)

Thread(s) ==
    \/ Begin(s) \/ AskNot(s) \/ AskNone(s) \/ AskFound(s) \/ Get(s) \/ Read(s) \/ Lost(s)
    \/ StoreRecord(s) \/ MergeRead(s) \/ MergeWrite(s)
    \/ SendNot(s) \/ Send(s) \/ Put(s) \/ PutResult(s)

Next == (\E s \in Step : Engine(s) \/ Thread(s) \/ CallFails(s) \/ StreamFails(s)) \/ Drop

Spec == Init /\ [][Next]_vars

\* Some thread runs while any may, and each call comes to an answer or an error.
FairSpec == Spec /\ WF_vars(\E s \in Step : Engine(s) \/ Thread(s))

-----------------------------------------------------------------------------
(* Properties. *)

RecordsOf(k) == IF k = Manifest THEN Manifests ELSE Gives[k]
ResultsOf(k) == [record : RecordsOf(k), names : SUBSET Content]
Results == [record : Value, names : SUBSET Content]

StoreTypes ==
    /\ holds \in [Store -> SUBSET Content]
    /\ records \in [Store -> [Kept -> Value \cup {None}]]
    /\ \A st \in Store, k \in Kept : records[st][k] \in RecordsOf(k) \cup {None}

CacheTypes ==
    /\ cas \subseteq Blob
    /\ results \in [Kept -> Results \cup {None}]
    /\ \A k \in Kept : results[k] \in ResultsOf(k) \cup {None}
    /\ dropped \in Nat

PlaceTypes ==
    /\ at \in [Step -> OnThread \cup OnMain \cup {"new", "queued", "ended", "running", "kept", "over"}]
    /\ job \in [Step -> {None, "manifest", "records", "upload"}]
    /\ key \in [Step -> Kept] /\ \A s \in Step : key[s] \in {Manifest, KeyOf[s]}

WorkTypes ==
    /\ got \in [Step -> Results \cup {None}]
    /\ wanted \in [Step -> SUBSET Blob]
    /\ had \in [Step -> SUBSET Key]
    /\ made \in [Step -> Outcome \cup {None}]
    /\ down \in [Build -> BOOLEAN]
    /\ failed \in [Build -> Nat] /\ broken \in [Build -> Nat]

TypeOK == StoreTypes /\ CacheTypes /\ PlaceTypes /\ WorkTypes

\* "A record is in the store only once all it names is" (remote.rs), whether a
\* run left it there or the cache gave it, and whatever failed or was dropped
\* meanwhile.
RecordsWhole ==
    \A st \in Store, k \in Kept :
        records[st][k] # None => Named(records[st][k]) \subseteq holds[st]

\* A result the cache has is of a record and of all the record names, and so
\* long as the cache drops nothing it has all of it: what one build found
\* missing and another wrote is there before any result names it
\* (Remote::upload).
ResultsWhole ==
    \A k \in Kept : results[k] # None =>
        /\ results[k].names = Named(results[k].record)
        /\ dropped = 0 => results[k].names \cup {results[k].record} \subseteq cas

\* "Once a call fails ... the process asks it nothing more" (remote.rs): only
\* calls under way on other threads fail besides, but for streams.
FailsOnce == \A b \in Build : failed[b] <= Threads

\* A build that is over, no call of which failed, has written each record it
\* made to a cache that keeps what it is given (Run::finish_uploads).
EndsUploaded ==
    \A s \in Step :
        (at[s] = "over" /\ made[s] # None /\ BuildOf[s] \in Uploading
            /\ failed[BuildOf[s]] = 0 /\ dropped = 0)
        => results[KeyOf[s]] # None

\* A store that only one step uses never loses a set of its manifest, whatever
\* the cache's manifest has lost (merge_remote_manifest).
Alone(st) == \E s \in Step : {t \in Step : Of(t) = st} = {s}
AloneKeeps == [][\A st \in Store : Alone(st) => Sets(st) \subseteq Sets(st)']_vars

\* engine.rs: "merged with what is there, so that a build recording another
\* set beside it loses neither": of any store.
SetsKept == [][\A st \in Store : Sets(st) \subseteq Sets(st)']_vars

\* No step waits for ever for the cache, its threads or the engine's: each is
\* found or run, and recorded, whatever fails (Run::finish_uploads).
AllEnd == <>(\A s \in Step : at[s] = "over")
=============================================================================
