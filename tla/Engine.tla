------------------------------- MODULE Engine -------------------------------
(***************************************************************************)
(* The engine's loop (crates/pekit/src/engine.rs, Run::drive): one thread  *)
(* runs the units of the build's targets and of its steps, each until it   *)
(* stops, starts what they need, and takes what the threads of the pool    *)
(* did for it, round after round, until every target is done.              *)
(*                                                                         *)
(* A unit is what GCSL evaluates, and its code here is what the engine     *)
(* sees of it: the nodes it makes, those it stops for, and the memoised    *)
(* calls it begins and ends, which units share: one that another unit has  *)
(* begun and stopped in makes it wait for that unit.                       *)
(***************************************************************************)
EXTENDS Naturals, Sequences, FiniteSets

CONSTANTS
    Root,       \* the build's targets
    Step,       \* the steps they may make
    Effect,     \* the effects of targets and steps
    Memo,       \* the memoised calls units share
    Code,       \* what the unit of each target and step does
    Holes,      \* the nodes the value of each target has holes for
    Data,       \* the nodes whose results each node is given
    Of,         \* the step each effect is of, or None: a target's own
    Name,       \* the name of each step, which two may share
    Retries,    \* how often each step may be tried again
    MayFail,    \* the nodes that may fail of themselves
    Unstaged,   \* the steps whose inputs may not be there to stage
    Timed,      \* the steps whose time may run out
    Stored,     \* the steps the store, or the remote cache, may have
    Remote,     \* whether there is a remote cache, which takes uploads
    Mode,       \* "build", "static" (--no-dynamic), or "query"
    None

Unit == Root \cup Step
Node == Step \cup Effect

\* What the code of a unit is made of.
Call(nodes) == [op |-> "call", nodes |-> nodes]
Stop(nodes) == [op |-> "stop", nodes |-> nodes]
Begin(m) == [op |-> "begin", memo |-> m]
Finish(m) == [op |-> "finish", memo |-> m]

ASSUME TheBuildIsOne ==
    /\ Root \cap Step = {} /\ Root \cap Effect = {} /\ Step \cap Effect = {}
    /\ None \notin Unit \cup Node \cup Memo /\ "ended" \notin Unit \cup {None}
    /\ DOMAIN Code = Unit
    /\ \A u \in Unit : Code[u] \in Seq(
          {Call(nodes) : nodes \in SUBSET Node} \cup {Stop(nodes) : nodes \in SUBSET Node}
              \cup {Begin(m) : m \in Memo} \cup {Finish(m) : m \in Memo})
    /\ Holes \in [Root -> SUBSET Node]
    /\ Data \in [Node -> SUBSET Node]
    /\ Of \in [Effect -> Step \cup {None}]
    /\ DOMAIN Name = Step
    /\ Retries \in [Step -> Nat]
    /\ MayFail \subseteq Node
    /\ Stored \subseteq Step /\ Unstaged \subseteq Step /\ Timed \subseteq Step
    /\ Remote \in BOOLEAN
    /\ Mode \in {"build", "static", "query"}

\* The nodes of targets' units.  A step's unit has effects of its own alone:
\* no call in it is a step (engine.rs, inline).
Shared == Step \cup {e \in Effect : Of[e] = None}

\* The nodes in the code of u at i.
At(u, i) == IF Code[u][i].op \in {"call", "stop"} THEN Code[u][i].nodes ELSE {}

\* A step's unit is one task here: it stops for one effect at a time.
ASSUME NodesAreOwn ==
    /\ \A r \in Root : \A i \in DOMAIN Code[r] : At(r, i) \subseteq Shared
    /\ \A n \in Shared : Data[n] \subseteq Shared
    /\ \A s \in Step : \A i \in DOMAIN Code[s] :
          /\ At(s, i) \subseteq {e \in Effect : Of[e] = s}
          /\ Code[s][i].op = "stop" => \E e \in Effect : Code[s][i].nodes = {e}

\* A node is made of values that are there, so of nodes made before it, and
\* so is what a target gives.
ASSUME NodesAreMadeInOrder ==
    /\ \A S \in SUBSET Node : S # {} => \E n \in S : Data[n] \cap S = {}
    /\ \A u \in Unit : \A i \in DOMAIN Code[u] : \A n \in At(u, i) :
          Data[n] \subseteq UNION {At(u, j) : j \in 1..i}
    /\ \A r \in Root : Holes[r] \subseteq UNION {At(r, i) : i \in DOMAIN Code[r]}

\* A call of u, from where it begins to where it ends.
IsCall(u, b, f) ==
    /\ b \in DOMAIN Code[u] /\ f \in DOMAIN Code[u] /\ b < f
    /\ Code[u][b].op = "begin" /\ Code[u][f] = Finish(Code[u][b].memo)

\* Calls are in each other, each in a unit once, and a memoised one makes the
\* same of the nodes targets share, whoever runs it.
ASSUME CallsAreWhole ==
    \A u \in Unit :
        /\ \A b \in DOMAIN Code[u] : Code[u][b].op = "begin" =>
              \E f \in DOMAIN Code[u] : IsCall(u, b, f)
        /\ \A f \in DOMAIN Code[u] : Code[u][f].op = "finish" =>
              \E b \in DOMAIN Code[u] : IsCall(u, b, f)
        /\ \A b, c \in DOMAIN Code[u] :
              Code[u][b].op \in {"begin", "finish"} /\ Code[u][b] = Code[u][c] => b = c
        /\ \A b, f, c, g \in DOMAIN Code[u] :
              IsCall(u, b, f) /\ IsCall(u, c, g) /\ b < c /\ c < f => g < f
        /\ \A v \in Unit : \A b, f \in DOMAIN Code[u], c, g \in DOMAIN Code[v] :
              IsCall(u, b, f) /\ IsCall(v, c, g) /\ Code[u][b] = Code[v][c] =>
                 Shared \cap UNION {At(u, i) : i \in b..f}
                     = Shared \cap UNION {At(v, i) : i \in c..g}

VARIABLES
    phase,      \* where in a round the engine is
    left,       \* the units and nodes it has still to see to there
    unit,       \* the unit that runs, if one does
    moved,      \* progressed
    ended,      \* whether a memoised call ended this round
    at,         \* where in its code each unit is
    main,       \* Root::main, and done
    waits,      \* the nodes each target's unit stopped for: Main::Paused
    step,       \* steps: where each that was started is
    tries,      \* StepRun::retries
    state,      \* the graph: whether each node is made, waits, or came to what
    memo,       \* who runs each memoised call, if it is not done
    jobs,       \* what the pool has to do, or is doing
    results,    \* what it did
    inFlight,   \* in_flight
    sent,       \* how often each effect was sent to the pool
    background, \* the engine's own work for steps on the pool
    uploads     \* and for records

loop == <<phase, left, unit, moved, ended>>
units == <<at, main, waits, step, tries, memo>>
pool == <<jobs, results, inFlight, sent, background, uploads>>
vars == <<loop, units, state, pool>>

-----------------------------------------------------------------------------

\* What n cannot be had without (Graph::needed): all that a walk from it
\* comes to.
Needs == [n \in Node |->
    {d \in Node : \A S \in SUBSET Node :
        n \in S /\ (\A c \in S : Data[c] \subseteq S) => d \in S}]

IsWaiting(n) == state[n] = "waiting"

\* What the code of u does next.
Next1(u) == Code[u][at[u]]
AtEnd(u) == at[u] = Len(Code[u]) + 1
Does(u, op) == ~AtEnd(u) /\ Next1(u).op = op

\* Where the code of u is past the call m it has begun.
Past(u, m) == 1 + CHOOSE i \in at[u]..Len(Code[u]) : Code[u][i] = Finish(m)

Stops(u) == {n \in Next1(u).nodes : IsWaiting(n)}

Active == {s \in Step : step[s] # "none"}

\* held: another step of the name of s is at work.
IsHeld(s) == \E t \in Active \ {s} : Name[t] = Name[s]

Job(n, work) == [node |-> n, work |-> work]

\* What each target that is not done waits for (Run::root_demands).
Demands ==
    UNION ({waits[r] : r \in {q \in Root : main[q] = "paused"}}
        \cup {{n \in Holes[r] : IsWaiting(n)} : r \in {q \in Root : main[q] = "holding"}})

\* A mistake in place of ReadyNodes: what is under way is started again.
ReadyAgain ==
    {n \in UNION {Needs[d] : d \in Demands} :
        IsWaiting(n) /\ n \notin Active /\ \A d \in Data[n] : ~IsWaiting(d)}
\* Graph::ready, of what is not under way.
ReadyNodes ==
    {n \in UNION {Needs[d] : d \in Demands} :
        /\ IsWaiting(n)
        /\ \A d \in Data[n] : ~IsWaiting(d)
        /\ n \notin Active /\ n \notin inFlight}

Init ==
    /\ phase = "roots" /\ left = Root /\ unit = None
    /\ moved = FALSE /\ ended = FALSE
    /\ at = [u \in Unit |-> 1]
    /\ main = [r \in Root |-> "runnable"]
    /\ waits = [r \in Root |-> {}]
    /\ step = [s \in Step |-> "none"]
    /\ tries = Retries
    /\ state = [n \in Node |-> "unmade"]
    /\ memo = [m \in Memo |-> None]
    /\ jobs = {} /\ results = {} /\ inFlight = {}
    /\ sent = [e \in Effect |-> 0]
    /\ background = 0 /\ uploads = 0

-----------------------------------------------------------------------------
(* A unit runs (Run::run_roots, Run::advance_step): until it stops. *)

Pick(u) ==
    /\ phase \in {"roots", "steps"}
    /\ unit = None
    /\ u \in left
    /\ unit' = u
    /\ left' = left \ {u}
    /\ UNCHANGED <<phase, moved, ended, units, state, pool>>

\* It makes nodes, which wait for their results.
MakeNodes(u) ==
    /\ unit = u
    /\ ~AtEnd(u)
    /\ Next1(u).op \in {"call", "stop"}
    /\ \E n \in Next1(u).nodes : state[n] = "unmade"
    /\ state' = [n \in Node |->
          IF n \in Next1(u).nodes /\ state[n] = "unmade" THEN "waiting" ELSE state[n]]
    /\ UNCHANGED <<loop, units, pool>>

\* It goes on: past what it made, what it is given, and calls it begins,
\* ends, or finds ended.
GoOn(u) ==
    /\ unit = u
    /\ \/ /\ Does(u, "call")
          /\ \A n \in Next1(u).nodes : state[n] # "unmade"
          /\ at' = [at EXCEPT ![u] = @ + 1]
          /\ UNCHANGED <<memo, ended>>
       \/ /\ Does(u, "stop")
          /\ \A n \in Next1(u).nodes : state[n] = "given"
          /\ at' = [at EXCEPT ![u] = @ + 1]
          /\ UNCHANGED <<memo, ended>>
       \/ /\ Does(u, "begin")
          /\ memo[Next1(u).memo] = None
          /\ memo' = [memo EXCEPT ![Next1(u).memo] = u]
          /\ at' = [at EXCEPT ![u] = @ + 1]
          /\ UNCHANGED ended
       \/ /\ Does(u, "begin")
          /\ memo[Next1(u).memo] = "ended"
          /\ at' = [at EXCEPT ![u] = Past(u, Next1(u).memo)]
          /\ UNCHANGED <<memo, ended>>
       \/ /\ Does(u, "finish")
          /\ memo' = [memo EXCEPT ![Next1(u).memo] = "ended"]
          /\ ended' = TRUE
          /\ at' = [at EXCEPT ![u] = @ + 1]
    /\ UNCHANGED <<phase, left, unit, moved, main, waits, step, tries, state, pool>>

\* It stops here for results the engine has not given.
StopsHere(u) ==
    /\ unit = u
    /\ Does(u, "stop")
    /\ \A n \in Next1(u).nodes : state[n] \notin {"unmade", "failed"}
    /\ Stops(u) # {}

\* It stops here for another unit, which runs a call it needs.
WaitsHere(u) ==
    /\ unit = u
    /\ Does(u, "begin")
    /\ memo[Next1(u).memo] \in Unit

FailsHere(u) ==
    /\ unit = u
    /\ Does(u, "stop")
    /\ \E n \in Next1(u).nodes : state[n] = "failed"

\* What u began it abandons as it fails, and another unit may begin it again.
Abandoned(u) == [m \in Memo |-> IF memo[m] = u THEN None ELSE memo[m]]

Halted == unit' = None

\* A target stops for nodes: for a step's result it fails, under
\* --no-dynamic, and is done with, in a query.
Pause(r) ==
    /\ StopsHere(r)
    /\ r \in Root
    /\ main' = [main EXCEPT ![r] =
          IF Stops(r) \cap Step = {} \/ Mode = "build" THEN "paused"
          ELSE IF Mode = "query" THEN "done" ELSE "failed"]
    /\ waits' = [waits EXCEPT ![r] = Stops(r)]
    /\ Halted
    /\ UNCHANGED <<phase, left, moved, ended, at, step, tries, memo, state, pool>>

AwaitUnit(r) ==
    /\ WaitsHere(r)
    /\ r \in Root
    /\ main' = [main EXCEPT ![r] = "waiting"]
    /\ Halted
    /\ UNCHANGED <<phase, left, moved, ended, at, waits, step, tries, memo, state, pool>>

Hold(r) ==
    /\ unit = r
    /\ r \in Root
    /\ AtEnd(r)
    /\ main' = [main EXCEPT ![r] = "holding"]
    /\ Halted
    /\ UNCHANGED <<phase, left, moved, ended, at, waits, step, tries, memo, state, pool>>

FailRoot(r) ==
    /\ FailsHere(r)
    /\ r \in Root
    /\ main' = [main EXCEPT ![r] = "failed"]
    /\ memo' = Abandoned(r)
    /\ ended' = (ended \/ memo' # memo)
    /\ Halted
    /\ UNCHANGED <<phase, left, moved, at, waits, step, tries, state, pool>>

-----------------------------------------------------------------------------
(* What targets need is started (Run::root_demands, Run::start_needed). *)

\* A mistake in place of Demand: any failure is every target's.
DemandAll ==
    /\ phase = "roots" /\ unit = None /\ left = {}
    /\ main' = [r \in Root |->
          IF main[r] # "holding" THEN main[r]
          ELSE IF \E n \in Holes[r] : IsWaiting(n) THEN "holding"
          ELSE IF \E n \in Node : state[n] = "failed" THEN "failed" ELSE "done"]
    /\ IF \A r \in Root : main'[r] \in {"done", "failed"}
       THEN phase' = "uploads" /\ left' = {}
       ELSE phase' = "need" /\ left' = ReadyNodes
    /\ UNCHANGED <<unit, moved, ended, at, waits, step, tries, memo, state, pool>>

\* A value that has no holes, a target is done with; a query, with any.
Demand ==
    /\ phase = "roots" /\ unit = None /\ left = {}
    /\ main' = [r \in Root |->
          IF main[r] # "holding" THEN main[r]
          ELSE IF Mode = "query" THEN "done"
          ELSE IF \E n \in Holes[r] : IsWaiting(n) THEN "holding"
          ELSE IF \E n \in Holes[r] : state[n] = "failed" THEN "failed" ELSE "done"]
    /\ IF \A r \in Root : main'[r] \in {"done", "failed"}
       THEN phase' = "uploads" /\ left' = {}
       ELSE phase' = "need" /\ left' = ReadyNodes
    /\ UNCHANGED <<unit, moved, ended, at, waits, step, tries, memo, state, pool>>

\* What needs a failed result fails with it, unrun.
FailWith(n) ==
    /\ phase = "need" /\ n \in left
    /\ n \in Step => Mode # "query"
    /\ \E d \in Data[n] : state[d] = "failed"
    /\ state' = [state EXCEPT ![n] = "failed"]
    /\ left' = left \ {n}
    /\ moved' = TRUE
    /\ UNCHANGED <<phase, unit, ended, units, pool>>

Startable(s) ==
    /\ phase = "need" /\ s \in left \cap Step
    /\ Mode # "query"
    /\ \A d \in Data[s] : state[d] # "failed"

\* Not started this round: a query's step, or one that waits for the step
\* that holds its name.
Skip(s) ==
    /\ phase = "need" /\ s \in left \cap Step
    /\ Mode = "query" \/ (Startable(s) /\ IsHeld(s))
    /\ left' = left \ {s}
    /\ UNCHANGED <<phase, unit, moved, ended, units, state, pool>>

\* Found in the store, or one with the step that held its name.
StartFound(s) ==
    /\ Startable(s) /\ ~IsHeld(s)
    /\ s \in Stored \/ \E t \in Step \ {s} : Name[t] = Name[s] /\ state[t] = "given"
    /\ state' = [state EXCEPT ![s] = "given"]
    /\ left' = left \ {s}
    /\ moved' = TRUE
    /\ UNCHANGED <<phase, unit, ended, units, pool>>

\* Staged, to run; or first looked for in the remote cache.
StartWork(s) ==
    /\ Startable(s) /\ ~IsHeld(s)
    /\ LET work == IF Remote THEN "manifest" ELSE "stage"
       IN  /\ step' = [step EXCEPT ![s] = work]
           /\ jobs' = jobs \cup {Job(s, work)}
    /\ background' = background + 1
    /\ left' = left \ {s}
    /\ moved' = TRUE
    /\ UNCHANGED <<phase, unit, ended, at, main, waits, tries, memo, state, results, inFlight, sent, uploads>>

\* Run::dispatch of a target's own effect: sent to the pool, or refused.
StartEffect(e) ==
    /\ phase = "need" /\ e \in left \cap Effect
    /\ \A d \in Data[e] : state[d] # "failed"
    /\ \/ /\ jobs' = jobs \cup {Job(e, "effect")}
          /\ inFlight' = inFlight \cup {e}
          /\ sent' = [sent EXCEPT ![e] = @ + 1]
          /\ UNCHANGED state
       \/ /\ e \in MayFail
          /\ state' = [state EXCEPT ![e] = "failed"]
          /\ UNCHANGED <<jobs, inFlight, sent>>
    /\ left' = left \ {e}
    /\ moved' = TRUE
    /\ UNCHANGED <<phase, unit, ended, units, results, background, uploads>>

Needed ==
    /\ phase = "need" /\ left = {}
    /\ phase' = "steps"
    /\ left' = {s \in Step : step[s] = "runnable"}
    /\ moved' = (moved \/ left' # {})
    /\ UNCHANGED <<unit, ended, units, state, pool>>

-----------------------------------------------------------------------------
(* Steps that may go on do (Run::advance_steps). *)

\* It stops for an effect, which goes to the pool, or is refused at once.
PauseStep(s) ==
    /\ StopsHere(s)
    /\ s \in Step
    /\ \E e \in Stops(s) :
          \/ /\ step' = [step EXCEPT ![s] = "paused"]
             /\ jobs' = jobs \cup {Job(e, "effect")}
             /\ inFlight' = inFlight \cup {e}
             /\ sent' = [sent EXCEPT ![e] = @ + 1]
             /\ UNCHANGED state
          \/ /\ e \in MayFail
             /\ state' = [state EXCEPT ![e] = "failed"]
             /\ UNCHANGED <<step, jobs, inFlight, sent>>
    /\ Halted
    /\ UNCHANGED <<phase, left, moved, ended, at, main, waits, tries, memo, results, background, uploads>>

AwaitUnitStep(s) ==
    /\ WaitsHere(s)
    /\ s \in Step
    /\ step' = [step EXCEPT ![s] = "waiting"]
    /\ Halted
    /\ UNCHANGED <<phase, left, moved, ended, at, main, waits, tries, memo, state, pool>>

\* Run::succeeded: what its result names is kept on the pool, unless it is
\* neither its own nor given to it.
Succeed(s) ==
    /\ unit = s
    /\ s \in Step
    /\ AtEnd(s)
    /\ \/ /\ step' = [step EXCEPT ![s] = "keeping"]
          /\ jobs' = jobs \cup {Job(s, "keep")}
          /\ background' = background + 1
          /\ UNCHANGED state
       \/ /\ s \in MayFail
          /\ step' = [step EXCEPT ![s] = "none"]
          /\ state' = [state EXCEPT ![s] = "failed"]
          /\ UNCHANGED <<jobs, background>>
    /\ Halted
    /\ UNCHANGED <<phase, left, moved, ended, at, main, waits, tries, memo, results, inFlight, sent, uploads>>

\* Run::failed: tried again afresh, unless its tries, or its time, are over.
TryAgain(s) ==
    /\ FailsHere(s)
    /\ s \in Step
    /\ tries[s] > 0
    /\ tries' = [tries EXCEPT ![s] = @ - 1]
    /\ step' = [step EXCEPT ![s] = "stage"]
    /\ at' = [at EXCEPT ![s] = 1]
    /\ memo' = Abandoned(s)
    /\ ended' = (ended \/ memo' # memo)
    /\ state' = [n \in Node |-> IF n \in Effect /\ Of[n] = s THEN "unmade" ELSE state[n]]
    /\ sent' = [e \in Effect |-> IF Of[e] = s THEN 0 ELSE sent[e]]
    /\ jobs' = jobs \cup {Job(s, "stage")}
    /\ background' = background + 1
    /\ Halted
    /\ UNCHANGED <<phase, left, moved, main, waits, results, inFlight, uploads>>

FailStep(s) ==
    /\ FailsHere(s)
    /\ s \in Step
    /\ tries[s] = 0 \/ s \in Timed
    /\ step' = [step EXCEPT ![s] = "none"]
    /\ state' = [state EXCEPT ![s] = "failed"]
    /\ memo' = Abandoned(s)
    /\ ended' = (ended \/ memo' # memo)
    /\ Halted
    /\ UNCHANGED <<phase, left, moved, at, main, waits, tries, pool>>

\* A mistake in place of Advanced: the pool is waited for whatever it has.
AdvancedAnyway ==
    /\ phase = "steps" /\ unit = None /\ left = {}
    /\ phase' = "pool"
    /\ UNCHANGED <<left, unit, moved, ended, units, state, pool>>

Advanced ==
    /\ phase = "steps" /\ unit = None /\ left = {}
    /\ phase' = IF inFlight # {} \/ background > 0 THEN "pool" ELSE "wake"
    /\ UNCHANGED <<left, unit, moved, ended, units, state, pool>>

-----------------------------------------------------------------------------
(* What the pool did is taken (Run::finished): one thing at least, waited   *)
(* for, and whatever else there is.                                         *)

Taking(r) ==
    /\ phase \in {"pool", "drain"}
    /\ r \in results
    /\ phase' = IF r.work = "stage" /\ ~r.ok THEN "broken" ELSE "drain"
    /\ results' = results \ {r}
    /\ moved' = TRUE
    /\ UNCHANGED <<left, unit, ended, at, main, waits, tries, memo>>

\* Run::staged: it may run; or it could not be, and the build fails.
Staged(r) ==
    /\ Taking(r)
    /\ r.work = "stage"
    /\ step' = IF r.ok THEN [step EXCEPT ![r.node] = "runnable"] ELSE step
    /\ background' = background - 1
    /\ UNCHANGED <<state, jobs, inFlight, sent, uploads>>

\* Run::kept: recorded, and its record uploaded; or a file is not there.
Kept(r) ==
    /\ Taking(r)
    /\ r.work = "keep"
    /\ step' = [step EXCEPT ![r.node] = "none"]
    /\ state' = [state EXCEPT ![r.node] = IF r.ok THEN "given" ELSE "failed"]
    /\ background' = background - 1
    /\ IF r.ok /\ Remote
       THEN jobs' = jobs \cup {Job(r.node, "upload")} /\ uploads' = uploads + 1
       ELSE UNCHANGED <<jobs, uploads>>
    /\ UNCHANGED <<inFlight, sent>>

\* A mistake in place of Looked: each thing asked for is counted once more.
LookedTwice(r) ==
    /\ Taking(r)
    /\ r.work \in {"manifest", "records"}
    /\ LET work == IF r.work = "manifest" /\ r.ok THEN "records" ELSE "stage"
       IN  /\ step' = [step EXCEPT ![r.node] = work]
           /\ jobs' = jobs \cup {Job(r.node, work)}
    /\ background' = background + 1
    /\ UNCHANGED <<state, inFlight, sent, uploads>>

\* Run::looked_remotely: the records its manifest names are asked for; found,
\* the step is given its result; else it is staged.
Looked(r) ==
    LET more == r.work = "manifest" /\ r.ok
        found == r.work = "records" /\ r.ok
        work == IF more THEN "records" ELSE "stage"
    IN  /\ Taking(r)
        /\ r.work \in {"manifest", "records"}
        /\ IF found
           THEN /\ step' = [step EXCEPT ![r.node] = "none"]
                /\ state' = [state EXCEPT ![r.node] = "given"]
                /\ background' = background - 1
                /\ UNCHANGED jobs
           ELSE /\ step' = [step EXCEPT ![r.node] = work]
                /\ jobs' = jobs \cup {Job(r.node, work)}
                /\ UNCHANGED <<state, background>>
        /\ UNCHANGED <<inFlight, sent, uploads>>

\* Run::finished_effect: what waits for it may run again.
EffectDone(r) ==
    /\ Taking(r)
    /\ r.work = "effect"
    /\ inFlight' = inFlight \ {r.node}
    /\ state' = [state EXCEPT ![r.node] = IF r.ok THEN "given" ELSE "failed"]
    /\ step' = [s \in Step |->
          IF Of[r.node] = s /\ step[s] = "paused" THEN "runnable" ELSE step[s]]
    /\ UNCHANGED <<jobs, sent, background, uploads>>

Uploaded(r) ==
    /\ Taking(r)
    /\ r.work = "upload"
    /\ uploads' = uploads - 1
    /\ UNCHANGED <<step, state, jobs, inFlight, sent, background>>

Take(r) == Staged(r) \/ Kept(r) \/ Looked(r) \/ EffectDone(r) \/ Uploaded(r)

Drained ==
    /\ phase = "drain" /\ results = {}
    /\ phase' = "wake"
    /\ UNCHANGED <<left, unit, moved, ended, units, state, pool>>

-----------------------------------------------------------------------------
(* The round ends. *)

Waiting == {r \in Root : main[r] = "waiting"} \cup {s \in Step : step[s] = "waiting"}

\* A mistake in place of Progressed: the calls that ended are not looked at.
MovedOnly == moved

Progressed == moved \/ ended

Given == {r \in Root : main[r] = "paused" /\ \E n \in waits[r] : ~IsWaiting(n)}

\* What waits for another unit runs again, as anything ran (Run::wake_waiting),
\* and so does what was given a result.
Round ==
    /\ phase = "wake"
    /\ Progressed \/ (Waiting = {} /\ Given # {})
    /\ main' = [r \in Root |->
          IF r \in Waiting \cup Given THEN "runnable" ELSE main[r]]
    /\ waits' = [r \in Root |-> IF r \in Given THEN {} ELSE waits[r]]
    /\ step' = [s \in Step |-> IF s \in Waiting THEN "runnable" ELSE step[s]]
    /\ left' = {r \in Root : main'[r] = "runnable"}
    /\ phase' = "roots"
    /\ moved' = FALSE /\ ended' = FALSE
    /\ UNCHANGED <<unit, at, tries, memo, state, pool>>

\* Nothing can: the build fails.
GiveUp ==
    /\ phase = "wake"
    /\ ~Progressed
    /\ Waiting = {} => Given = {}
    /\ phase' = IF Waiting # {} THEN "each other" ELSE "nothing"
    /\ UNCHANGED <<left, unit, moved, ended, units, state, pool>>

\* Run::finish_uploads: anything else is needed no longer.
FinishUploads ==
    /\ phase = "uploads"
    /\ \/ /\ uploads > 0
          /\ \E r \in results :
                /\ results' = results \ {r}
                /\ uploads' = IF r.work = "upload" THEN uploads - 1 ELSE uploads
          /\ UNCHANGED phase
       \/ /\ uploads = 0
          /\ phase' = "built"
          /\ UNCHANGED <<results, uploads>>
    /\ UNCHANGED <<left, unit, moved, ended, units, state, jobs, inFlight, sent, background>>

\* A thread of the pool ends a job (pool.rs, perform).
Perform(j) ==
    /\ j \in jobs
    /\ jobs' = jobs \ {j}
    /\ \E ok \in BOOLEAN :
          /\ j.work \in {"effect", "keep"} /\ ~ok => j.node \in MayFail
          /\ j.work \in {"manifest", "records"} /\ ok => j.node \in Stored
          /\ j.work = "stage" /\ ~ok => j.node \in Unstaged
          /\ results' = results \cup {[node |-> j.node, work |-> j.work, ok |-> ok]}
    /\ UNCHANGED <<loop, units, state, inFlight, sent, background, uploads>>

-----------------------------------------------------------------------------

RunUnit(u) ==
    \/ Pick(u) \/ MakeNodes(u) \/ GoOn(u)
    \/ Pause(u) \/ AwaitUnit(u) \/ Hold(u) \/ FailRoot(u)
    \/ PauseStep(u) \/ AwaitUnitStep(u) \/ Succeed(u) \/ TryAgain(u) \/ FailStep(u)

StartNode(n) == FailWith(n) \/ Skip(n) \/ StartFound(n) \/ StartWork(n) \/ StartEffect(n)

Drive ==
    \/ \E u \in Unit : RunUnit(u)
    \/ \E n \in Node : StartNode(n)
    \/ \E r \in results : Take(r)
    \/ Demand \/ Needed \/ Advanced \/ Drained \/ Round \/ GiveUp \/ FinishUploads

Next == Drive \/ \E j \in jobs : Perform(j)

Spec == Init /\ [][Next]_vars

-----------------------------------------------------------------------------
(* Properties. *)

TypeOK ==
    /\ phase \in {"roots", "need", "steps", "pool", "drain", "wake", "uploads",
                 "built", "each other", "nothing", "broken"}
    /\ left \subseteq Unit \cup Node /\ unit \in Unit \cup {None}
    /\ moved \in BOOLEAN /\ ended \in BOOLEAN
    /\ \A u \in Unit : at[u] \in 1..Len(Code[u]) + 1
    /\ main \in [Root -> {"runnable", "paused", "waiting", "holding", "done", "failed"}]
    /\ waits \in [Root -> SUBSET Node]
    /\ step \in [Step -> {"none", "manifest", "records", "stage", "runnable", "paused",
                         "waiting", "keeping"}]
    /\ tries \in [Step -> Nat]
    /\ state \in [Node -> {"unmade", "waiting", "given", "failed"}]
    /\ memo \in [Memo -> Unit \cup {None, "ended"}]
    /\ inFlight \subseteq Effect /\ sent \in [Effect -> Nat]
    /\ background \in Nat /\ uploads \in Nat

Out(works) == {j \in jobs : j.work \in works} \cup {r \in results : r.work \in works}

\* The engine waits for the pool exactly when the pool has something of its
\* to give: each counter counts what is out, none goes below 0, and a step is
\* as far as what is out for it (Run::drive's test of in_flight and
\* background), until only uploads are waited for and all else is dropped.
Accounted ==
    /\ uploads = Cardinality(Out({"upload"}))
    /\ phase \notin {"uploads", "built"} =>
          /\ background = Cardinality(Out({"stage", "keep", "manifest", "records"}))
          /\ inFlight = {o.node : o \in Out({"effect"})}
    /\ phase \notin {"uploads", "built", "broken"} => \A s \in Step :
          /\ step[s] \in {"manifest", "records", "stage", "keeping"} <=>
                \E o \in Out({"stage", "keep", "manifest", "records"}) : o.node = s
          /\ step[s] = "paused" => \E e \in inFlight : Of[e] = s

\* A step's body runs, and its result is kept, only with all it is given there.
GivenFirst ==
    \A s \in Step : step[s] \in {"runnable", "paused", "waiting", "keeping"} =>
        \A d \in Data[s] : state[d] = "given"

\* No effect is performed twice in an attempt, though each round demands again
\* what targets still wait for (Run::start_needed, Run::advance_step).
OnceAnAttempt == \A e \in Effect : sent[e] <= 1

\* A result is never taken back, but with the attempt it was of.
ResultsStay ==
    [][\A n \in Node : state[n] \in {"given", "failed"} =>
          \/ state'[n] = state[n]
          \/ n \in Effect /\ Of[n] # None /\ tries'[Of[n]] < tries[Of[n]]]_vars

\* What the code of r may meet.
Met(r) ==
    LET called == UNION {Code[r][i].nodes :
                          i \in {k \in 1..Len(Code[r]) : Code[r][k].op \in {"call", "stop"}}}
    IN  UNION {Needs[n] : n \in called \cup Holes[r]}

\* "A target that fails, in its evaluation or by a step it needs, fails alone"
\* (engine.rs): it meets something that failed, and the others are done, each
\* with all its value has.
FailsAlone ==
    \A r \in Root :
        /\ main[r] = "failed" => Mode = "static" \/ \E n \in Met(r) : state[n] = "failed"
        /\ main[r] = "done" => Mode = "query" \/ \A n \in Holes[r] : state[n] = "given"

\* The build gives up only as its units do wait for each other: each that
\* waits, waits for one that waits too.  It never waits for nothing.
GivesUpRightly ==
    /\ phase # "nothing"
    /\ phase = "each other" => \A u \in Waiting : memo[Next1(u).memo] \in Waiting

-----------------------------------------------------------------------------

\* The engine's thread and the pool's run, and each job of theirs ends.
FairSpec == Spec /\ WF_vars(Drive) /\ WF_vars(\E j \in jobs : Perform(j))

\* Every build ends, with every target done, or gives up.
Ends == <>(phase \in {"built", "each other", "nothing", "broken"})

=============================================================================
