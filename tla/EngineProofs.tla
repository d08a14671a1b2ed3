---------------------------- MODULE EngineProofs ----------------------------
(***************************************************************************)
(* What Engine's runs check, for every build: whatever its targets, steps, *)
(* effects and calls, and what each does.                                  *)
(***************************************************************************)
EXTENDS Engine, FiniteSetTheorems, TLAPS

-----------------------------------------------------------------------------
(* The invariant. *)

\* The engine's own work for steps, and what a step is at meanwhile.
Back == {"stage", "keep", "manifest", "records"}
Doing(work) == IF work = "keep" THEN "keeping" ELSE work
Doings == {"stage", "keeping", "manifest", "records"}

\* All that is out.
Pending == jobs \cup results

\* The build goes on: nothing that is out is dropped.
Live == phase \notin {"uploads", "built"}

Phases == {"roots", "need", "steps", "pool", "drain", "wake", "uploads", "built",
           "each other", "nothing", "broken"}
MainAt == {"runnable", "paused", "waiting", "holding", "done", "failed"}
StepAt == {"none", "manifest", "records", "stage", "runnable", "paused", "waiting", "keeping"}
StateAt == {"unmade", "waiting", "given", "failed"}

LoopTyped ==
    /\ phase \in Phases
    /\ left \subseteq Unit \cup Node /\ unit \in Unit \cup {None}
    /\ moved \in BOOLEAN /\ ended \in BOOLEAN

AtTyped == at \in [Unit -> Nat] /\ \A u \in Unit : at[u] \in 1..Len(Code[u]) + 1

UnitsTyped ==
    /\ main \in [Root -> MainAt]
    /\ waits \in [Root -> SUBSET Shared]
    /\ step \in [Step -> StepAt]
    /\ tries \in [Step -> Nat]
    /\ memo \in [Memo -> Unit \cup {None, "ended"}]

NodesTyped ==
    /\ state \in [Node -> StateAt]
    /\ inFlight \subseteq Effect /\ sent \in [Effect -> Nat]
    /\ background \in Int /\ uploads \in Int

OutTyped ==
    /\ \A o \in Pending :
          /\ o.work \in Back \cup {"effect", "upload"}
          /\ o.node \in IF o.work = "effect" THEN Effect ELSE Step
    /\ \A r \in results : r.ok \in BOOLEAN

Typed == LoopTyped /\ AtTyped /\ UnitsTyped /\ NodesTyped /\ OutTyped

\* Whose turn it is.
Turns ==
    /\ unit \in Root => phase = "roots" /\ main[unit] = "runnable" /\ unit \notin left
    /\ unit \in Step => phase = "steps" /\ step[unit] = "runnable" /\ unit \notin left
    /\ phase = "roots" => left \subseteq Root
    /\ phase = "steps" => left \subseteq Step /\ \A s \in left : step[s] = "runnable"
    /\ phase \notin {"roots", "need", "steps"} => left = {}
    /\ \A r \in Root : main[r] = "runnable" <=> phase = "roots" /\ r \in left \cup {unit}

\* What is to be started is to be made, and not under way.
ToStart ==
    phase = "need" => \A n \in left :
        n \in Shared /\ state[n] = "waiting" /\ n \notin Active \cup inFlight
        /\ \A d \in Data[n] : state[d] # "waiting"

\* Of each node one thing is out at most, in one place.
OneOut ==
    /\ IsFiniteSet(jobs) /\ IsFiniteSet(results)
    /\ jobs \cap results = {}
    /\ \A o, p \in Pending : o.node = p.node => o = p

\* The counters are of what is out.
Counted ==
    /\ uploads = Cardinality(Out({"upload"}))
    /\ Live => background = Cardinality(Out(Back))

\* A step is as far as what is out for it.
InStep ==
    /\ \A o \in Pending : o.work \in Back => step[o.node] = Doing(o.work)
    /\ Live /\ phase # "broken" => \A s \in Step : step[s] \in Doings =>
          \E o \in Pending : o.work \in Back /\ o.node = s
    /\ \A o \in Pending : o.work = "upload" => state[o.node] = "given"

\* What is in flight is out, and a step is stopped for its effect that is.
Flying ==
    /\ Live => \A e \in Effect :
          e \in inFlight <=> \E o \in Pending : o.work = "effect" /\ o.node = e
    /\ \A s \in Step : step[s] = "paused" => \E e \in inFlight : Of[e] = s
    /\ \A e \in inFlight : Of[e] # None => step[Of[e]] = "paused"
    /\ \A e, f \in inFlight : Of[e] = Of[f] /\ Of[e] # None => e = f

\* What is under way has no result yet, and what was sent is under way or has.
UnderWay ==
    /\ \A s \in Active : state[s] = "waiting"
    /\ \A e \in inFlight : state[e] = "waiting"
    /\ \A e \in Effect :
          /\ sent[e] \in {0, 1}
          /\ state[e] = "unmade" => sent[e] = 0
          /\ state[e] = "waiting" /\ sent[e] = 1 => e \in inFlight

\* The nodes that targets share and the code of u has from i to j.
Between(u, i, j) == Shared \cap UNION {At(u, k) : k \in i..j}

\* What a unit is past, and what calls that ended made, is made, each with what
\* it is given.
Made ==
    /\ \A u \in Unit : \A n \in Between(u, 1, at[u] - 1) : state[n] # "unmade"
    /\ \A u \in Unit : \A b, f \in DOMAIN Code[u] :
          IsCall(u, b, f) /\ memo[Code[u][b].memo] = "ended" =>
             \A n \in Between(u, b, f) : state[n] # "unmade"
    /\ \A n \in Shared : state[n] # "unmade" => \A d \in Data[n] : state[d] # "unmade"
    /\ \A r \in Root : main[r] = "holding" => \A n \in Holes[r] : state[n] # "unmade"

\* A step at work has all it is given.
Given1 == \A s \in Active : \A d \in Data[s] : state[d] = "given"

Alone ==
    \A r \in Root :
        /\ main[r] = "failed" => Mode = "static" \/ \E n \in Met(r) \cap Shared : state[n] = "failed"
        /\ main[r] = "done" => Mode = "query" \/ \A n \in Holes[r] : state[n] = "given"

\* Where the code of u is in the call m, and whether u may go on.
InCall(u, m) ==
    \E b, f \in DOMAIN Code[u] :
        IsCall(u, b, f) /\ Code[u][b].memo = m /\ b < at[u] /\ at[u] <= f
MayGoOn(u) ==
    /\ u \in Root => main[u] \in {"runnable", "paused", "waiting"}
    /\ u \in Step => step[u] \in {"runnable", "paused", "waiting"}

\* Who has begun a call is in it, and may go on.
Holders ==
    \A m \in Memo : memo[m] \in Unit => InCall(memo[m], m) /\ MayGoOn(memo[m])

\* Until a call ends, who waits, waits for one that another has begun.
Awaited ==
    ~ended => \A u \in Waiting : Does(u, "begin") /\ memo[Next1(u).memo] \in Unit

\* A target that stopped waits for all it stopped for, as long as nothing moved.
Stopped ==
    \A r \in Root : main[r] = "paused" =>
        waits[r] # {} /\ (~moved => \A n \in waits[r] : state[n] = "waiting")

\* Nothing moved, so no step ran.
StepsStill ==
    /\ \A s \in Step : step[s] = "waiting" => moved
    /\ phase = "steps" /\ ~moved =>
          left = {} /\ unit = None /\ \A s \in Step : step[s] # "runnable"
    /\ phase = "drain" => moved

\* Past root_demands some target is not done.
Unfinished ==
    phase \in {"need", "steps", "pool", "drain", "wake", "each other", "nothing"} =>
        \E r \in Root : main[r] \notin {"done", "failed"}

\* No target waits for results.
NoneWants == \A r \in Root : main[r] \notin {"paused", "holding"}

\* What targets wait for is under way, or is to be started.
Stirring ==
    /\ phase = "need" /\ ~moved => left # {} \/ Active # {} \/ inFlight # {} \/ NoneWants
    /\ phase = "steps" /\ ~moved => Active # {} \/ inFlight # {} \/ NoneWants
    /\ phase = "wake" /\ ~moved => Active = {} /\ NoneWants

-----------------------------------------------------------------------------
(* Of code, and of counting. *)

\* What a place in the code of a unit holds.
LEMMA CodeIs ==
    ASSUME NEW u \in Unit
    PROVE  /\ Len(Code[u]) \in Nat /\ DOMAIN Code[u] = 1..Len(Code[u])
           /\ \A i \in DOMAIN Code[u] :
                 /\ Code[u][i].op \in {"call", "stop", "begin", "finish"}
                 /\ Code[u][i].op \in {"call", "stop"} =>
                       Code[u][i].nodes \subseteq Node /\ At(u, i) = Code[u][i].nodes
                 /\ Code[u][i].op \in {"begin", "finish"} =>
                       Code[u][i].memo \in Memo /\ At(u, i) = {}
                 /\ Code[u][i].op = "begin" => Code[u][i] = Begin(Code[u][i].memo)
                 /\ Code[u][i].op = "finish" => Code[u][i] = Finish(Code[u][i].memo)
  <1> DEFINE Ops == {Call(nodes) : nodes \in SUBSET Node} \cup {Stop(nodes) : nodes \in SUBSET Node}
                       \cup {Begin(m) : m \in Memo} \cup {Finish(m) : m \in Memo}
  <1>1. Code[u] \in Seq(Ops)
    BY TheBuildIsOne
  <1> HIDE DEF Ops
  <1>2. Len(Code[u]) \in Nat /\ DOMAIN Code[u] = 1..Len(Code[u])
        /\ \A i \in DOMAIN Code[u] : Code[u][i] \in Ops
    BY <1>1
  <1> QED
    BY <1>2 DEF Ops, Call, Stop, Begin, Finish, At

\* What of J and of R is of the works W: Out, of any jobs and results.
OutOf(J, R, W) == {j \in J : j.work \in W} \cup {r \in R : r.work \in W}

\* One more job is counted where it is of the works counted.
LEMMA CountAdd ==
    ASSUME NEW J, NEW R, NEW W, NEW o, IsFiniteSet(J), IsFiniteSet(R), o \notin J \cup R
    PROVE  Cardinality(OutOf(J \cup {o}, R, W))
             = Cardinality(OutOf(J, R, W)) + (IF o.work \in W THEN 1 ELSE 0)
  <1>1. IsFiniteSet(OutOf(J, R, W))
    <2>1. OutOf(J, R, W) \subseteq J \cup R
      BY DEF OutOf
    <2> QED
      BY <2>1, FS_Union, FS_Subset
  <1>2. CASE o.work \in W
    <2>1. OutOf(J \cup {o}, R, W) = OutOf(J, R, W) \cup {o} /\ o \notin OutOf(J, R, W)
      BY <1>2 DEF OutOf
    <2> QED
      BY <1>1, <1>2, <2>1, FS_AddElement
  <1>3. CASE o.work \notin W
    <2>1. OutOf(J \cup {o}, R, W) = OutOf(J, R, W)
      BY <1>3 DEF OutOf
    <2> QED
      BY <1>1, <1>3, <2>1, FS_CardinalityType
  <1> QED
    BY <1>2, <1>3

\* One result fewer, likewise.
LEMMA CountTaken ==
    ASSUME NEW J, NEW R, NEW W, NEW o, IsFiniteSet(J), IsFiniteSet(R), o \in R, o \notin J
    PROVE  Cardinality(OutOf(J, R \ {o}, W))
             = Cardinality(OutOf(J, R, W)) - (IF o.work \in W THEN 1 ELSE 0)
  <1>1. IsFiniteSet(OutOf(J, R, W))
    <2>1. OutOf(J, R, W) \subseteq J \cup R
      BY DEF OutOf
    <2> QED
      BY <2>1, FS_Union, FS_Subset
  <1>2. CASE o.work \in W
    <2>1. OutOf(J, R \ {o}, W) = OutOf(J, R, W) \ {o} /\ o \in OutOf(J, R, W)
      BY <1>2 DEF OutOf
    <2> QED
      BY <1>1, <1>2, <2>1, FS_RemoveElement
  <1>3. CASE o.work \notin W
    <2>1. OutOf(J, R \ {o}, W) = OutOf(J, R, W)
      BY <1>3 DEF OutOf
    <2> QED
      BY <1>1, <1>3, <2>1, FS_CardinalityType
  <1> QED
    BY <1>2, <1>3

\* A job that becomes its result is counted as before.
LEMMA CountDone ==
    ASSUME NEW J, NEW R, NEW W, NEW o, NEW p, IsFiniteSet(J), IsFiniteSet(R),
           o \in J, o \notin R, p.work = o.work, p \notin (J \cup R) \ {o}
    PROVE  Cardinality(OutOf(J \ {o}, R \cup {p}, W)) = Cardinality(OutOf(J, R, W))
  <1>1. IsFiniteSet(OutOf(J, R, W))
    <2>1. OutOf(J, R, W) \subseteq J \cup R
      BY DEF OutOf
    <2> QED
      BY <2>1, FS_Union, FS_Subset
  <1>2. CASE o.work \in W
    <2> DEFINE S == OutOf(J, R, W) \ {o}
    <2>1. OutOf(J \ {o}, R \cup {p}, W) = S \cup {p} /\ p \notin S /\ o \in OutOf(J, R, W)
      BY <1>2 DEF OutOf
    <2>2. IsFiniteSet(S) /\ Cardinality(S) = Cardinality(OutOf(J, R, W)) - 1
      BY <1>1, <2>1, FS_RemoveElement
    <2>3. Cardinality(S \cup {p}) = Cardinality(S) + 1
      BY <2>1, <2>2, FS_AddElement
    <2>4. Cardinality(OutOf(J, R, W)) \in Nat
      BY <1>1, FS_CardinalityType
    <2> HIDE DEF S
    <2>5. Cardinality(OutOf(J \ {o}, R \cup {p}, W)) = Cardinality(S \cup {p})
      BY <2>1
    <2>6. Cardinality(S) + 1 = Cardinality(OutOf(J, R, W))
      BY <2>2, <2>4
    <2> QED
      BY <2>3, <2>5, <2>6
  <1>3. CASE o.work \notin W
    <2>1. OutOf(J \ {o}, R \cup {p}, W) = OutOf(J, R, W)
      BY <1>3 DEF OutOf
    <2> QED
      BY <2>1
  <1> QED
    BY <1>2, <1>3

-----------------------------------------------------------------------------
(* Types. *)

\* Where a unit that is past an ended call goes on.
LEMMA PastIs ==
    ASSUME NEW u \in Unit, at[u] \in DOMAIN Code[u], Next1(u).op = "begin"
    PROVE  \E f \in DOMAIN Code[u] : IsCall(u, at[u], f) /\ Past(u, Next1(u).memo) = f + 1
  <1> DEFINE m == Next1(u).memo
  <1>1. PICK f \in DOMAIN Code[u] : IsCall(u, at[u], f)
    BY CallsAreWhole DEF Next1
  <1>2. f \in at[u]..Len(Code[u]) /\ Code[u][f] = Finish(m)
    BY <1>1, CodeIs DEF IsCall, Next1
  <1> DEFINE g == CHOOSE i \in at[u]..Len(Code[u]) : Code[u][i] = Finish(m)
  <1>3. g \in at[u]..Len(Code[u]) /\ Code[u][g] = Finish(m)
    BY <1>2
  <1>4. g = f
    <2>1. Code[u][f].op = "finish" /\ g \in DOMAIN Code[u] /\ Code[u][f] = Code[u][g]
      BY <1>2, <1>3, CodeIs DEF Finish
    <2> QED
      BY <2>1, CallsAreWhole
  <1>5. Past(u, m) = 1 + f
    BY <1>4 DEF Past
  <1>6. f \in Nat
    BY <1>1, CodeIs DEF IsCall
  <1> QED
    BY <1>1, <1>5, <1>6

\* A unit at work is at a place of its code unless it is at its end.
LEMMA AtIs ==
    ASSUME Typed, NEW u \in Unit, ~AtEnd(u)
    PROVE  at[u] \in DOMAIN Code[u] /\ at[u] \in Nat
  <1>1. at[u] \in 1..Len(Code[u]) + 1 /\ at[u] # Len(Code[u]) + 1
    BY DEF Typed, AtTyped, AtEnd
  <1>2. Len(Code[u]) \in Nat /\ DOMAIN Code[u] = 1..Len(Code[u])
    BY CodeIs
  <1> QED
    BY <1>1, <1>2

\* A target stops for nodes that are shared.
LEMMA StopsAreShared ==
    ASSUME Typed, NEW r \in Root, ~AtEnd(r), Next1(r).op \in {"call", "stop"}
    PROVE  Next1(r).nodes \subseteq Shared
  BY AtIs, CodeIs, NodesAreOwn DEF Next1, Unit

\* A step stops for effects of its own.
LEMMA StopsAreOwn ==
    ASSUME Typed, NEW s \in Step, ~AtEnd(s), Next1(s).op \in {"call", "stop"}
    PROVE  Next1(s).nodes \subseteq {e \in Effect : Of[e] = s}
  BY AtIs, CodeIs, NodesAreOwn DEF Next1, Unit

LEMMA StopsAre ==
    ASSUME Typed, NEW u \in Unit, StopsHere(u)
    PROVE  /\ u \in Root => Stops(u) \subseteq Shared
           /\ u \in Step => Stops(u) \subseteq {e \in Effect : Of[e] = u}
  BY StopsAreShared, StopsAreOwn DEF StopsHere, Does, Stops

\* What is demanded is shared, and so is what it needs.
LEMMA NeedsIs ==
    ASSUME NEW n \in Shared
    PROVE  /\ n \in Node /\ n \in Needs[n] /\ Needs[n] \subseteq Shared
           /\ \A c \in Needs[n] : Data[c] \subseteq Needs[n]
  <1>1. Shared \subseteq Node /\ n \in Node
    BY DEF Shared, Node
  <1>2. Needs[n] = {d \in Node : \A S \in SUBSET Node :
                      n \in S /\ (\A c \in S : Data[c] \subseteq S) => d \in S}
    BY <1>1 DEF Needs
  <1>3. n \in Needs[n]
    BY <1>1, <1>2
  <1>4. Needs[n] \subseteq Shared
    BY <1>1, <1>2, NodesAreOwn
  <1>5. ASSUME NEW c \in Needs[n], NEW d \in Data[c] PROVE d \in Needs[n]
    BY <1>1, <1>2, <1>5, TheBuildIsOne
  <1> QED
    BY <1>1, <1>3, <1>4, <1>5

LEMMA DemandsAreShared ==
    ASSUME Typed
    PROVE  Demands \subseteq Shared /\ ReadyNodes \subseteq Shared
  <1>1. \A r \in Root : Holes[r] \subseteq Shared
    BY NodesAreMadeInOrder, NodesAreOwn
  <1>2. \A r \in Root : waits[r] \subseteq Shared
    BY DEF Typed, UnitsTyped
  <1>3. Demands \subseteq Shared
    BY <1>1, <1>2 DEF Demands
  <1> QED
    BY <1>3, NeedsIs DEF ReadyNodes

LEMMA TypedInit == Init => Typed
  <1> SUFFICES ASSUME Init PROVE Typed
    OBVIOUS
  <1>1. AtTyped
    BY CodeIs DEF Init, AtTyped
  <1>2. UnitsTyped
    BY TheBuildIsOne DEF Init, UnitsTyped, MainAt, StepAt
  <1>3. LoopTyped
    BY DEF Init, LoopTyped, Phases, Unit
  <1>4. NodesTyped
    BY DEF Init, NodesTyped, StateAt
  <1>5. OutTyped
    BY DEF Init, OutTyped, Pending
  <1> QED
    BY <1>1, <1>2, <1>3, <1>4, <1>5 DEF Typed

\* Where the loop is stays typed.
LEMMA LoopTypedNext == ASSUME Typed, [Next]_vars PROVE LoopTyped'
  <1> USE DEF Typed, LoopTyped, vars, loop, units, pool, Phases
  <1>1. ASSUME NEW u \in Unit, RunUnit(u) PROVE LoopTyped'
    BY <1>1 DEF RunUnit, Pick, MakeNodes, GoOn, Pause, AwaitUnit, Hold,
        FailRoot, PauseStep, AwaitUnitStep, Succeed, TryAgain, FailStep, Halted
  <1>2. ASSUME NEW n \in Node, StartNode(n) PROVE LoopTyped'
    BY <1>2 DEF StartNode, FailWith, Skip, Startable, StartFound, StartWork,
        StartEffect
  <1>3. ASSUME NEW r \in results, Take(r) PROVE LoopTyped'
    BY <1>3 DEF Take, Taking, Staged, Kept, Looked, EffectDone, Uploaded
  <1>4. CASE Demand \/ Needed \/ Advanced \/ Drained \/ Round \/ GiveUp \/ FinishUploads
    <2>1. ReadyNodes \subseteq Node
      BY DemandsAreShared DEF Shared, Node
    <2> QED
      BY <1>4, <2>1 DEF Demand, Needed, Advanced, Drained, Round, GiveUp, FinishUploads, Unit
  <1>5. ASSUME NEW j \in jobs, Perform(j) PROVE LoopTyped'
    BY <1>5 DEF Perform
  <1> QED
    BY <1>1, <1>2, <1>3, <1>4, <1>5 DEF Next, Drive

\* Where in its code each unit is does.
LEMMA AtTypedNext == ASSUME Typed, [Next]_vars PROVE AtTyped'
  <1> USE DEF Typed, AtTyped, vars, loop, units, pool
  <1>1. ASSUME NEW u \in Unit, RunUnit(u) PROVE AtTyped'
    <2>1. CASE GoOn(u)
      <3>1. ~AtEnd(u)
        BY <2>1 DEF GoOn, Does
      <3>2. at[u] \in DOMAIN Code[u] /\ at[u] \in Nat
        BY <3>1, AtIs
      <3>3. \E i \in 1..Len(Code[u]) + 1 : at' = [at EXCEPT ![u] = i]
        <4>1. at[u] + 1 \in 1..Len(Code[u]) + 1
          BY <3>2, CodeIs
        <4>2. Next1(u).op = "begin" => Past(u, Next1(u).memo) \in 1..Len(Code[u]) + 1
          BY <3>2, PastIs, CodeIs
        <4> QED
          BY <2>1, <4>1, <4>2 DEF GoOn, Does
      <3>4. PICK i \in 1..Len(Code[u]) + 1 : at' = [at EXCEPT ![u] = i]
        BY <3>3
      <3>5. i \in Nat
        BY CodeIs
      <3> QED
        BY <3>4, <3>5
    <2>2. CASE TryAgain(u)
      <3>1. at' = [at EXCEPT ![u] = 1] /\ Len(Code[u]) \in Nat
        BY <2>2, CodeIs DEF TryAgain
      <3> QED
        BY <3>1
    <2>3. CASE ~GoOn(u) /\ ~TryAgain(u)
      BY <1>1, <2>3 DEF RunUnit, Pick, MakeNodes, Pause, AwaitUnit, Hold,
        FailRoot, PauseStep, AwaitUnitStep, Succeed, FailStep, Halted
    <2> QED
      BY <2>1, <2>2, <2>3
  <1>2. ASSUME NEW n \in Node, StartNode(n) PROVE AtTyped'
    BY <1>2 DEF StartNode, FailWith, Skip, Startable, StartFound, StartWork,
        StartEffect
  <1>3. ASSUME NEW r \in results, Take(r) PROVE AtTyped'
    BY <1>3 DEF Take, Taking, Staged, Kept, Looked, EffectDone, Uploaded
  <1>4. CASE Demand \/ Needed \/ Advanced \/ Drained \/ Round \/ GiveUp \/ FinishUploads
    BY <1>4 DEF Demand, Needed, Advanced, Drained, Round, GiveUp, FinishUploads
  <1>5. ASSUME NEW j \in jobs, Perform(j) PROVE AtTyped'
    BY <1>5 DEF Perform
  <1> QED
    BY <1>1, <1>2, <1>3, <1>4, <1>5 DEF Next, Drive

\* What each target and step is at does.
LEMMA UnitsTypedNext == ASSUME Typed, [Next]_vars PROVE UnitsTyped'
  <1> USE DEF Typed, UnitsTyped, vars, loop, units, pool, MainAt, StepAt, Abandoned
  <1>1. ASSUME NEW u \in Unit, RunUnit(u) PROVE UnitsTyped'
    <2>1. CASE GoOn(u)
      <3>1. ~AtEnd(u) /\ Next1(u).op \in {"begin", "finish"} => Next1(u).memo \in Memo
        BY AtIs, CodeIs DEF Next1
      <3> QED
        BY <2>1, <3>1 DEF GoOn, Does
    <2>2. CASE Pause(u)
      <3>1. Stops(u) \subseteq Shared
        BY <2>2, StopsAre DEF Pause
      <3> QED
        BY <2>2, <3>1 DEF Pause, Halted
    <2>3. CASE TryAgain(u)
      <3>1. tries' \in [Step -> Nat]
        BY <2>3 DEF TryAgain
      <3> QED
        BY <2>3, <3>1 DEF TryAgain
    <2>4. CASE ~GoOn(u) /\ ~Pause(u) /\ ~TryAgain(u)
      BY <1>1, <2>4 DEF RunUnit, Pick, MakeNodes, AwaitUnit, Hold,
        FailRoot, PauseStep, AwaitUnitStep, Succeed, FailStep, Halted
    <2> QED
      BY <2>1, <2>2, <2>3, <2>4
  <1>2. ASSUME NEW n \in Node, StartNode(n) PROVE UnitsTyped'
    BY <1>2 DEF StartNode, FailWith, Skip, Startable, StartFound, StartWork,
        StartEffect
  <1>3. ASSUME NEW r \in results, Take(r) PROVE UnitsTyped'
    BY <1>3 DEF Take, Taking, Staged, Kept, Looked, EffectDone, Uploaded
  <1>4. CASE Demand \/ Needed \/ Advanced \/ Drained \/ Round \/ GiveUp \/ FinishUploads
    <2>1. CASE Demand
      BY <2>1 DEF Demand
    <2>2. CASE Round
      BY <2>2 DEF Round
    <2>3. CASE FinishUploads
      BY <2>3 DEF FinishUploads
    <2>4. CASE Needed \/ Advanced \/ Drained \/ GiveUp
      BY <2>4 DEF Needed, Advanced, Drained, GiveUp
    <2> QED
      BY <1>4, <2>1, <2>2, <2>3, <2>4
  <1>5. ASSUME NEW j \in jobs, Perform(j) PROVE UnitsTyped'
    BY <1>5 DEF Perform
  <1> QED
    BY <1>1, <1>2, <1>3, <1>4, <1>5 DEF Next, Drive

\* The graph does, and the counters.
LEMMA NodesTypedNext == ASSUME Typed, [Next]_vars PROVE NodesTyped'
  <1> USE DEF Typed, NodesTyped, vars, loop, units, pool, StateAt
  <1>1. ASSUME NEW u \in Unit, RunUnit(u) PROVE NodesTyped'
    <2>1. CASE PauseStep(u)
      <3>1. Stops(u) \subseteq Effect /\ Effect \subseteq Node
        BY <2>1, StopsAre DEF PauseStep, Node
      <3> QED
        BY <2>1, <3>1 DEF PauseStep
    <2>2. CASE ~PauseStep(u)
      BY <1>1, <2>2 DEF RunUnit, Pick, MakeNodes, GoOn, Pause, AwaitUnit, Hold,
        FailRoot, AwaitUnitStep, Succeed, TryAgain, FailStep, Halted
    <2> QED
      BY <2>1, <2>2
  <1>2. ASSUME NEW n \in Node, StartNode(n) PROVE NodesTyped'
    BY <1>2 DEF StartNode, FailWith, Skip, Startable, StartFound, StartWork,
        StartEffect
  <1>3. ASSUME NEW r \in results, Take(r) PROVE NodesTyped'
    BY <1>3 DEF Take, Taking, Staged, Kept, Looked, EffectDone, Uploaded
  <1>4. CASE Demand \/ Needed \/ Advanced \/ Drained \/ Round \/ GiveUp \/ FinishUploads
    <2>1. CASE Demand
      BY <2>1 DEF Demand
    <2>2. CASE Round
      BY <2>2 DEF Round
    <2>3. CASE FinishUploads
      BY <2>3 DEF FinishUploads
    <2>4. CASE Needed \/ Advanced \/ Drained \/ GiveUp
      BY <2>4 DEF Needed, Advanced, Drained, GiveUp
    <2> QED
      BY <1>4, <2>1, <2>2, <2>3, <2>4
  <1>5. ASSUME NEW j \in jobs, Perform(j) PROVE NodesTyped'
    BY <1>5 DEF Perform
  <1> QED
    BY <1>1, <1>2, <1>3, <1>4, <1>5 DEF Next, Drive

\* What is out does.
LEMMA OutTypedNext == ASSUME Typed, [Next]_vars PROVE OutTyped'
  <1> USE DEF Typed, OutTyped, vars, loop, units, pool, Pending, Back, Job
  <1>1. ASSUME NEW u \in Unit, RunUnit(u) PROVE OutTyped'
    <2>1. CASE PauseStep(u)
      <3>1. Stops(u) \subseteq Effect
        BY <2>1, StopsAre DEF PauseStep
      <3> QED
        BY <2>1, <3>1 DEF PauseStep
    <2>2. CASE ~PauseStep(u)
      BY <1>1, <2>2 DEF RunUnit, Pick, MakeNodes, GoOn, Pause, AwaitUnit, Hold,
        FailRoot, AwaitUnitStep, Succeed, TryAgain, FailStep, Halted
    <2> QED
      BY <2>1, <2>2
  <1>2. ASSUME NEW n \in Node, StartNode(n) PROVE OutTyped'
    BY <1>2 DEF StartNode, FailWith, Skip, Startable, StartFound, StartWork,
        StartEffect
  <1>3. ASSUME NEW r \in results, Take(r) PROVE OutTyped'
    BY <1>3 DEF Take, Taking, Staged, Kept, Looked, EffectDone, Uploaded
  <1>4. CASE Demand \/ Needed \/ Advanced \/ Drained \/ Round \/ GiveUp \/ FinishUploads
    BY <1>4 DEF Demand, Needed, Advanced, Drained, Round, GiveUp, FinishUploads
  <1>5. ASSUME NEW j \in jobs, Perform(j) PROVE OutTyped'
    BY <1>5 DEF Perform
  <1> QED
    BY <1>1, <1>2, <1>3, <1>4, <1>5 DEF Next, Drive

LEMMA TypedNext == ASSUME Typed, [Next]_vars PROVE Typed'
  BY LoopTypedNext, AtTypedNext, UnitsTypedNext, NodesTypedNext, OutTypedNext DEF Typed

-----------------------------------------------------------------------------
(* Turns, and what is out. *)

Order == Turns /\ ToStart /\ OneOut /\ Counted /\ InStep /\ Flying /\ UnderWay

LEMMA Names ==
    /\ Root \cap Step = {} /\ Root \cap Effect = {} /\ Step \cap Effect = {}
    /\ None \notin Unit /\ None \notin Node /\ "ended" \notin Unit /\ "ended" # None
    /\ Of \in [Effect -> Step \cup {None}] /\ Data \in [Node -> SUBSET Node]
    /\ Unit = Root \cup Step /\ Node = Step \cup Effect
  BY TheBuildIsOne DEF Unit, Node

\* A unit runs in its part of the round, once.
LEMMA TurnsNext == ASSUME Typed, Turns, [Next]_vars PROVE Turns'
  <1> USE Names DEF Turns, vars, loop, units, pool
  <1>1. ASSUME NEW u \in Unit, RunUnit(u) PROVE Turns'
    BY <1>1 DEF RunUnit, Pick, MakeNodes, GoOn, Pause, AwaitUnit, Hold, FailRoot, PauseStep,
        AwaitUnitStep, Succeed, TryAgain, FailStep, Halted, StopsHere, WaitsHere, FailsHere, Typed, UnitsTyped, LoopTyped
  <1>2. ASSUME NEW n \in Node, StartNode(n) PROVE Turns'
    BY <1>2 DEF StartNode, FailWith, Skip, Startable, StartFound, StartWork, StartEffect
  <1>3. ASSUME NEW r \in results, Take(r) PROVE Turns'
    BY <1>3 DEF Take, Taking, Staged, Kept, Looked, EffectDone, Uploaded, Typed, LoopTyped
  <1>4. CASE Demand \/ Needed \/ Advanced \/ Drained \/ Round \/ GiveUp \/ FinishUploads
    <2>1. CASE Demand
      BY <2>1 DEF Demand
    <2>2. CASE Needed
      BY <2>2 DEF Needed
    <2>3. CASE Advanced \/ Drained \/ GiveUp \/ FinishUploads
      BY <2>3 DEF Advanced, Drained, GiveUp, FinishUploads
    <2>4. CASE Round
      <3>1. unit' = None /\ phase' = "roots" /\ left' = {r \in Root : main'[r] = "runnable"}
        BY <2>4 DEF Round, Typed, LoopTyped
      <3> QED
        BY <3>1
    <2> QED
      BY <1>4, <2>1, <2>2, <2>3, <2>4
  <1>5. ASSUME NEW j \in jobs, Perform(j) PROVE Turns'
    BY <1>5 DEF Perform
  <1> QED
    BY <1>1, <1>2, <1>3, <1>4, <1>5 DEF Next, Drive

\* Nothing is out for a step that is not started, or that runs.
LEMMA FreeStep ==
    ASSUME Typed, InStep, NEW s \in Step, step[s] \in {"none", "runnable"}, state[s] = "waiting"
    PROVE  \A o \in Pending : o.node # s
  BY Names DEF Typed, OutTyped, InStep, Doing, Back

\* Nothing is out for an effect that is not in flight.
LEMMA FreeEffect ==
    ASSUME Typed, Flying, Live, NEW e \in Effect, e \notin inFlight
    PROVE  \A o \in Pending : o.node # e
  BY Names DEF Typed, OutTyped, Flying

One(works, work) == IF work \in works THEN 1 ELSE 0

\* What a step may do to what is out: ask for something for a node that has
\* nothing out, take a result and perhaps ask for something for its node, or do
\* a job; and what it counts of it.
Asks ==
    \E n \in Node, work \in Back \cup {"effect"} :
        /\ \A o \in Pending : o.node # n
        /\ jobs' = jobs \cup {Job(n, work)} /\ results' = results
        /\ background' = background + One(Back, work) /\ uploads' = uploads
Takes ==
    \E r \in results :
        /\ results' = results \ {r}
        /\ \/ /\ jobs' = jobs
              /\ Live' => background' = background - One(Back, r.work)
              /\ uploads' = uploads - One({"upload"}, r.work)
           \/ \E work \in Back \cup {"upload"} :
              /\ jobs' = jobs \cup {Job(r.node, work)}
              /\ background' = background - One(Back, r.work) + One(Back, work)
              /\ uploads' = uploads - One({"upload"}, r.work) + One({"upload"}, work)
Does1 ==
    /\ \E j \in jobs, ok \in BOOLEAN :
          /\ jobs' = jobs \ {j}
          /\ results' = results \cup {[node |-> j.node, work |-> j.work, ok |-> ok]}
    /\ UNCHANGED <<background, uploads>>
Leaves == UNCHANGED <<jobs, results, background, uploads>>

\* A step of a unit that is at work is waited for.
LEMMA RunsIs ==
    ASSUME Typed, Turns, UnderWay, NEW s \in Step, unit = s
    PROVE  step[s] = "runnable" /\ state[s] = "waiting" /\ phase = "steps" /\ s \in Unit
  BY Names DEF Turns, UnderWay, Active

LEMMA PoolStep ==
    ASSUME Typed, Order, [Next]_vars
    PROVE  (Asks \/ Takes \/ Does1 \/ Leaves) /\ (Live' => Live)
  <1> USE Names DEF vars, loop, units, pool, Order, One, Live
  <1>1. ASSUME NEW u \in Unit, RunUnit(u) PROVE (Asks \/ Leaves) /\ phase' = phase
    <2>1. CASE PauseStep(u)
      <3>1. PICK e \in Stops(u) : \/ jobs' = jobs \cup {Job(e, "effect")}
                                  \/ jobs' = jobs
        BY <2>1 DEF PauseStep
      <3>2. u \in Step /\ unit = u /\ results' = results /\ background' = background
            /\ uploads' = uploads /\ phase' = phase
        BY <2>1 DEF PauseStep, StopsHere
      <3>3. e \in Effect /\ Of[e] = u
        BY <2>1, <3>2, StopsAre DEF PauseStep
      <3>4. e \notin inFlight
        BY <3>2, <3>3, RunsIs DEF Flying
      <3>5. \A o \in Pending : o.node # e
        BY <3>2, <3>3, <3>4, RunsIs, FreeEffect
      <3> QED
        BY <3>1, <3>2, <3>3, <3>5 DEF Asks, Leaves, Back, Typed, NodesTyped
    <2>2. CASE Succeed(u) \/ TryAgain(u)
      <3>1. u \in Step /\ unit = u /\ results' = results /\ uploads' = uploads /\ phase' = phase
        BY <2>2 DEF Succeed, TryAgain, FailsHere
      <3>2. \/ \E work \in Back : jobs' = jobs \cup {Job(u, work)} /\ background' = background + 1
            \/ jobs' = jobs /\ background' = background
        BY <2>2 DEF Succeed, TryAgain, Back
      <3>3. \A o \in Pending : o.node # u
        BY <3>1, RunsIs, FreeStep
      <3> QED
        BY <3>1, <3>2, <3>3 DEF Asks, Leaves
    <2>3. CASE ~(PauseStep(u) \/ Succeed(u) \/ TryAgain(u))
      BY <1>1, <2>3 DEF RunUnit, Pick, MakeNodes, GoOn, Pause, AwaitUnit, Hold, FailRoot,
        AwaitUnitStep, FailStep, Leaves
    <2> QED
      BY <2>1, <2>2, <2>3
  <1>2. ASSUME NEW n \in Node, StartNode(n) PROVE (Asks \/ Leaves) /\ phase' = phase
    <2>1. CASE StartWork(n)
      <3>1. n \in Step /\ phase = "need" /\ n \in left
        BY <2>1 DEF StartWork, Startable
      <3>2. \A o \in Pending : o.node # n
        BY <3>1, FreeStep DEF ToStart, Active, Typed, UnitsTyped, StepAt
      <3>3. \E work \in Back : jobs' = jobs \cup {Job(n, work)} /\ background' = background + 1
        BY <2>1 DEF StartWork, Back
      <3> QED
        BY <2>1, <3>1, <3>2, <3>3 DEF Asks, StartWork
    <2>2. CASE StartEffect(n)
      <3>1. n \in Effect /\ phase = "need" /\ n \in left
        BY <2>2 DEF StartEffect
      <3>2. \A o \in Pending : o.node # n
        BY <3>1, FreeEffect DEF ToStart
      <3>3. "effect" \notin Back
        BY DEF Back
      <3>4. background + One(Back, "effect") = background
        BY <3>3 DEF Typed, NodesTyped
      <3> QED
        BY <2>2, <3>1, <3>2, <3>4 DEF Asks, Leaves, StartEffect
    <2>3. CASE FailWith(n) \/ Skip(n) \/ StartFound(n)
      BY <2>3 DEF FailWith, Skip, Startable, StartFound, Leaves
    <2> QED
      BY <1>2, <2>1, <2>2, <2>3 DEF StartNode
  <1>3. ASSUME NEW r \in results, Take(r) PROVE Takes /\ Live /\ Live'
    <2>1. results' = results \ {r} /\ Live /\ Live'
      BY <1>3 DEF Take, Taking, Staged, Kept, Looked, EffectDone, Uploaded
    <2>2. background \in Int /\ uploads \in Int
      BY DEF Typed, NodesTyped
    <2>3. CASE Staged(r) \/ EffectDone(r) \/ Uploaded(r)
      BY <2>1, <2>2, <2>3 DEF Staged, EffectDone, Uploaded, Takes, Back
    <2>4. CASE Kept(r)
      BY <2>1, <2>2, <2>4 DEF Kept, Takes, Back
    <2>5. CASE Looked(r)
      BY <2>1, <2>2, <2>5 DEF Looked, Takes, Back
    <2> QED
      BY <1>3, <2>1, <2>3, <2>4, <2>5 DEF Take
  <1>4. CASE Demand \/ Needed \/ Advanced \/ Drained \/ Round \/ GiveUp
    BY <1>4 DEF Demand, Needed, Advanced, Drained, Round, GiveUp, Leaves
  <1>5. CASE FinishUploads
    <2>1. ~Live /\ ~Live'
      BY <1>5 DEF FinishUploads
    <2>2. uploads \in Int
      BY DEF Typed, NodesTyped
    <2> QED
      BY <1>5, <2>1, <2>2 DEF FinishUploads, Takes, Leaves
  <1>6. ASSUME NEW j \in jobs, Perform(j) PROVE Does1 /\ phase' = phase
    BY <1>6 DEF Perform, Does1
  <1>7. CASE UNCHANGED vars
    BY <1>7 DEF Leaves
  <1> QED
    BY <1>1, <1>2, <1>3, <1>4, <1>5, <1>6, <1>7 DEF Next, Drive

\* However much is out, nothing is out twice.
LEMMA OneOutNext == ASSUME Typed, Order, [Next]_vars PROVE OneOut'
  <1> USE DEF OneOut, Pending
  <1>0. OneOut
    BY DEF Order
  <1>1. CASE Asks
    <2>1. PICK n \in Node, work \in Back \cup {"effect"} :
             /\ \A o \in Pending : o.node # n
             /\ jobs' = jobs \cup {Job(n, work)} /\ results' = results
      BY <1>1 DEF Asks
    <2>2. Job(n, work).node = n
      BY DEF Job
    <2> QED
      BY <1>0, <2>1, <2>2, FS_AddElement
  <1>2. CASE Takes
    <2>1. PICK r \in results :
             /\ results' = results \ {r}
             /\ \/ jobs' = jobs
                \/ \E work \in Back \cup {"upload"} : jobs' = jobs \cup {Job(r.node, work)}
      BY <1>2 DEF Takes
    <2>2. \A work : Job(r.node, work).node = r.node
      BY DEF Job
    <2>3. IsFiniteSet(results') /\ IsFiniteSet(jobs')
      BY <1>0, <2>1, FS_AddElement, FS_RemoveElement
    <2> QED
      BY <1>0, <2>1, <2>2, <2>3
  <1>3. CASE Does1
    <2>1. PICK j \in jobs, ok \in BOOLEAN :
             /\ jobs' = jobs \ {j}
             /\ results' = results \cup {[node |-> j.node, work |-> j.work, ok |-> ok]}
      BY <1>3 DEF Does1
    <2>2. [node |-> j.node, work |-> j.work, ok |-> ok].node = j.node
      OBVIOUS
    <2>3. IsFiniteSet(results') /\ IsFiniteSet(jobs')
      BY <1>0, <2>1, FS_AddElement, FS_RemoveElement
    <2> HIDE DEF OneOut
    <2>4. \A o \in (jobs \cup results) \ {j} : o.node # j.node
      BY <1>0, <2>1 DEF OneOut
    <2> QED
      BY <1>0, <2>1, <2>2, <2>3, <2>4 DEF OneOut
  <1>4. CASE Leaves
    BY <1>0, <1>4 DEF Leaves
  <1> QED
    BY <1>1, <1>2, <1>3, <1>4, PoolStep

\* So each counter counts what is out.
LEMMA CountedNext == ASSUME Typed, Order, [Next]_vars PROVE Counted'
  <1> DEFINE C(W) == Cardinality(OutOf(jobs, results, W))
             D(W) == Cardinality(OutOf(jobs', results', W))
  <1> SUFFICES uploads' = D({"upload"}) /\ (Live' => background' = D(Back))
    BY DEF Counted, Out, OutOf
  <1>0. /\ uploads = C({"upload"}) /\ (Live => background = C(Back))
        /\ IsFiniteSet(jobs) /\ IsFiniteSet(results) /\ jobs \cap results = {}
        /\ \A o, p \in Pending : o.node = p.node => o = p
    BY DEF Order, Counted, OneOut, Out, OutOf
  <1>a. uploads \in Int /\ background \in Int /\ (Live' => Live)
    BY PoolStep DEF Typed, NodesTyped
  <1>1. CASE Asks
    <2>1. PICK n \in Node, work \in Back \cup {"effect"} :
             /\ \A o \in Pending : o.node # n
             /\ jobs' = jobs \cup {Job(n, work)} /\ results' = results
             /\ background' = background + One(Back, work) /\ uploads' = uploads
      BY <1>1 DEF Asks
    <2>2. Job(n, work) \notin jobs \cup results /\ Job(n, work).work = work
      BY <2>1 DEF Job, Pending
    <2>3. \A W : D(W) = C(W) + One(W, work)
      BY <1>0, <2>1, <2>2, CountAdd DEF One
    <2>4. D(Back) = C(Back) + One(Back, work) /\ D({"upload"}) = C({"upload"}) + One({"upload"}, work)
      BY <2>3
    <2>5. One({"upload"}, work) = 0
      BY DEF One, Back
    <2> HIDE DEF C, D
    <2> QED
      BY <1>0, <1>a, <2>1, <2>4, <2>5
  <1>2. CASE Takes
    <2>1. PICK r \in results :
            /\ results' = results \ {r}
            /\ \/ /\ jobs' = jobs
                  /\ Live' => background' = background - One(Back, r.work)
                  /\ uploads' = uploads - One({"upload"}, r.work)
               \/ \E work \in Back \cup {"upload"} :
                  /\ jobs' = jobs \cup {Job(r.node, work)}
                  /\ background' = background - One(Back, r.work) + One(Back, work)
                  /\ uploads' = uploads - One({"upload"}, r.work) + One({"upload"}, work)
      BY <1>2 DEF Takes
    <2> DEFINE M(W) == Cardinality(OutOf(jobs, results \ {r}, W))
    <2>2. \A W : M(W) = C(W) - One(W, r.work)
      BY <1>0, CountTaken DEF One
    <2>3. \A work, W : D(W) = M(W) + One(W, work) \/ jobs' # jobs \cup {Job(r.node, work)}
      <3>1. ASSUME NEW work, NEW W, jobs' = jobs \cup {Job(r.node, work)}
            PROVE  D(W) = M(W) + One(W, work)
        <4>1. Job(r.node, work).work = work /\ Job(r.node, work).node = r.node
          BY DEF Job
        <4>2. Job(r.node, work) \notin jobs \cup (results \ {r})
          BY <1>0, <4>1 DEF Pending
        <4>3. IsFiniteSet(results \ {r})
          BY <1>0, FS_RemoveElement
        <4> QED
          BY <1>0, <2>1, <3>1, <4>1, <4>2, <4>3, CountAdd DEF One
      <3> QED
        BY <3>1
    <2>4. /\ M(Back) = C(Back) - One(Back, r.work)
          /\ M({"upload"}) = C({"upload"}) - One({"upload"}, r.work)
      BY <2>2
    <2>5. CASE jobs' = jobs /\ (Live' => background' = background - One(Back, r.work))
               /\ uploads' = uploads - One({"upload"}, r.work)
      <3>1. D(Back) = M(Back) /\ D({"upload"}) = M({"upload"})
        BY <2>1, <2>5
      <3> HIDE DEF C, D, M
      <3> QED
        BY <1>0, <1>a, <2>4, <2>5, <3>1
    <2>6. ASSUME NEW work \in Back \cup {"upload"},
                 jobs' = jobs \cup {Job(r.node, work)},
                 background' = background - One(Back, r.work) + One(Back, work),
                 uploads' = uploads - One({"upload"}, r.work) + One({"upload"}, work)
          PROVE  uploads' = D({"upload"}) /\ (Live' => background' = D(Back))
      <3>1. /\ D(Back) = M(Back) + One(Back, work)
            /\ D({"upload"}) = M({"upload"}) + One({"upload"}, work)
        BY <2>3, <2>6
      <3> HIDE DEF C, D, M
      <3> QED
        BY <1>0, <1>a, <2>4, <2>6, <3>1
    <2> QED
      BY <2>1, <2>5, <2>6
  <1>3. CASE Does1
    <2>1. PICK j \in jobs, ok \in BOOLEAN :
             /\ jobs' = jobs \ {j}
             /\ results' = results \cup {[node |-> j.node, work |-> j.work, ok |-> ok]}
      BY <1>3 DEF Does1
    <2> DEFINE p == [node |-> j.node, work |-> j.work, ok |-> ok]
    <2>2. p.work = j.work /\ p \notin (jobs \cup results) \ {j} /\ j \notin results
      BY <1>0 DEF Pending
    <2>3. \A W : D(W) = C(W)
      BY <1>0, <2>1, <2>2, CountDone
    <2>4. D(Back) = C(Back) /\ D({"upload"}) = C({"upload"})
      BY <2>3
    <2> HIDE DEF C, D
    <2> QED
      BY <1>0, <1>3, <1>a, <2>4 DEF Does1
  <1>4. CASE Leaves
    BY <1>0, <1>4, <1>a DEF Leaves
  <1> QED
    BY <1>1, <1>2, <1>3, <1>4, PoolStep

\* What becomes of nodes and steps: only what is under way, or to be started,
\* or made, changes.
LEMMA UnderWayNext == ASSUME Typed, Order, [Next]_vars PROVE UnderWay'
  <1> USE Names DEF UnderWay, Active, Order, vars, loop, units, pool
  <1>1. ASSUME NEW u \in Unit, RunUnit(u) PROVE UnderWay'
    <2>1. CASE MakeNodes(u)
      BY <2>1 DEF MakeNodes, Typed, NodesTyped, StateAt
    <2>2. CASE PauseStep(u)
      <3>1. u \in Step /\ unit = u /\ step[u] = "runnable" /\ state[u] = "waiting"
        BY <2>2, RunsIs DEF PauseStep, StopsHere
      <3>2. PICK e \in Stops(u) :
             \/ /\ step' = [step EXCEPT ![u] = "paused"]
                /\ inFlight' = inFlight \cup {e}
                /\ sent' = [sent EXCEPT ![e] = @ + 1]
                /\ UNCHANGED state
             \/ /\ state' = [state EXCEPT ![e] = "failed"]
                /\ UNCHANGED <<step, inFlight, sent>>
        BY <2>2 DEF PauseStep
      <3>3. e \in Effect /\ Of[e] = u /\ state[e] = "waiting" /\ e \notin inFlight
        BY <2>2, <3>1, <3>2, StopsAre DEF PauseStep, Stops, IsWaiting, Flying
      <3>4. sent[e] = 0
        BY <3>3
      <3> QED
        BY <3>1, <3>2, <3>3, <3>4 DEF Typed, NodesTyped, UnitsTyped
    <2>3. CASE Succeed(u) \/ FailStep(u)
      <3>1. u \in Step /\ unit = u /\ step[u] = "runnable" /\ state[u] = "waiting"
        BY <2>3, RunsIs DEF Succeed, FailStep, FailsHere
      <3> QED
        BY <2>3, <3>1 DEF Succeed, FailStep, Typed, NodesTyped, UnitsTyped
    <2>4. CASE TryAgain(u)
      <3>1. u \in Step /\ unit = u /\ step[u] = "runnable" /\ state[u] = "waiting"
        BY <2>4, RunsIs DEF TryAgain, FailsHere
      <3>2. \A e \in inFlight : Of[e] # u
        BY <3>1 DEF Flying
      <3> QED
        BY <2>4, <3>1, <3>2 DEF TryAgain, Typed, NodesTyped, UnitsTyped
    <2>5. CASE AwaitUnitStep(u)
      BY <2>5, RunsIs DEF AwaitUnitStep, WaitsHere, Typed, UnitsTyped
    <2>6. CASE ~(MakeNodes(u) \/ PauseStep(u) \/ Succeed(u) \/ FailStep(u) \/ TryAgain(u)
                 \/ AwaitUnitStep(u))
      BY <1>1, <2>6 DEF RunUnit, Pick, GoOn, Pause, AwaitUnit, Hold, FailRoot
    <2> QED
      BY <2>1, <2>2, <2>3, <2>4, <2>5, <2>6
  <1>2. ASSUME NEW n \in Node, StartNode(n) PROVE UnderWay'
    <2>1. phase = "need" /\ n \in left /\ state[n] = "waiting" /\ n \notin Active \cup inFlight
      BY <1>2 DEF StartNode, FailWith, Skip, Startable, StartFound, StartWork, StartEffect, ToStart
    <2>2. CASE StartEffect(n)
      <3>1. n \in Effect /\ sent[n] = 0
        BY <2>1, <2>2 DEF StartEffect
      <3> QED
        BY <2>1, <2>2, <3>1 DEF StartEffect, Typed, NodesTyped, UnitsTyped
    <2>3. CASE ~StartEffect(n)
      BY <1>2, <2>1, <2>3 DEF StartNode, FailWith, Skip, Startable, StartFound, StartWork, Typed,
        NodesTyped, UnitsTyped
    <2> QED
      BY <2>2, <2>3
  <1>3. ASSUME NEW r \in results, Take(r) PROVE UnderWay'
    <2>1. Live /\ (r.work = "effect" => r.node \in Effect) /\ (r.work # "effect" => r.node \in Step)
      BY <1>3 DEF Take, Taking, Staged, Kept, Looked, EffectDone, Uploaded, Live, Typed, OutTyped, Pending
    <2>2. CASE Staged(r)
      BY <2>1, <2>2 DEF Staged, Taking, InStep, Pending, Back, Doing, Typed, NodesTyped, UnitsTyped
    <2>3. CASE Kept(r)
      BY <2>1, <2>3 DEF Kept, Taking, Typed, NodesTyped, UnitsTyped
    <2>4. CASE Looked(r)
      BY <2>1, <2>4 DEF Looked, Taking, InStep, Pending, Back, Doing, Typed, NodesTyped, UnitsTyped
    <2>5. CASE EffectDone(r)
      BY <2>1, <2>5 DEF EffectDone, Taking, Typed, NodesTyped, UnitsTyped
    <2>6. CASE Uploaded(r)
      BY <2>6 DEF Uploaded, Taking
    <2> QED
      BY <1>3, <2>2, <2>3, <2>4, <2>5, <2>6 DEF Take
  <1>4. CASE Demand \/ Needed \/ Advanced \/ Drained \/ Round \/ GiveUp \/ FinishUploads
    <2>1. CASE Round
      <3>1. step' = [s \in Step |-> IF s \in Waiting THEN "runnable" ELSE step[s]]
            /\ UNCHANGED <<state, sent, inFlight>>
        BY <2>1 DEF Round
      <3>2. \A s \in Waiting \cap Step : step[s] # "none"
        BY DEF Waiting
      <3> QED
        BY <3>1, <3>2
    <2>2. CASE Demand \/ Needed \/ Advanced \/ Drained \/ GiveUp \/ FinishUploads
      BY <2>2 DEF Demand, Needed, Advanced, Drained, GiveUp, FinishUploads
    <2> QED
      BY <1>4, <2>1, <2>2
  <1>5. ASSUME NEW j \in jobs, Perform(j) PROVE UnderWay'
    BY <1>5 DEF Perform
  <1> QED
    BY <1>1, <1>2, <1>3, <1>4, <1>5 DEF Next, Drive

\* Nothing that is to be started is, or comes to anything, before its turn.
LEMMA ToStartNext == ASSUME Typed, Order, [Next]_vars PROVE ToStart'
  <1> USE Names DEF ToStart, Active, Order, vars, loop, units, pool
  <1>1. ASSUME NEW u \in Unit, RunUnit(u) PROVE ToStart'
    <2>1. phase # "need" /\ phase' = phase
      BY <1>1 DEF RunUnit, Pick, MakeNodes, GoOn, Pause, AwaitUnit, Hold, FailRoot, PauseStep,
        AwaitUnitStep, Succeed, TryAgain, FailStep, Halted, Turns, StopsHere, WaitsHere, FailsHere
    <2> QED
      BY <2>1
  <1>2. ASSUME NEW n \in Node, StartNode(n) PROVE ToStart'
    <2>1. phase' = phase /\ left' = left \ {n} /\ n \in left /\ phase = "need"
      BY <1>2 DEF StartNode, FailWith, Skip, Startable, StartFound, StartWork, StartEffect
    <2>2. \A m \in Node \ {n} :
            /\ state'[m] = state[m] /\ (m \in inFlight' => m \in inFlight)
            /\ (m \in Step => step'[m] = step[m])
      BY <1>2, <2>1 DEF StartNode, FailWith, Skip, Startable, StartFound, StartWork, StartEffect, Typed, NodesTyped, UnitsTyped
    <2>3. state'[n] \in {state[n], "given", "failed"}
      BY <1>2, <2>1 DEF StartNode, FailWith, Skip, Startable, StartFound, StartWork, StartEffect, Typed, NodesTyped
    <2>4. left \subseteq Node
      BY <2>1 DEF Shared
    <2>5. \A m \in left' : Data[m] \subseteq Node
      BY <2>1, <2>4
    <2> QED
      BY <2>1, <2>2, <2>3, <2>4, <2>5
  <1>3. ASSUME NEW r \in results, Take(r) PROVE ToStart'
    BY <1>3 DEF Take, Taking, Staged, Kept, Looked, EffectDone, Uploaded
  <1>4. CASE Demand \/ Needed \/ Advanced \/ Drained \/ Round \/ GiveUp \/ FinishUploads
    <2>1. CASE Demand
      <3>1. phase' # "need" \/ left' = ReadyNodes
        BY <2>1 DEF Demand
      <3> QED
        BY <2>1, <3>1, DemandsAreShared DEF Demand, ReadyNodes, IsWaiting
    <2>2. CASE Needed \/ Advanced \/ Drained \/ Round \/ GiveUp \/ FinishUploads
      BY <2>2 DEF Needed, Advanced, Drained, Round, GiveUp, FinishUploads
    <2> QED
      BY <1>4, <2>1, <2>2
  <1>5. ASSUME NEW j \in jobs, Perform(j) PROVE ToStart'
    BY <1>5 DEF Perform
  <1> QED
    BY <1>1, <1>2, <1>3, <1>4, <1>5 DEF Next, Drive

\* What is out for a step is what the step is at.
LEMMA InStepNext == ASSUME Typed, Order, [Next]_vars PROVE InStep'
  <1> USE Names DEF InStep, Order, vars, loop, units, pool
  <1>0. \A o \in Pending : /\ o.work = "effect" => o.node \in Effect
                           /\ o.work # "effect" => o.node \in Step
                           /\ o.work \in Back \cup {"effect", "upload"}
    BY DEF Typed, OutTyped
  <1>a. \A s \in Step : step[s] \in {"none", "runnable"} /\ state[s] = "waiting" =>
           \A o \in Pending : o.node # s
    BY FreeStep
  <1>b. \A work \in Back : Doing(work) \in Doings /\ work \notin {"effect", "upload"}
    BY DEF Back, Doing, Doings
  <1>1. ASSUME NEW u \in Unit, RunUnit(u) PROVE InStep'
    <2>1. CASE MakeNodes(u)
      <3>1. \A n \in Node : state[n] = "given" => state'[n] = "given"
        BY <2>1 DEF MakeNodes
      <3>2. UNCHANGED <<step, jobs, results, phase>>
        BY <2>1 DEF MakeNodes
      <3> QED
        BY <1>0, <3>1, <3>2 DEF Pending, Live
    <2>2. CASE PauseStep(u)
      <3>1. u \in Step /\ unit = u /\ step[u] = "runnable" /\ state[u] = "waiting"
        BY <2>2, RunsIs DEF PauseStep, StopsHere
      <3>2. PICK e \in Stops(u) :
             \/ /\ step' = [step EXCEPT ![u] = "paused"]
                /\ jobs' = jobs \cup {Job(e, "effect")}
                /\ UNCHANGED state
             \/ /\ state' = [state EXCEPT ![e] = "failed"]
                /\ UNCHANGED <<step, jobs>>
        BY <2>2 DEF PauseStep
      <3>3. UNCHANGED <<results, phase>> /\ e \in Effect
        BY <2>2, <3>1, <3>2, StopsAre DEF PauseStep
      <3>4. CASE step' = [step EXCEPT ![u] = "paused"] /\ jobs' = jobs \cup {Job(e, "effect")}
                 /\ UNCHANGED state
        <4>1. Job(e, "effect").work = "effect"
          BY DEF Job
        <4>2. \A s \in Step : step'[s] \in Doings => step[s] = step'[s]
          BY <3>4 DEF Typed, UnitsTyped, Doings
        <4> QED
          BY <1>0, <1>a, <1>b, <3>1, <3>3, <3>4, <4>1, <4>2 DEF Pending, Live, Typed, UnitsTyped
      <3>5. CASE state' = [state EXCEPT ![e] = "failed"] /\ UNCHANGED <<step, jobs>>
        BY <1>0, <3>3, <3>5 DEF Pending, Live, Typed, NodesTyped
      <3> QED
        BY <3>2, <3>4, <3>5
    <2>3. CASE Succeed(u) \/ TryAgain(u) \/ FailStep(u)
      <3>1. u \in Step /\ unit = u /\ step[u] = "runnable" /\ state[u] = "waiting"
        BY <2>3, RunsIs DEF Succeed, TryAgain, FailStep, FailsHere
      <3>2. \/ \E work \in Back : jobs' = jobs \cup {Job(u, work)}
                                  /\ step' = [step EXCEPT ![u] = Doing(work)]
            \/ jobs' = jobs /\ step' = [step EXCEPT ![u] = "none"]
        BY <2>3 DEF Succeed, TryAgain, FailStep, Back, Doing
      <3>3. UNCHANGED <<results, phase>> /\ \A s \in Step \ {u} : state'[s] = state[s]
        BY <2>3, <3>1 DEF Succeed, TryAgain, FailStep, Typed, NodesTyped
      <3>4. CASE jobs' = jobs /\ step' = [step EXCEPT ![u] = "none"]
        BY <1>0, <1>a, <1>b, <3>1, <3>3, <3>4 DEF Pending, Live, Typed, UnitsTyped, Doings
      <3>5. ASSUME NEW work \in Back, jobs' = jobs \cup {Job(u, work)},
                   step' = [step EXCEPT ![u] = Doing(work)]
            PROVE  InStep'
        <4>1. Job(u, work).work = work /\ Job(u, work).node = u
          BY DEF Job
        <4> QED
          BY <1>0, <1>a, <1>b, <3>1, <3>3, <3>5, <4>1 DEF Pending, Live, Typed, UnitsTyped
      <3> QED
        BY <3>2, <3>4, <3>5
    <2>4. CASE AwaitUnitStep(u)
      <3>1. u \in Step /\ step[u] = "runnable"
        BY <2>4, RunsIs DEF AwaitUnitStep, WaitsHere
      <3>2. UNCHANGED <<jobs, results, state, phase>> /\ step' = [step EXCEPT ![u] = "waiting"]
        BY <2>4 DEF AwaitUnitStep
      <3> QED
        BY <1>0, <1>b, <3>1, <3>2 DEF Pending, Live, Typed, UnitsTyped, Doings
    <2>5. CASE ~(MakeNodes(u) \/ PauseStep(u) \/ Succeed(u) \/ FailStep(u) \/ TryAgain(u)
                 \/ AwaitUnitStep(u))
      <3>1. UNCHANGED <<jobs, results, state, phase, step>>
        BY <1>1, <2>5 DEF RunUnit, Pick, GoOn, Pause, AwaitUnit, Hold, FailRoot
      <3> QED
        BY <3>1 DEF Pending, Live
    <2> QED
      BY <2>1, <2>2, <2>3, <2>4, <2>5
  <1>2. ASSUME NEW n \in Node, StartNode(n) PROVE InStep'
    <2>1. phase' = phase /\ results' = results /\ state[n] = "waiting"
          /\ (n \in Step => step[n] = "none")
      BY <1>2 DEF StartNode, FailWith, Skip, Startable, StartFound, StartWork, StartEffect, ToStart, Active
    <2>2. CASE StartWork(n)
      <3>1. n \in Step /\ \E work \in Back : jobs' = jobs \cup {Job(n, work)}
                                  /\ step' = [step EXCEPT ![n] = Doing(work)]
        BY <2>2 DEF StartWork, Startable, Back, Doing
      <3>2. PICK work \in Back : jobs' = jobs \cup {Job(n, work)}
                                  /\ step' = [step EXCEPT ![n] = Doing(work)]
        BY <3>1
      <3>3. Job(n, work).work = work /\ Job(n, work).node = n /\ state' = state
        BY <2>2 DEF Job, StartWork
      <3> QED
        BY <1>0, <1>a, <1>b, <2>1, <3>1, <3>2, <3>3 DEF Pending, Live, Typed, UnitsTyped
    <2>3. CASE ~StartWork(n)
      <3>1. step' = step /\ \A m \in Node \ {n} : state'[m] = state[m]
        BY <1>2, <2>1, <2>3 DEF StartNode, FailWith, Skip, Startable, StartFound, StartEffect,
          Typed, NodesTyped
      <3>2. jobs' = jobs \/ (n \in Effect /\ jobs' = jobs \cup {Job(n, "effect")})
        BY <1>2, <2>3 DEF StartNode, FailWith, Skip, StartFound, StartEffect
      <3>3. Job(n, "effect").work = "effect"
        BY DEF Job
      <3> QED
        BY <1>0, <1>b, <2>1, <3>1, <3>2, <3>3 DEF Pending, Live
    <2> QED
      BY <2>2, <2>3
  <1>3. ASSUME NEW r \in results, Take(r) PROVE InStep'
    <2>1. results' = results \ {r} /\ r \in Pending /\ Live
          /\ phase' = (IF r.work = "stage" /\ ~r.ok THEN "broken" ELSE "drain")
          /\ phase # "broken"
      BY <1>3 DEF Take, Taking, Staged, Kept, Looked, EffectDone, Uploaded, Pending, Live
    <2>2. \A o \in Pending : o # r => o.node # r.node
      BY <2>1 DEF OneOut
    <2>4. CASE Staged(r)
      <3>1. r.node \in Step /\ UNCHANGED <<state, jobs>>
            /\ step' = IF r.ok THEN [step EXCEPT ![r.node] = "runnable"] ELSE step
        BY <1>0, <2>1, <2>4 DEF Staged
      <3>2. \A o \in Pending' : o \in Pending /\ o.node # r.node
        BY <2>1, <2>2, <3>1 DEF Pending, OneOut
      <3>3. \A o \in Pending : o.node # r.node => o \in Pending'
        BY <2>1, <3>1 DEF Pending
      <3> QED
        BY <1>0, <1>b, <2>1, <2>4, <3>1, <3>2, <3>3 DEF Live, Typed, UnitsTyped, Staged, Doings
    <2>5. CASE Kept(r) \/ Looked(r)
      <3>1. r.node \in Step
        BY <1>0, <2>1, <2>5 DEF Kept, Looked, Back
      <3>2. \/ /\ \E work \in Back : jobs' = jobs \cup {Job(r.node, work)}
                                     /\ step' = [step EXCEPT ![r.node] = Doing(work)]
               /\ state' = state
            \/ /\ jobs' = jobs \cup {Job(r.node, "upload")}
               /\ step' = [step EXCEPT ![r.node] = "none"]
               /\ state' = [state EXCEPT ![r.node] = "given"]
            \/ /\ jobs' = jobs /\ step' = [step EXCEPT ![r.node] = "none"]
               /\ \E x \in StateAt : state' = [state EXCEPT ![r.node] = x]
        BY <2>5 DEF Kept, Looked, Back, Doing, StateAt
      <3>3. \A o \in Pending' : \/ o \in Pending /\ o.node # r.node
                                \/ o \in jobs' \ jobs
        BY <2>1, <2>2 DEF Pending, OneOut
      <3>4. \A o \in Pending : o.node # r.node => o \in Pending'
        BY <2>1, <3>2 DEF Pending
      <3>5. \A work : Job(r.node, work).work = work /\ Job(r.node, work).node = r.node
        BY DEF Job
      <3>6. CASE \E work \in Back : jobs' = jobs \cup {Job(r.node, work)}
                   /\ step' = [step EXCEPT ![r.node] = Doing(work)] /\ state' = state
        <4>1. PICK work \in Back : jobs' = jobs \cup {Job(r.node, work)}
                   /\ step' = [step EXCEPT ![r.node] = Doing(work)] /\ state' = state
          BY <3>6
        <4>2. Job(r.node, work) \in Pending'
          BY <4>1 DEF Pending
        <4> QED
          BY <1>0, <1>b, <2>1, <3>1, <3>3, <3>4, <3>5, <4>1, <4>2 DEF Live, Typed, UnitsTyped
      <3>7. CASE /\ jobs' = jobs \cup {Job(r.node, "upload")}
                 /\ step' = [step EXCEPT ![r.node] = "none"]
                 /\ state' = [state EXCEPT ![r.node] = "given"]
        <4>1. r.node \in Node
          BY <3>1
        <4> QED
          BY <1>0, <1>b, <2>1, <3>1, <3>3, <3>4, <3>5, <3>7, <4>1
            DEF Live, Typed, UnitsTyped, NodesTyped, Doings
      <3>8. CASE /\ jobs' = jobs /\ step' = [step EXCEPT ![r.node] = "none"]
                 /\ \E x \in StateAt : state' = [state EXCEPT ![r.node] = x]
        <4>1. \A n \in Node \ {r.node} : state'[n] = state[n]
          BY <3>8 DEF Typed, NodesTyped
        <4>2. \A o \in Pending' : o \in Pending /\ o.node # r.node
          BY <3>3, <3>8
        <4> QED
          BY <1>0, <1>b, <2>1, <3>1, <3>4, <3>8, <4>1, <4>2
            DEF Live, Typed, UnitsTyped, Doings
      <3> QED
        BY <3>2, <3>6, <3>7, <3>8
    <2>6. CASE EffectDone(r) \/ Uploaded(r)
      <3>1. jobs' = jobs /\ r.work \notin Back
        BY <2>6 DEF EffectDone, Uploaded, Back
      <3>2. \A s \in Step : /\ state'[s] = state[s]
                            /\ step'[s] = step[s] \/ (step[s] = "paused" /\ step'[s] = "runnable")
        BY <1>0, <2>1, <2>6 DEF EffectDone, Uploaded, Typed, NodesTyped, UnitsTyped
      <3>3. \A o \in Pending' : o \in Pending
        BY <2>1, <3>1 DEF Pending
      <3>4. \A o \in Pending : o.work \in Back => o \in Pending'
        BY <2>1, <3>1 DEF Pending
      <3> QED
        BY <1>0, <1>b, <2>1, <3>2, <3>3, <3>4 DEF Live, Doings
    <2> QED
      BY <1>3, <2>4, <2>5, <2>6 DEF Take
  <1>4. CASE Demand \/ Needed \/ Advanced \/ Drained \/ Round \/ GiveUp \/ FinishUploads
    <2>1. CASE Round
      <3>1. step' = [s \in Step |-> IF s \in Waiting THEN "runnable" ELSE step[s]]
            /\ UNCHANGED <<state, jobs, results>> /\ Live /\ phase # "broken"
        BY <2>1 DEF Round, Live
      <3>2. \A s \in Step : step'[s] = step[s] \/ (step[s] = "waiting" /\ step'[s] = "runnable")
        BY <3>1 DEF Waiting
      <3> QED
        BY <1>0, <1>b, <3>1, <3>2 DEF Pending, Doings
    <2>2. CASE Demand \/ Needed \/ Advanced \/ Drained \/ GiveUp
      <3>1. UNCHANGED <<step, state, jobs, results>> /\ (Live' => Live) /\ phase # "broken"
        BY <2>2 DEF Demand, Needed, Advanced, Drained, GiveUp, Live
      <3> QED
        BY <3>1 DEF Pending
    <2>3. CASE FinishUploads
      <3>1. UNCHANGED <<step, state, jobs>> /\ results' \subseteq results /\ ~Live'
        BY <2>3 DEF FinishUploads, Live
      <3> QED
        BY <3>1 DEF Pending
    <2> QED
      BY <1>4, <2>1, <2>2, <2>3
  <1>5. ASSUME NEW j \in jobs, Perform(j) PROVE InStep'
    <2>1. PICK ok \in BOOLEAN : results' = results \cup {[node |-> j.node, work |-> j.work, ok |-> ok]}
      BY <1>5 DEF Perform
    <2>2. UNCHANGED <<step, state, phase>> /\ jobs' = jobs \ {j}
      BY <1>5 DEF Perform
    <2> DEFINE p == [node |-> j.node, work |-> j.work, ok |-> ok]
    <2>3. p.node = j.node /\ p.work = j.work /\ p \in Pending' /\ j \in Pending
      BY <2>1 DEF Pending
    <2>4. \A o \in Pending' : o \in Pending \/ o = p
      BY <2>1, <2>2 DEF Pending
    <2>5. \A o \in Pending : o \in Pending' \/ o = j
      BY <2>1, <2>2 DEF Pending
    <2> HIDE DEF p
    <2> QED
      BY <2>2, <2>3, <2>4, <2>5 DEF Live
  <1>6. CASE UNCHANGED vars
    BY <1>6 DEF Pending, Live
  <1> QED
    BY <1>1, <1>2, <1>3, <1>4, <1>5, <1>6 DEF Next, Drive

\* What leaves the pool's effects, and the steps stopped for them, as they are.
LEMMA FlyingStays ==
    ASSUME Typed, Order, UNCHANGED inFlight, Live' => Live,
           \A o \in Pending' : o \notin Pending => o.work # "effect",
           \A o \in Pending : o.work = "effect" /\ Live' => o \in Pending',
           \A s \in Step : step[s] = "paused" <=> step'[s] = "paused"
    PROVE  Flying'
  BY Names DEF Order, Flying, Typed, NodesTyped

\* What is in flight is out, and of the steps that are stopped for an effect.
LEMMA FlyingNext == ASSUME Typed, Order, [Next]_vars PROVE Flying'
  <1> USE Names DEF Order, vars, loop, units, pool
  <1>0. \A o \in Pending : /\ o.work = "effect" => o.node \in Effect
                           /\ o.work # "effect" => o.node \in Step
                           /\ o.work \in Back \cup {"effect", "upload"}
    BY DEF Typed, OutTyped
  <1>1. ASSUME NEW u \in Unit, RunUnit(u) PROVE Flying'
    <2>1. CASE PauseStep(u)
      <3>1. u \in Step /\ unit = u /\ step[u] = "runnable" /\ Live
        BY <2>1, RunsIs DEF PauseStep, StopsHere, Live
      <3>2. PICK e \in Stops(u) :
             \/ /\ step' = [step EXCEPT ![u] = "paused"]
                /\ jobs' = jobs \cup {Job(e, "effect")}
                /\ inFlight' = inFlight \cup {e}
             \/ UNCHANGED <<step, jobs, inFlight>>
        BY <2>1 DEF PauseStep
      <3>3. e \in Effect /\ Of[e] = u /\ UNCHANGED <<results, phase>>
        BY <2>1, <3>1, <3>2, StopsAre DEF PauseStep
      <3>4. CASE /\ step' = [step EXCEPT ![u] = "paused"]
                 /\ jobs' = jobs \cup {Job(e, "effect")}
                 /\ inFlight' = inFlight \cup {e}
        <4>1. Job(e, "effect").work = "effect" /\ Job(e, "effect").node = e
          BY DEF Job
        <4>2. \A f \in inFlight : Of[f] # u
          BY <3>1 DEF Flying
        <4>3. Pending' = Pending \cup {Job(e, "effect")}
          BY <3>3, <3>4 DEF Pending
        <4>4. \A f \in Effect : f \in inFlight' <=> \E o \in Pending' : o.work = "effect" /\ o.node = f
          BY <3>1, <3>3, <3>4, <4>1, <4>3 DEF Flying
        <4>5. \A s \in Step : step'[s] = "paused" => \E f \in inFlight' : Of[f] = s
          BY <3>1, <3>3, <3>4 DEF Flying, Typed, UnitsTyped
        <4>6. \A f \in inFlight' : Of[f] # None => step'[Of[f]] = "paused"
          BY <3>1, <3>3, <3>4, <4>2 DEF Flying, Typed, UnitsTyped, NodesTyped
        <4>7. \A f, g \in inFlight' : Of[f] = Of[g] /\ Of[f] # None => f = g
          BY <3>3, <3>4, <4>2 DEF Flying
        <4> QED
          BY <4>4, <4>5, <4>6, <4>7 DEF Flying
      <3>5. CASE UNCHANGED <<step, jobs, inFlight>>
        <4>1. Pending' = Pending
          BY <3>3, <3>5 DEF Pending
        <4> QED
          BY <3>3, <3>5, <4>1, FlyingStays DEF Live
      <3> QED
        BY <3>2, <3>4, <3>5
    <2>2. CASE Succeed(u) \/ TryAgain(u) \/ FailStep(u) \/ AwaitUnitStep(u)
      <3>1. u \in Step /\ step[u] = "runnable"
        BY <2>2, RunsIs DEF Succeed, TryAgain, FailStep, FailsHere, AwaitUnitStep, WaitsHere
      <3>2. \E x \in StepAt \ {"paused"} : step' = [step EXCEPT ![u] = x]
        BY <2>2 DEF Succeed, TryAgain, FailStep, AwaitUnitStep, StepAt
      <3>3. UNCHANGED <<results, phase, inFlight>>
            /\ (jobs' = jobs \/ \E work \in Back : jobs' = jobs \cup {Job(u, work)})
        BY <2>2 DEF Succeed, TryAgain, FailStep, AwaitUnitStep, Back
      <3>4. \A work \in Back : Job(u, work).work # "effect"
        BY DEF Job, Back
      <3>5. \A s \in Step : step[s] = "paused" <=> step'[s] = "paused"
        BY <3>1, <3>2 DEF Typed, UnitsTyped
      <3>6. /\ \A o \in Pending' : o \notin Pending => o.work # "effect"
            /\ \A o \in Pending : o \in Pending'
        BY <3>3, <3>4 DEF Pending
      <3> QED
        BY <3>3, <3>5, <3>6, FlyingStays DEF Live
    <2>3. CASE ~(PauseStep(u) \/ Succeed(u) \/ FailStep(u) \/ TryAgain(u) \/ AwaitUnitStep(u))
      <3>1. UNCHANGED <<jobs, results, inFlight, phase, step>>
        BY <1>1, <2>3 DEF RunUnit, Pick, MakeNodes, GoOn, Pause, AwaitUnit, Hold, FailRoot
      <3> QED
        BY <3>1, FlyingStays DEF Pending, Live
    <2> QED
      BY <2>1, <2>2, <2>3
  <1>2. ASSUME NEW n \in Node, StartNode(n) PROVE Flying'
    <2>1. phase' = phase /\ Live /\ results' = results /\ n \in Shared /\ n \notin inFlight
          /\ (n \in Step => step[n] = "none")
      BY <1>2 DEF StartNode, FailWith, Skip, Startable, StartFound, StartWork, StartEffect, ToStart, Active, Live
    <2>2. CASE n \in Effect /\ jobs' = jobs \cup {Job(n, "effect")} /\ inFlight' = inFlight \cup {n}
               /\ step' = step
      <3>1. Job(n, "effect").work = "effect" /\ Job(n, "effect").node = n /\ Of[n] = None
        BY <2>1, <2>2 DEF Job, Shared
      <3>2. Pending' = Pending \cup {Job(n, "effect")}
        BY <2>1, <2>2 DEF Pending
      <3>3. \A f \in Effect : f \in inFlight' <=> \E o \in Pending' : o.work = "effect" /\ o.node = f
        BY <2>1, <2>2, <3>1, <3>2 DEF Flying
      <3> QED
        BY <2>2, <3>1, <3>3 DEF Flying
    <2>3. CASE UNCHANGED <<jobs, inFlight, step>>
      BY <2>1, <2>3, FlyingStays DEF Pending, Live
    <2>4. CASE StartWork(n)
      <3>1. n \in Step /\ \E work \in Back : jobs' = jobs \cup {Job(n, work)}
              /\ step' = [step EXCEPT ![n] = work] /\ work # "paused"
        BY <2>4 DEF StartWork, Startable, Back
      <3>2. \A work \in Back : Job(n, work).work # "effect"
        BY DEF Job, Back
      <3>3. \A s \in Step : step[s] = "paused" <=> step'[s] = "paused"
        BY <2>1, <3>1 DEF Typed, UnitsTyped
      <3>4. /\ \A o \in Pending' : o \notin Pending => o.work # "effect"
            /\ \A o \in Pending : o \in Pending'
        BY <2>1, <3>1, <3>2 DEF Pending
      <3> QED
        BY <2>1, <2>4, <3>3, <3>4, FlyingStays DEF Live, StartWork
    <2> QED
      BY <1>2, <2>2, <2>3, <2>4 DEF StartNode, FailWith, Skip, StartFound, StartEffect
  <1>3. ASSUME NEW r \in results, Take(r) PROVE Flying'
    <2>1. results' = results \ {r} /\ r \in Pending /\ Live /\ Live'
      BY <1>3 DEF Take, Taking, Staged, Kept, Looked, EffectDone, Uploaded, Pending, Live
    <2>2. \A o \in Pending : o # r => o.node # r.node
      BY <2>1 DEF OneOut
    <2>3. CASE EffectDone(r)
      <3>1. r.work = "effect" /\ r.node \in Effect /\ jobs' = jobs /\ inFlight' = inFlight \ {r.node}
            /\ r.node \in inFlight
        BY <1>0, <2>1, <2>3 DEF EffectDone, Flying
      <3>2. \A o : o \in Pending' <=> o \in Pending /\ o # r
        BY <2>1, <3>1 DEF Pending, OneOut
      <3>3. step' = [s \in Step |-> IF Of[r.node] = s /\ step[s] = "paused" THEN "runnable" ELSE step[s]]
        BY <2>3 DEF EffectDone
      <3>4. \A f \in Effect : f \in inFlight' <=> \E o \in Pending' : o.work = "effect" /\ o.node = f
        BY <2>1, <2>2, <3>1, <3>2 DEF Flying
      <3>5. \A s \in Step : step'[s] = "paused" => \E f \in inFlight' : Of[f] = s
        BY <3>1, <3>3 DEF Flying
      <3>6. \A f \in inFlight' : Of[f] # None => step'[Of[f]] = "paused"
        <4>1. \A f \in inFlight' : f \in inFlight /\ f # r.node /\ (Of[f] # None => Of[f] # Of[r.node])
          BY <3>1 DEF Flying
        <4>2. \A f \in inFlight' : Of[f] # None => Of[f] \in Step
          BY <3>1 DEF Typed, NodesTyped
        <4> QED
          BY <3>3, <4>1, <4>2 DEF Flying
      <3> QED
        BY <3>1, <3>4, <3>5, <3>6 DEF Flying
    <2>4. CASE ~EffectDone(r)
      <3>1. r.work # "effect" /\ inFlight' = inFlight
            /\ (r.work \in Back => r.node \in Step /\ step[r.node] = Doing(r.work))
        BY <1>0, <1>3, <2>1, <2>4 DEF Take, Staged, Kept, Looked, Uploaded, InStep, Back
      <3>2. /\ \A s \in Step : step[s] = "paused" <=> step'[s] = "paused"
            /\ jobs' = jobs \/ \E work \in Back \cup {"upload"} : jobs' = jobs \cup {Job(r.node, work)}
        BY <1>3, <2>4, <3>1 DEF Take, Staged, Kept, Looked, Uploaded, Back, Doing, Typed, UnitsTyped
      <3>3. \A work \in Back \cup {"upload"} : Job(r.node, work).work # "effect"
        BY DEF Job, Back
      <3>4. /\ \A o \in Pending' : o \notin Pending => o.work # "effect"
            /\ \A o \in Pending : o.work = "effect" => o \in Pending'
        BY <2>1, <3>1, <3>2, <3>3 DEF Pending
      <3> QED
        BY <2>1, <3>1, <3>2, <3>4, FlyingStays
    <2> QED
      BY <2>3, <2>4
  <1>4. CASE Demand \/ Needed \/ Advanced \/ Drained \/ Round \/ GiveUp \/ FinishUploads
    <2>1. CASE Round
      <3>1. step' = [s \in Step |-> IF s \in Waiting THEN "runnable" ELSE step[s]]
            /\ UNCHANGED <<inFlight, jobs, results>> /\ Live
        BY <2>1 DEF Round, Live
      <3>2. \A s \in Step : step[s] = "paused" <=> step'[s] = "paused"
        BY <3>1 DEF Waiting
      <3> QED
        BY <3>1, <3>2, FlyingStays DEF Pending
    <2>2. CASE Demand \/ Needed \/ Advanced \/ Drained \/ GiveUp
      <3>1. UNCHANGED <<step, inFlight, jobs, results>> /\ (Live' => Live)
        BY <2>2 DEF Demand, Needed, Advanced, Drained, GiveUp, Live
      <3> QED
        BY <3>1, FlyingStays DEF Pending
    <2>3. CASE FinishUploads
      <3>1. UNCHANGED <<step, inFlight, jobs>> /\ results' \subseteq results /\ ~Live'
        BY <2>3 DEF FinishUploads, Live
      <3> QED
        BY <3>1, FlyingStays DEF Pending
    <2> QED
      BY <1>4, <2>1, <2>2, <2>3
  <1>5. ASSUME NEW j \in jobs, Perform(j) PROVE Flying'
    <2>1. PICK ok \in BOOLEAN : results' = results \cup {[node |-> j.node, work |-> j.work, ok |-> ok]}
      BY <1>5 DEF Perform
    <2>2. UNCHANGED <<step, inFlight, phase>> /\ jobs' = jobs \ {j}
      BY <1>5 DEF Perform
    <2> DEFINE p == [node |-> j.node, work |-> j.work, ok |-> ok]
    <2>3. p.node = j.node /\ p.work = j.work /\ p \in Pending' /\ j \in Pending
      BY <2>1 DEF Pending
    <2>4. \A o \in Pending' : o \in Pending \/ o = p
      BY <2>1, <2>2 DEF Pending
    <2>5. \A o \in Pending : o \in Pending' \/ o = j
      BY <2>1, <2>2 DEF Pending
    <2> HIDE DEF p
    <2> QED
      BY <2>2, <2>3, <2>4, <2>5 DEF Live, Flying
  <1>6. CASE UNCHANGED vars
    BY <1>6, FlyingStays DEF Pending, Live
  <1> QED
    BY <1>1, <1>2, <1>3, <1>4, <1>5, <1>6 DEF Next, Drive

LEMMA OrderInit == Init => Order
  <1> SUFFICES ASSUME Init PROVE Order
    OBVIOUS
  <1>1. Turns /\ ToStart
    BY Names DEF Init, Turns, ToStart
  <1>3. Pending = {} /\ Active = {}
    BY DEF Init, Pending, Active
  <1>4. InStep /\ Flying /\ UnderWay
    <2>1. \A s \in Step : step[s] = "none"
      BY DEF Init
    <2>2. InStep
      BY <1>3, <2>1 DEF InStep, Doings
    <2>3. Flying
      BY <1>3, <2>1 DEF Init, Flying
    <2>4. UnderWay
      BY <1>3, Names DEF Init, UnderWay
    <2> QED
      BY <2>2, <2>3, <2>4
  <1>2. OneOut /\ Counted
    <2>1. Out({"upload"}) = {} /\ Out(Back) = {} /\ Pending = {}
      BY DEF Init, Out, Pending
    <2> QED
      BY <2>1, FS_EmptySet DEF Init, OneOut, Counted
  <1> QED
    BY <1>1, <1>2, <1>4 DEF Order

LEMMA OrderNext == ASSUME Typed, Order, [Next]_vars PROVE Order'
  BY TurnsNext, ToStartNext, OneOutNext, CountedNext, InStepNext, FlyingNext, UnderWayNext DEF Order

-----------------------------------------------------------------------------
(* Results. *)

\* A node is made, waits, and comes to a result, which it keeps, but for what a
\* step that is tried again made.
LEMMA StateChanges ==
    ASSUME Typed, Order, [Next]_vars, NEW n \in Node
    PROVE  \/ state'[n] = state[n]
           \/ state[n] = "waiting" /\ state'[n] \in {"given", "failed"}
           \/ /\ state[n] = "unmade" /\ state'[n] = "waiting"
              /\ \E u \in Unit : MakeNodes(u) /\ n \in Next1(u).nodes
           \/ /\ n \in Effect /\ Of[n] \in Step /\ tries'[Of[n]] < tries[Of[n]]
              /\ state'[n] = "unmade"
  <1> DEFINE P == \/ state'[n] = state[n]
                  \/ state[n] = "waiting" /\ state'[n] \in {"given", "failed"}
                  \/ /\ state[n] = "unmade" /\ state'[n] = "waiting"
                     /\ \E u \in Unit : MakeNodes(u) /\ n \in Next1(u).nodes
                  \/ /\ n \in Effect /\ Of[n] \in Step /\ tries'[Of[n]] < tries[Of[n]]
                     /\ state'[n] = "unmade"
  <1> SUFFICES P
    OBVIOUS
  <1> USE Names DEF vars, loop, units, pool
  <1>0. state \in [Node -> StateAt] /\ tries \in [Step -> Nat]
    BY DEF Typed, NodesTyped, UnitsTyped
  <1>1. ASSUME NEW u \in Unit, RunUnit(u) PROVE P
    <2>1. CASE MakeNodes(u)
      <3>1. state'[n] = IF n \in Next1(u).nodes /\ state[n] = "unmade" THEN "waiting" ELSE state[n]
        BY <2>1 DEF MakeNodes
      <3> QED
        BY <2>1, <3>1
    <2>2. CASE TryAgain(u)
      <3>1. u \in Step /\ tries'[u] < tries[u]
            /\ state'[n] = IF n \in Effect /\ Of[n] = u THEN "unmade" ELSE state[n]
        BY <1>0, <2>2 DEF TryAgain
      <3> QED
        BY <3>1
    <2>3. CASE PauseStep(u)
      BY <1>0, <2>3 DEF PauseStep, Stops, IsWaiting
    <2>4. CASE Succeed(u) \/ FailStep(u)
      <3>1. state[u] = "waiting"
        BY <2>4, RunsIs DEF Order, Succeed, FailStep, FailsHere
      <3> QED
        BY <1>0, <2>4, <3>1 DEF Succeed, FailStep
    <2>5. CASE ~(MakeNodes(u) \/ TryAgain(u) \/ PauseStep(u) \/ Succeed(u) \/ FailStep(u))
      BY <1>1, <2>5 DEF RunUnit, Pick, GoOn, Pause, AwaitUnit, Hold, FailRoot, AwaitUnitStep
    <2> QED
      BY <2>1, <2>2, <2>3, <2>4, <2>5
  <1>2. ASSUME NEW m \in Node, StartNode(m) PROVE P
    <2>1. state[m] = "waiting"
      BY <1>2 DEF StartNode, FailWith, Skip, Startable, StartFound, StartWork, StartEffect, Order, ToStart
    <2> QED
      BY <1>0, <1>2, <2>1 DEF StartNode, FailWith, Skip, Startable, StartFound, StartWork, StartEffect
  <1>3. ASSUME NEW r \in results, Take(r) PROVE P
    <2>1. Live /\ r \in Pending
      BY <1>3 DEF Take, Taking, Staged, Kept, Looked, EffectDone, Uploaded, Pending, Live
    <2>2. r.work \in Back \cup {"effect"} => state[r.node] = "waiting"
      <3>1. CASE r.work = "effect"
        BY <2>1, <3>1 DEF Order, Flying, UnderWay, Typed, OutTyped
      <3>2. CASE r.work \in Back
        <4>1. r.node \in Step /\ step[r.node] # "none"
          BY <2>1, <3>2 DEF Order, InStep, Typed, OutTyped, Back, Doing
        <4> QED
          BY <4>1 DEF Order, UnderWay, Active
      <3> QED
        BY <3>1, <3>2
    <2> QED
      BY <1>0, <1>3, <2>2 DEF Take, Taking, Staged, Kept, Looked, EffectDone, Uploaded, Back
  <1>4. CASE Demand \/ Needed \/ Advanced \/ Drained \/ Round \/ GiveUp \/ FinishUploads
    BY <1>4 DEF Demand, Needed, Advanced, Drained, Round, GiveUp, FinishUploads
  <1>5. ASSUME NEW j \in jobs, Perform(j) PROVE P
    BY <1>5 DEF Perform
  <1> QED
    BY <1>1, <1>2, <1>3, <1>4, <1>5 DEF Next, Drive

\* So of the nodes targets share none is unmade, or given another result.
LEMMA SharedStays ==
    ASSUME Typed, Order, [Next]_vars, NEW n \in Shared
    PROVE  /\ state[n] # "unmade" => state'[n] # "unmade"
           /\ state[n] \in {"given", "failed"} => state'[n] = state[n]
  BY StateChanges, Names DEF Shared

\* What code has in some of its places.
LEMMA BetweenIs ==
    ASSUME NEW u, NEW i, NEW k, NEW n
    PROVE  n \in Between(u, i, k) <=> n \in Shared /\ \E x \in i..k : n \in At(u, x)
  BY DEF Between

\* Where a unit goes on, it leaves made what it has gone past.
LEMMA MadeNext == ASSUME Typed, Order, Made, [Next]_vars PROVE Made'
  <1> USE Names
  <1>0. \A n \in Shared : state[n] # "unmade" => state'[n] # "unmade"
    BY SharedStays
  <1>a. Shared \subseteq Node /\ \A n \in Shared : Data[n] \subseteq Shared
    BY NodesAreOwn DEF Shared
  <1>1. ASSUME NEW u \in Unit, GoOn(u), NEW n \in Between(u, 1, at'[u] - 1) PROVE state[n] # "unmade"
    <2>1. at[u] \in DOMAIN Code[u] /\ at[u] \in Nat
      BY <1>1, AtIs DEF GoOn, Does
    <2>2. n \in Shared /\ \E x \in 1..at'[u] - 1 : n \in At(u, x)
      BY <1>1, BetweenIs
    <2>3. \A x \in 1..at[u] - 1 : n \in At(u, x) => state[n] # "unmade"
      BY <2>2, BetweenIs DEF Made
    <2>4. CASE at'[u] = at[u] + 1
      <3>1. \A x \in 1..at'[u] - 1 : x \in 1..at[u] - 1 \/ x = at[u]
        BY <2>1, <2>4
      <3>2. n \in At(u, at[u]) => state[n] # "unmade"
        BY <1>1, <2>1, CodeIs DEF GoOn, Does, Next1
      <3> QED
        BY <2>2, <2>3, <3>1, <3>2
    <2>5. CASE Next1(u).op = "begin" /\ memo[Next1(u).memo] = "ended" /\ at'[u] = Past(u, Next1(u).memo)
      <3>1. PICK f \in DOMAIN Code[u] : IsCall(u, at[u], f) /\ at'[u] = f + 1
        BY <2>1, <2>5, PastIs
      <3>2. f \in Nat
        BY <3>1, CodeIs
      <3>3. \A x \in 1..at'[u] - 1 : x \in 1..at[u] - 1 \/ x \in at[u]..f
        BY <2>1, <3>1, <3>2
      <3>4. \A x \in at[u]..f : n \in At(u, x) => state[n] # "unmade"
        BY <2>1, <2>2, <2>5, <3>1, BetweenIs DEF Made, Next1
      <3> QED
        BY <2>2, <2>3, <3>3, <3>4
    <2>6. at'[u] = at[u] + 1
          \/ (Next1(u).op = "begin" /\ memo[Next1(u).memo] = "ended" /\ at'[u] = Past(u, Next1(u).memo))
      BY <1>1 DEF GoOn, Does, Typed, AtTyped
    <2> QED
      BY <2>4, <2>5, <2>6
  <1>2. \A u \in Unit : at'[u] = at[u] \/ GoOn(u) \/ at'[u] = 1
    <2>1. at' = at \/ \E u \in Unit : GoOn(u) \/ TryAgain(u)
      BY DEF Next, Drive, RunUnit, Pick, MakeNodes, Pause, AwaitUnit, Hold, FailRoot, PauseStep,
        AwaitUnitStep, Succeed, FailStep, Halted, StartNode, FailWith, Skip, Startable, StartFound, StartWork, StartEffect, Take, Taking, Staged, Kept, Looked, EffectDone, Uploaded, Demand, Needed, Advanced, Drained, Round, GiveUp, FinishUploads, Perform, vars, loop, units, pool
    <2>2. ASSUME NEW u \in Unit, NEW v \in Unit, v # u, GoOn(v) PROVE at'[u] = at[u]
      BY <2>2 DEF GoOn, Typed, AtTyped
    <2>3. ASSUME NEW u \in Unit, NEW v \in Unit, TryAgain(v) PROVE at'[u] \in {1, at[u]}
      BY <2>3 DEF TryAgain, Typed, AtTyped
    <2> QED
      BY <2>1, <2>2, <2>3
  <1>3. ASSUME NEW u \in Unit, NEW n \in Between(u, 1, at'[u] - 1) PROVE state'[n] # "unmade"
    <2>1. n \in Shared
      BY <1>3, BetweenIs
    <2>2. CASE at'[u] = at[u]
      BY <1>0, <1>3, <2>1, <2>2 DEF Made
    <2>3. CASE GoOn(u)
      BY <1>0, <1>1, <1>3, <2>1, <2>3
    <2>4. CASE at'[u] = 1
      BY <1>3, <2>4, BetweenIs
    <2> QED
      BY <1>2, <2>2, <2>3, <2>4
  <1>4. ASSUME NEW m \in Memo, memo'[m] = "ended", memo[m] # "ended"
        PROVE  \E u \in Unit : unit = u /\ Does(u, "finish") /\ Next1(u).memo = m
    <2>1. memo' = memo \/ \E u \in Unit : GoOn(u) \/ memo' = Abandoned(u)
      BY DEF Next, Drive, RunUnit, Pick, MakeNodes, Pause, AwaitUnit, Hold, FailRoot, PauseStep,
        AwaitUnitStep, Succeed, TryAgain, FailStep, Halted, StartNode, FailWith, Skip, Startable, StartFound, StartWork, StartEffect, Take, Taking, Staged, Kept, Looked, EffectDone, Uploaded, Demand, Needed, Advanced, Drained, Round, GiveUp, FinishUploads, Perform, vars, loop, units, pool
    <2>2. ASSUME NEW u \in Unit, memo' = Abandoned(u) PROVE FALSE
      BY <1>4, <2>2 DEF Abandoned
    <2>3. ASSUME NEW u \in Unit, GoOn(u) PROVE unit = u /\ Does(u, "finish") /\ Next1(u).memo = m
      BY <1>4, <2>3 DEF GoOn, Typed, UnitsTyped
    <2> QED
      BY <1>4, <2>1, <2>2, <2>3
  <1>5. ASSUME NEW u \in Unit, NEW b \in DOMAIN Code[u], NEW f \in DOMAIN Code[u],
               IsCall(u, b, f), memo'[Code[u][b].memo] = "ended", NEW n \in Between(u, b, f)
        PROVE  state'[n] # "unmade"
    <2> DEFINE m == Code[u][b].memo
    <2>1. m \in Memo /\ n \in Shared
      BY <1>5, CodeIs, BetweenIs DEF IsCall
    <2>2. CASE memo[m] = "ended"
      BY <1>0, <1>5, <2>1, <2>2 DEF Made
    <2>3. CASE memo[m] # "ended"
      <3>1. PICK v \in Unit : Does(v, "finish") /\ Next1(v).memo = m
        BY <1>4, <1>5, <2>1, <2>3
      <3>2. at[v] \in DOMAIN Code[v] /\ at[v] \in Nat /\ Code[v][at[v]].op = "finish"
        BY <3>1, AtIs DEF Does, Next1
      <3>3. PICK c \in DOMAIN Code[v] : IsCall(v, c, at[v])
        BY <3>2, CallsAreWhole
      <3>4. Code[v][c] = Begin(m) /\ Code[u][b] = Begin(m)
        <4>1. Code[v][c] = Begin(Code[v][c].memo) /\ Code[v][at[v]] = Finish(Code[v][c].memo)
          BY <3>3, CodeIs DEF IsCall
        <4>2. Code[v][c].memo = m
          BY <3>1, <4>1 DEF Finish, Next1
        <4> QED
          BY <1>5, <4>1, <4>2, CodeIs DEF IsCall
      <3>5. n \in Between(v, c, at[v])
        BY <1>5, <3>2, <3>3, <3>4, CallsAreWhole DEF Between
      <3>6. PICK x \in c..at[v] : n \in At(v, x)
        BY <3>5, BetweenIs
      <3>7. x # at[v]
        BY <3>2, <3>6, CodeIs
      <3>8. x \in 1..at[v] - 1
        BY <3>2, <3>3, <3>6, <3>7, CodeIs DEF IsCall
      <3>9. n \in Between(v, 1, at[v] - 1)
        BY <2>1, <3>6, <3>8, BetweenIs
      <3> QED
        BY <1>0, <2>1, <3>9 DEF Made
    <2> QED
      BY <2>2, <2>3
  <1>6. ASSUME NEW n \in Shared, state'[n] # "unmade", NEW d \in Data[n] PROVE state'[d] # "unmade"
    <2>1. d \in Shared /\ n \in Node /\ d \in Node
      BY <1>a
    <2>2. CASE state[n] # "unmade"
      BY <1>0, <2>1, <2>2 DEF Made
    <2>3. CASE state[n] = "unmade"
      <3>1. PICK u \in Unit : MakeNodes(u) /\ n \in Next1(u).nodes
        BY <1>6, <2>1, <2>3, StateChanges
      <3>2. at[u] \in DOMAIN Code[u] /\ at[u] \in Nat /\ At(u, at[u]) = Next1(u).nodes
        BY <3>1, AtIs, CodeIs DEF MakeNodes, Next1
      <3>3. PICK x \in 1..at[u] : d \in At(u, x)
        BY <3>1, <3>2, NodesAreMadeInOrder
      <3>4. CASE x = at[u]
        <4>1. state'[d] = IF d \in Next1(u).nodes /\ state[d] = "unmade" THEN "waiting" ELSE state[d]
          BY <2>1, <3>1 DEF MakeNodes
        <4> QED
          BY <3>2, <3>3, <3>4, <4>1
      <3>5. CASE x # at[u]
        <4>1. x \in 1..at[u] - 1
          BY <3>2, <3>3, <3>5
        <4>2. d \in Between(u, 1, at[u] - 1)
          BY <2>1, <3>3, <4>1, BetweenIs
        <4> QED
          BY <1>0, <2>1, <4>2 DEF Made
      <3> QED
        BY <3>4, <3>5
    <2> QED
      BY <2>2, <2>3
  <1>7. ASSUME NEW r \in Root, main'[r] = "holding", NEW n \in Holes[r] PROVE state'[n] # "unmade"
    <2>1. r \in Unit /\ (\E i \in DOMAIN Code[r] : n \in At(r, i)) /\ n \in Shared
      BY NodesAreMadeInOrder, NodesAreOwn
    <2>2. CASE main[r] = "holding"
      BY <1>0, <2>1, <2>2 DEF Made
    <2>3. CASE main[r] # "holding"
      <3>1. AtEnd(r)
        BY <1>7, <2>3 DEF Next, Drive, RunUnit, Pick, MakeNodes, GoOn, Pause, AwaitUnit, Hold, FailRoot, PauseStep,
        AwaitUnitStep, Succeed, TryAgain, FailStep, Halted, StartNode, FailWith, Skip, Startable, StartFound, StartWork, StartEffect, Take, Taking, Staged, Kept, Looked, EffectDone, Uploaded, Demand, Needed, Advanced, Drained, Round, GiveUp, FinishUploads, Perform, vars, loop, units, pool, Typed, UnitsTyped
      <3>2. \A i \in DOMAIN Code[r] : i \in 1..at[r] - 1
        BY <2>1, <3>1, CodeIs DEF AtEnd
      <3>3. n \in Between(r, 1, at[r] - 1)
        BY <2>1, <3>2, BetweenIs
      <3> QED
        BY <1>0, <2>1, <3>3 DEF Made
    <2> QED
      BY <2>2, <2>3
  <1> QED
    BY <1>3, <1>5, <1>6, <1>7 DEF Made

\* A step that begins has all it is given, and keeps it.
LEMMA Given1Next == ASSUME Typed, Order, Made, Given1, [Next]_vars PROVE Given1'
  <1> USE Names DEF Given1, Active
  <1> SUFFICES ASSUME NEW s \in Step, step'[s] # "none", NEW d \in Data[s]
               PROVE  state'[d] = "given"
    OBVIOUS
  <1>1. d \in Shared /\ s \in Shared
    BY NodesAreOwn DEF Shared
  <1>2. CASE step[s] # "none"
    BY <1>1, <1>2, SharedStays
  <1>3. CASE step[s] = "none"
    <2> USE DEF vars, loop, units, pool
    <2>0. step \in [Step -> StepAt]
      BY DEF Typed, UnitsTyped
    <2>1. \A u \in Unit : ~RunUnit(u)
      <3> SUFFICES ASSUME NEW u \in Unit, RunUnit(u) PROVE FALSE
        OBVIOUS
      <3>1. unit \in Step => step[unit] = "runnable"
        BY RunsIs DEF Order
      <3> QED
        BY <1>3, <2>0, <3>1 DEF RunUnit, Pick, MakeNodes, GoOn, Pause, AwaitUnit, Hold, FailRoot, PauseStep,
        AwaitUnitStep, Succeed, TryAgain, FailStep, Halted, StopsHere, WaitsHere, FailsHere
    <2>2. \A r \in results : ~Take(r)
      <3> SUFFICES ASSUME NEW r \in results, Take(r) PROVE FALSE
        OBVIOUS
      <3>1. r.work \in Back => r.node \in Step /\ step[r.node] # "none"
        BY DEF Pending, Order, InStep, Typed, OutTyped, Back, Doing
      <3> QED
        BY <1>3, <2>0, <3>1 DEF Take, Taking, Staged, Kept, Looked, EffectDone, Uploaded, Back
    <2>3. ~(Demand \/ Needed \/ Advanced \/ Drained \/ Round \/ GiveUp \/ FinishUploads)
      BY <1>3, <2>0 DEF Demand, Needed, Advanced, Drained, Round, GiveUp, FinishUploads, Waiting
    <2>4. \A j \in jobs : ~Perform(j)
      BY <1>3 DEF Perform
    <2>5. PICK n \in Node : StartNode(n)
      BY <1>3, <2>1, <2>2, <2>3, <2>4 DEF Next, Drive
    <2>6. StartWork(n) /\ n = s
      BY <1>3, <2>0, <2>5 DEF StartNode, FailWith, Skip, Startable, StartFound, StartWork, StartEffect
    <2>7. state' = state /\ state[d] # "failed" /\ state[s] = "waiting" /\ state[d] # "waiting"
      BY <2>6 DEF StartWork, Startable, Order, ToStart
    <2>8. state[d] # "unmade"
      BY <1>1, <2>7 DEF Made
    <2>9. d \in Node
      BY <1>1 DEF Shared
    <2> QED
      BY <2>7, <2>8, <2>9 DEF Typed, NodesTyped, StateAt
  <1> QED
    BY <1>2, <1>3

\* What a target's code has, and what its value has holes for, it may meet.
LEMMA MetIs ==
    ASSUME NEW r \in Root
    PROVE  /\ Holes[r] \subseteq Met(r) \cap Shared
           /\ \A i \in DOMAIN Code[r] : At(r, i) \subseteq Met(r) \cap Shared
  <1>1. /\ Holes[r] \subseteq Shared
        /\ \A i \in DOMAIN Code[r] : At(r, i) \subseteq Shared
    BY NodesAreMadeInOrder, NodesAreOwn
  <1> DEFINE called == UNION {Code[r][i].nodes :
                          i \in {k \in 1..Len(Code[r]) : Code[r][k].op \in {"call", "stop"}}}
  <1>2. \A i \in DOMAIN Code[r] : At(r, i) \subseteq called
    <2>1. DOMAIN Code[r] = 1..Len(Code[r])
      BY CodeIs, Names
    <2> QED
      BY <2>1 DEF At
  <1> HIDE DEF called
  <1>3. Met(r) = UNION {Needs[n] : n \in called \cup Holes[r]}
    BY DEF Met, called
  <1>4. \A n \in Shared : n \in Needs[n]
    BY NeedsIs
  <1> QED
    BY <1>1, <1>2, <1>3, <1>4

\* A target fails of what it meets, and is done with what its value has.
LEMMA AloneNext == ASSUME Typed, Order, Made, Alone, [Next]_vars PROVE Alone'
  <1> USE Names
  <1> SUFFICES ASSUME NEW r \in Root
               PROVE  /\ main'[r] = "failed" =>
                            Mode = "static" \/ \E n \in Met(r) \cap Shared : state'[n] = "failed"
                      /\ main'[r] = "done" =>
                            Mode = "query" \/ \A n \in Holes[r] : state'[n] = "given"
    BY DEF Alone
  <1>0. main \in [Root -> MainAt]
    BY DEF Typed, UnitsTyped
  <1>a. \A n \in Shared : state[n] \in {"given", "failed"} => state'[n] = state[n]
    BY SharedStays
  <1>1. CASE main'[r] = main[r]
    BY <1>1, <1>a, MetIs DEF Alone
  <1>2. CASE main'[r] # main[r]
    <2>1. \/ main' = main
          \/ \E u \in Unit : Pause(u) \/ AwaitUnit(u) \/ Hold(u) \/ FailRoot(u)
          \/ Demand \/ Round
      BY DEF Next, Drive, RunUnit, Pick, MakeNodes, GoOn, PauseStep, AwaitUnitStep, Succeed,
        TryAgain, FailStep, StartNode, FailWith, Skip, Startable, StartFound, StartWork, StartEffect, Take, Taking, Staged, Kept, Looked, EffectDone, Uploaded,
        Needed, Advanced, Drained, GiveUp, FinishUploads, Perform, vars, loop, units, pool
    <2>2. ASSUME NEW u \in Unit, Pause(u) \/ AwaitUnit(u) \/ Hold(u) \/ FailRoot(u)
          PROVE  r = u
      BY <1>0, <1>2, <2>2 DEF Pause, AwaitUnit, Hold, FailRoot
    <2>3. CASE Pause(r)
      BY <1>0, <2>3, TheBuildIsOne DEF Pause
    <2>4. CASE AwaitUnit(r) \/ Hold(r)
      BY <1>0, <2>4 DEF AwaitUnit, Hold
    <2>5. CASE FailRoot(r)
      <3>1. ~AtEnd(r) /\ Next1(r).op = "stop" /\ (\E n \in Next1(r).nodes : state[n] = "failed")
            /\ state' = state
        BY <2>5 DEF FailRoot, FailsHere, Does
      <3>2. at[r] \in DOMAIN Code[r] /\ At(r, at[r]) = Next1(r).nodes
        BY <3>1, AtIs, CodeIs DEF Next1
      <3>3. PICK n \in Met(r) \cap Shared : state'[n] = "failed"
        BY <3>1, <3>2, MetIs
      <3>4. main'[r] = "failed"
        BY <1>0, <2>5 DEF FailRoot
      <3> QED
        BY <3>3, <3>4
    <2>6. CASE Demand
      <3>1. main[r] = "holding" /\ state' = state
            /\ main'[r] = IF Mode = "query" THEN "done"
                          ELSE IF \E n \in Holes[r] : IsWaiting(n) THEN "holding"
                          ELSE IF \E n \in Holes[r] : state[n] = "failed" THEN "failed" ELSE "done"
        BY <1>2, <2>6 DEF Demand
      <3>2. \A n \in Holes[r] : n \in Node /\ state[n] # "unmade" /\ state[n] \in StateAt
        <4>1. \A n \in Holes[r] : n \in Node
          BY MetIs DEF Shared
        <4> QED
          BY <3>1, <4>1 DEF Made, Typed, NodesTyped
      <3> QED
        BY <3>1, <3>2, MetIs DEF IsWaiting, StateAt
    <2>7. CASE Round
      BY <1>2, <2>7 DEF Round
    <2> QED
      BY <1>2, <2>1, <2>2, <2>3, <2>4, <2>5, <2>6, <2>7
  <1> QED
    BY <1>1, <1>2

\* What the counters may be: no step makes one less than nothing.
Positive == background \in Nat /\ uploads \in Nat

LEMMA CountIs ==
    ASSUME NEW J, NEW R, NEW W, IsFiniteSet(J), IsFiniteSet(R)
    PROVE  Cardinality(OutOf(J, R, W)) \in Nat
  <1>1. IsFiniteSet(J \cup R) /\ OutOf(J, R, W) \subseteq J \cup R
    BY FS_Union DEF OutOf
  <1> QED
    BY <1>1, FS_Subset, FS_CardinalityType

LEMMA PositiveNext == ASSUME Typed, Order, Order', Positive, [Next]_vars PROVE Positive'
  <1>1. \A W : Cardinality(OutOf(jobs', results', W)) \in Nat
    BY CountIs DEF Order, OneOut
  <1>2. uploads' = Cardinality(OutOf(jobs', results', {"upload"}))
        /\ (Live' => background' = Cardinality(OutOf(jobs', results', Back)))
    BY DEF Order, Counted, Out, OutOf
  <1>3. ~Live' => background' = background
    <2> USE DEF vars, loop, units, pool, Live
    <2>1. ASSUME NEW u \in Unit, RunUnit(u) PROVE Live'
      <3>1. unit \in Root => phase = "roots"
        BY DEF Order, Turns
      <3>2. unit \in Step => phase = "steps"
        BY DEF Order, Turns
      <3> QED
        BY <2>1, <3>1, <3>2, Names DEF RunUnit, Pick, MakeNodes, GoOn, Pause, AwaitUnit, Hold, FailRoot, PauseStep,
        AwaitUnitStep, Succeed, TryAgain, FailStep, Halted, StopsHere, WaitsHere, FailsHere
    <2>2. ASSUME NEW n \in Node, StartNode(n) PROVE Live'
      BY <2>2 DEF StartNode, FailWith, Skip, Startable, StartFound, StartWork, StartEffect
    <2>3. ASSUME NEW r \in results, Take(r) PROVE Live'
      BY <2>3 DEF Take, Taking, Staged, Kept, Looked, EffectDone, Uploaded
    <2>4. CASE Demand \/ Needed \/ Advanced \/ Drained \/ Round \/ GiveUp \/ FinishUploads
      BY <2>4 DEF Demand, Needed, Advanced, Drained, Round, GiveUp, FinishUploads
    <2>5. ASSUME NEW j \in jobs, Perform(j) PROVE background' = background
      BY <2>5 DEF Perform
    <2> QED
      BY <2>1, <2>2, <2>3, <2>4, <2>5 DEF Next, Drive
  <1> QED
    BY <1>1, <1>2, <1>3 DEF Positive

-----------------------------------------------------------------------------
(* What every build keeps. *)

IInv == Typed /\ Order /\ Positive /\ Made /\ Given1 /\ Alone

LEMMA InitIInv == Init => IInv
  <1> SUFFICES ASSUME Init PROVE IInv
    OBVIOUS
  <1>1. Typed /\ Order
    BY TypedInit, OrderInit
  <1>2. Positive /\ Given1
    BY DEF Init, Positive, Given1, Active
  <1>3. Made
    <2>1. \A u \in Unit : at[u] = 1
      BY DEF Init
    <2>2. \A u \in Unit : \A n \in Between(u, 1, at[u] - 1) : FALSE
      BY <2>1, BetweenIs
    <2>3. \A u \in Unit : \A b \in DOMAIN Code[u] :
             Code[u][b].op = "begin" => memo[Code[u][b].memo] # "ended"
      BY CodeIs, Names DEF Init
    <2>4. \A n \in Shared : state[n] = "unmade"
      BY DEF Init, Shared, Node
    <2>5. \A r \in Root : main[r] # "holding"
      BY DEF Init
    <2> QED
      BY <2>2, <2>3, <2>4, <2>5 DEF Made, IsCall
  <1>4. Alone
    BY DEF Init, Alone
  <1> QED
    BY <1>1, <1>2, <1>3, <1>4 DEF IInv

LEMMA NextIInv == IInv /\ [Next]_vars => IInv'
  BY TypedNext, OrderNext, PositiveNext, MadeNext, Given1Next, AloneNext DEF IInv

\* Of every build: what is out is counted, what a unit is past is made, and
\* what is under way has no result (engine.rs, Run::drive and its handlers).
THEOREM LoopIsInOrder == Spec => []IInv
  BY InitIInv, NextIInv, PTL DEF Spec

\* Places, phases, results and counters keep their types, and no counter goes
\* below nothing (engine.rs, Run::finished).
THEOREM EngineTypes == Spec => []TypeOK
  <1>1. IInv => TypeOK
    BY DEF IInv, Typed, LoopTyped, AtTyped, UnitsTyped, NodesTyped, Positive, TypeOK, Phases, MainAt,
      StepAt, StateAt, Shared, Node
  <1> QED
    BY <1>1, LoopIsInOrder, PTL

\* The loop waits for the pool exactly when the pool has something of its: the
\* counters are of what is out, and a step is as far as that
\* (engine.rs, Run::drive, Run::finished).
THEOREM CountersCountWhatIsOut == Spec => []Accounted
  <1>1. IInv => Accounted
    <2> SUFFICES ASSUME IInv PROVE Accounted
      OBVIOUS
    <2> USE DEF IInv, Order
    <2>1. uploads = Cardinality(Out({"upload"}))
          /\ (Live => background = Cardinality(Out({"stage", "keep", "manifest", "records"})))
      BY DEF Counted, Back
    <2>2. Live => inFlight = {o.node : o \in Out({"effect"})}
      <3>1. \A o \in Out({"effect"}) : o \in Pending /\ o.work = "effect" /\ o.node \in Effect
        BY DEF Out, Pending, Typed, OutTyped
      <3>2. \A o \in Pending : o.work = "effect" => o \in Out({"effect"})
        BY DEF Out, Pending
      <3>3. inFlight \subseteq Effect
        BY DEF Typed, NodesTyped
      <3> QED
        BY <3>1, <3>2, <3>3 DEF Flying
    <2>3. ASSUME Live, phase # "broken", NEW s \in Step
          PROVE  /\ step[s] \in {"manifest", "records", "stage", "keeping"} <=>
                       \E o \in Out({"stage", "keep", "manifest", "records"}) : o.node = s
                 /\ step[s] = "paused" => \E e \in inFlight : Of[e] = s
      <3>1. \A o : o \in Out(Back) <=> o \in Pending /\ o.work \in Back
        BY DEF Out, Pending
      <3>2. \A o \in Out(Back) : step[o.node] = Doing(o.work)
        BY <3>1 DEF InStep
      <3>3. step[s] \in Doings <=> \E o \in Out(Back) : o.node = s
        BY <2>3, <3>1, <3>2 DEF InStep, Back, Doing, Doings
      <3> QED
        BY <3>3 DEF Flying, Back, Doings
    <2> QED
      BY <2>1, <2>2, <2>3 DEF Accounted, Live
  <1> QED
    BY <1>1, LoopIsInOrder, PTL

\* No effect is sent to the pool twice in an attempt, though every round demands
\* again what targets still wait for (engine.rs, Run::start_needed,
\* Run::advance_step).
THEOREM EffectsRunOnce == Spec => []OnceAnAttempt
  <1>1. IInv => OnceAnAttempt
    BY DEF IInv, Order, UnderWay, OnceAnAttempt
  <1> QED
    BY <1>1, LoopIsInOrder, PTL

\* A step's body runs, and its result is kept, with all it is given there
\* (engine.rs, Run::start_needed).
THEOREM StepsAreGivenFirst == Spec => []GivenFirst
  <1>1. IInv => GivenFirst
    BY DEF IInv, Given1, GivenFirst, Active
  <1> QED
    BY <1>1, LoopIsInOrder, PTL

\* A target fails only of what its own code meets, and is done with only with
\* all its value has (engine.rs, Run::root_demands).
THEOREM TargetsFailAlone == Spec => []FailsAlone
  <1>1. IInv => FailsAlone
    BY DEF IInv, Alone, FailsAlone
  <1> QED
    BY <1>1, LoopIsInOrder, PTL

\* A result is never taken back, but with the attempt it was of
\* (engine.rs, Run::failed).
THEOREM ResultsAreKept == Spec => ResultsStay
  <1>1. IInv /\ [Next]_vars =>
          [\A n \in Node : state[n] \in {"given", "failed"} =>
              \/ state'[n] = state[n]
              \/ n \in Effect /\ Of[n] # None /\ tries'[Of[n]] < tries[Of[n]]]_vars
    BY StateChanges, Names DEF IInv
  <1> QED
    BY <1>1, LoopIsInOrder, PTL DEF Spec, ResultsStay

-----------------------------------------------------------------------------
(* Why a build that gives up is right to. *)

\* What becomes of who runs a call.
LEMMA MemoChanges ==
    ASSUME Typed, [Next]_vars, NEW m \in Memo
    PROVE  \/ memo'[m] = memo[m]
           \/ memo[m] \in Unit /\ memo'[m] = "ended" /\ ended'
           \/ memo[m] \in Unit /\ memo'[m] = None /\ ended'
           \/ memo'[m] = "ended" /\ ended' /\ memo[m] \notin Unit
           \/ \E u \in Unit : GoOn(u) /\ Does(u, "begin") /\ Next1(u).memo = m
                              /\ memo[m] = None /\ memo'[m] = u /\ at'[u] = at[u] + 1
  <1> USE Names DEF vars, loop, units, pool
  <1>1. memo' = memo \/ \E u \in Unit :
           GoOn(u) \/ (memo' = Abandoned(u) /\ ended' = (ended \/ memo' # memo))
    BY DEF Next, Drive, RunUnit, Pick, MakeNodes, Pause, AwaitUnit, Hold, FailRoot, PauseStep,
      AwaitUnitStep, Succeed, TryAgain, FailStep, StartNode, FailWith, Skip, Startable, StartFound, StartWork, StartEffect, Take, Taking, Staged, Kept, Looked, EffectDone, Uploaded, Demand, Needed, Advanced, Drained, Round, GiveUp, FinishUploads, Perform
  <1>2. ASSUME NEW u \in Unit, memo' = Abandoned(u), ended' = (ended \/ memo' # memo), memo'[m] # memo[m]
        PROVE  memo[m] \in Unit /\ memo'[m] = None /\ ended'
    BY <1>2 DEF Abandoned
  <1>3. ASSUME NEW u \in Unit, GoOn(u), memo'[m] # memo[m]
        PROVE  \/ memo'[m] = "ended" /\ ended'
               \/ GoOn(u) /\ Does(u, "begin") /\ Next1(u).memo = m
                  /\ memo[m] = None /\ memo'[m] = u /\ at'[u] = at[u] + 1
    BY <1>3 DEF GoOn, Typed, UnitsTyped, AtTyped
  <1> QED
    BY <1>1, <1>2, <1>3

\* A unit in a call stays in it until it ends it.
LEMMA InCallStays ==
    ASSUME Typed, [Next]_vars, NEW m \in Memo, NEW u \in Unit, InCall(u, m), GoOn(u), memo'[m] = u
    PROVE  InCall(u, m)'
  <1> USE Names
  <1>1. PICK b \in DOMAIN Code[u], f \in DOMAIN Code[u] :
           IsCall(u, b, f) /\ Code[u][b].memo = m /\ b < at[u] /\ at[u] <= f
    BY DEF InCall
  <1>2. ~AtEnd(u) /\ at[u] \in DOMAIN Code[u] /\ at[u] \in Nat /\ f \in Nat /\ b \in Nat
    BY <1>1, AtIs, CodeIs DEF GoOn, Does
  <1>3. Code[u][f] = Finish(m) /\ Code[u][f].op = "finish" /\ Code[u][f].memo = m
    BY <1>1 DEF IsCall, Finish
  <1>4. at[u] # f
    <2> SUFFICES ASSUME at[u] = f PROVE FALSE
      OBVIOUS
    <2>1. Next1(u).op = "finish" /\ Next1(u).memo = m
      BY <1>3 DEF Next1
    <2>2. memo' = [memo EXCEPT ![m] = "ended"]
      BY <2>1 DEF GoOn, Does
    <2> QED
      BY <2>2 DEF Typed, UnitsTyped
  <1>5. at'[u] > at[u] /\ at'[u] <= f
    <2>1. CASE at'[u] = at[u] + 1
      BY <1>1, <1>2, <1>4, <2>1
    <2>2. CASE Next1(u).op = "begin" /\ at'[u] = Past(u, Next1(u).memo)
      <3>1. PICK g \in DOMAIN Code[u] : IsCall(u, at[u], g) /\ at'[u] = g + 1
        BY <1>2, <2>2, PastIs
      <3>2. g < f
        BY <1>1, <1>2, <1>4, <3>1, CallsAreWhole
      <3>3. g \in Nat /\ at[u] < g
        BY <3>1, CodeIs DEF IsCall
      <3> QED
        BY <1>2, <3>1, <3>2, <3>3
    <2>3. at'[u] = at[u] + 1 \/ (Next1(u).op = "begin" /\ at'[u] = Past(u, Next1(u).memo))
      BY DEF GoOn, Does, Typed, AtTyped
    <2> QED
      BY <2>1, <2>2, <2>3
  <1>6. at'[u] \in Nat
    BY AtTypedNext DEF AtTyped
  <1>7. b < at'[u]
    BY <1>1, <1>2, <1>5, <1>6
  <1> QED
    BY <1>1, <1>5, <1>7 DEF InCall

\* Where a unit goes on or starts again.
LEMMA AtChanges ==
    ASSUME Typed, [Next]_vars, NEW u \in Unit
    PROVE  at'[u] = at[u] \/ GoOn(u) \/ (TryAgain(u) /\ memo' = Abandoned(u))
  <1>1. at' = at \/ \E v \in Unit : GoOn(v) \/ TryAgain(v)
    BY DEF Next, Drive, RunUnit, Pick, MakeNodes, Pause, AwaitUnit, Hold, FailRoot, PauseStep,
      AwaitUnitStep, Succeed, FailStep, Halted, StartNode, FailWith, Skip, Startable, StartFound, StartWork, StartEffect, Take, Taking, Staged, Kept, Looked, EffectDone, Uploaded, Demand, Needed, Advanced, Drained, Round, GiveUp, FinishUploads, Perform, vars, loop, units, pool
  <1>2. ASSUME NEW v \in Unit, v # u, GoOn(v) PROVE at'[u] = at[u]
    BY <1>2 DEF GoOn, Typed, AtTyped
  <1>3. ASSUME NEW v \in Unit, v # u, TryAgain(v) PROVE at'[u] = at[u]
    BY <1>3 DEF TryAgain, Typed, AtTyped
  <1> QED
    BY <1>1, <1>2, <1>3 DEF TryAgain

\* A unit in a call goes on, or waits, or fails and drops it.
LEMMA GoesOn ==
    ASSUME Mode = "build", Typed, Order, [Next]_vars, NEW u \in Unit, ~AtEnd(u), MayGoOn(u),
           NEW m \in Memo, memo'[m] = u
    PROVE  MayGoOn(u)'
  <1> USE Names DEF MayGoOn, Order, vars, loop, units, pool
  <1>0. main \in [Root -> MainAt] /\ step \in [Step -> StepAt]
    BY DEF Typed, UnitsTyped
  <1>1. ASSUME NEW v \in Unit, RunUnit(v) PROVE MayGoOn(u)'
    <2>1. CASE v = u
      <3>1. memo' # Abandoned(u)
        BY DEF Abandoned
      <3>2. ~Hold(u) /\ ~FailRoot(u) /\ ~Succeed(u) /\ ~TryAgain(u) /\ ~FailStep(u)
        BY <3>1 DEF Hold, FailRoot, Succeed, TryAgain, FailStep
      <3> QED
        BY <1>0, <1>1, <2>1, <3>2 DEF RunUnit, Pick, MakeNodes, GoOn, Pause, AwaitUnit, PauseStep, AwaitUnitStep
    <2>2. CASE v # u
      BY <1>0, <1>1, <2>2 DEF RunUnit, Pick, MakeNodes, GoOn, Pause, AwaitUnit, Hold, FailRoot, PauseStep,
        AwaitUnitStep, Succeed, TryAgain, FailStep
    <2> QED
      BY <2>1, <2>2
  <1>2. ASSUME NEW n \in Node, StartNode(n) PROVE MayGoOn(u)'
    BY <1>0, <1>2 DEF StartNode, FailWith, Skip, Startable, StartFound, StartWork, StartEffect, ToStart, Active
  <1>3. ASSUME NEW r \in results, Take(r) PROVE MayGoOn(u)'
    <2>1. main' = main /\ (r.work \in Back => r.node \in Step /\ step[r.node] = Doing(r.work))
      BY <1>3 DEF Take, Taking, Staged, Kept, Looked, EffectDone, Uploaded, InStep, Pending, Typed, OutTyped, Back
    <2>2. CASE EffectDone(r)
      BY <1>0, <2>1, <2>2 DEF EffectDone
    <2>3. CASE ~EffectDone(r)
      BY <1>0, <1>3, <2>1, <2>3 DEF Take, Taking, Staged, Kept, Looked, Uploaded, Back, Doing
    <2> QED
      BY <2>2, <2>3
  <1>4. CASE Demand \/ Needed \/ Advanced \/ Drained \/ Round \/ GiveUp \/ FinishUploads
    <2>1. CASE Round
      <3>1. \A r \in Root : main'[r] = main[r] \/ main'[r] = "runnable"
        BY <2>1 DEF Round
      <3>2. \A s \in Step : step'[s] = step[s] \/ step'[s] = "runnable"
        BY <2>1 DEF Round
      <3> QED
        BY <3>1, <3>2
    <2>2. CASE Demand
      BY <1>0, <2>2 DEF Demand
    <2>3. CASE Needed \/ Advanced \/ Drained \/ GiveUp \/ FinishUploads
      BY <2>3 DEF Needed, Advanced, Drained, GiveUp, FinishUploads
    <2> QED
      BY <1>4, <2>1, <2>2, <2>3
  <1>5. ASSUME NEW j \in jobs, Perform(j) PROVE MayGoOn(u)'
    BY <1>5 DEF Perform
  <1> QED
    BY <1>1, <1>2, <1>3, <1>4, <1>5 DEF Next, Drive

\* So who has begun a call that is not done is in it, and will end it or drop it.
LEMMA HoldersNext == ASSUME Mode = "build", Typed, Order, Holders, [Next]_vars PROVE Holders'
  <1> USE Names
  <1> SUFFICES ASSUME NEW m \in Memo, NEW u \in Unit, memo'[m] = u
               PROVE  InCall(u, m)' /\ MayGoOn(u)'
    BY DEF Holders
  <1>1. CASE memo[m] = u
    <2>1. InCall(u, m) /\ MayGoOn(u)
      BY <1>1 DEF Holders
    <2>2. ~AtEnd(u)
      BY <2>1, CodeIs DEF InCall, AtEnd
    <2>3. at'[u] = at[u] \/ GoOn(u)
      BY AtChanges DEF Abandoned
    <2>4. InCall(u, m)'
      BY <2>1, <2>3, InCallStays DEF InCall
    <2> QED
      BY <2>1, <2>2, <2>4, GoesOn
  <1>2. CASE memo[m] # u
    <2>1. GoOn(u) /\ Does(u, "begin") /\ Next1(u).memo = m /\ at'[u] = at[u] + 1
      BY <1>2, MemoChanges
    <2>2. at[u] \in DOMAIN Code[u] /\ at[u] \in Nat
      BY <2>1, AtIs DEF Does
    <2>3. PICK f \in DOMAIN Code[u] : IsCall(u, at[u], f)
      BY <2>1, <2>2, CallsAreWhole DEF Does, Next1
    <2>4. f \in Nat /\ at[u] < f
      BY <2>3, CodeIs DEF IsCall
    <2>5. InCall(u, m)'
      BY <2>1, <2>2, <2>3, <2>4 DEF InCall, Next1
    <2>6. main' = main /\ step' = step /\ unit = u
      BY <2>1 DEF GoOn
    <2> QED
      BY <2>5, <2>6 DEF MayGoOn, Order, Turns
  <1> QED
    BY <1>1, <1>2

\* Who waits is not given anything but by the end of a call.
LEMMA AwaitedNext == ASSUME Typed, Order, Awaited, [Next]_vars PROVE Awaited'
  <1> USE Names
  <1> SUFFICES ASSUME ~ended', NEW u \in Unit, u \in Waiting'
               PROVE  Does(u, "begin")' /\ memo'[Next1(u)'.memo] \in Unit
    BY DEF Awaited, Waiting
  <1>0. main \in [Root -> MainAt] /\ step \in [Step -> StepAt]
    BY DEF Typed, UnitsTyped
  <1>1. ~Round
    <2> SUFFICES ASSUME Round PROVE FALSE
      OBVIOUS
    <2>1. main' = [r \in Root |-> IF r \in Waiting \cup Given THEN "runnable" ELSE main[r]]
          /\ step' = [s \in Step |-> IF s \in Waiting THEN "runnable" ELSE step[s]]
      BY DEF Round
    <2>2. u \in Root => main'[u] = "waiting"
      BY DEF Waiting
    <2>3. u \in Step => step'[u] = "waiting"
      BY DEF Waiting
    <2> QED
      BY <2>1, <2>2, <2>3 DEF Waiting
  <1>2. ~ended
    BY <1>1 DEF Next, Drive, RunUnit, Pick, MakeNodes, GoOn, Pause, AwaitUnit, Hold, FailRoot, PauseStep,
        AwaitUnitStep, Succeed, TryAgain, FailStep, Halted, StartNode, FailWith, Skip, Startable, StartFound, StartWork, StartEffect, Take, Taking, Staged, Kept, Looked, EffectDone, Uploaded, Demand, Needed, Advanced, Drained, GiveUp,
      FinishUploads, Perform, vars, loop, units, pool, Typed, LoopTyped
  <1>3. CASE AwaitUnit(u) \/ AwaitUnitStep(u)
    BY <1>3 DEF AwaitUnit, AwaitUnitStep, WaitsHere, Does, AtEnd, Next1
  <1>4. CASE ~(AwaitUnit(u) \/ AwaitUnitStep(u))
    <2>1. u \in Waiting
      <3> USE DEF Waiting, vars, loop, units, pool
      <3>1. ASSUME NEW v \in Unit, RunUnit(v) PROVE u \in Waiting
        BY <1>0, <1>4, <3>1 DEF RunUnit, Pick, MakeNodes, GoOn, Pause, AwaitUnit, Hold, FailRoot, PauseStep,
        AwaitUnitStep, Succeed, TryAgain, FailStep, Halted
      <3>2. ASSUME NEW n \in Node, StartNode(n) PROVE u \in Waiting
        BY <1>0, <3>2 DEF StartNode, FailWith, Skip, Startable, StartFound, StartWork, StartEffect
      <3>3. ASSUME NEW r \in results, Take(r) PROVE u \in Waiting
        <4>1. r.work \in Back => r.node \in Step
          BY DEF Pending, Typed, OutTyped, Back
        <4> QED
          BY <1>0, <3>3, <4>1 DEF Take, Taking, Staged, Kept, Looked, EffectDone, Uploaded, Back
      <3>4. CASE Demand \/ Needed \/ Advanced \/ Drained \/ GiveUp \/ FinishUploads
        BY <1>0, <3>4 DEF Demand, Needed, Advanced, Drained, GiveUp, FinishUploads
      <3>5. ASSUME NEW j \in jobs, Perform(j) PROVE u \in Waiting
        BY <3>5 DEF Perform
      <3> QED
        BY <1>1, <3>1, <3>2, <3>3, <3>4, <3>5 DEF Next, Drive
    <2>2. unit # u
      BY <2>1 DEF Order, Turns, Waiting
    <2>3. at'[u] = at[u]
      BY <2>2, AtChanges DEF GoOn, TryAgain, FailsHere
    <2>4. Does(u, "begin") /\ memo[Next1(u).memo] \in Unit
      BY <1>2, <2>1 DEF Awaited
    <2>5. Next1(u).memo \in Memo
      BY <2>4, AtIs, CodeIs DEF Does, Next1
    <2>6. memo'[Next1(u).memo] \in Unit
      BY <1>2, <2>4, <2>5, MemoChanges
    <2> QED
      BY <2>3, <2>4, <2>6 DEF Does, AtEnd, Next1
  <1> QED
    BY <1>3, <1>4

\* No step but Round takes back that anything moved, and where nothing did, no
\* node came to a result.
LEMMA StillWaits ==
    ASSUME Typed, Order, StepsStill, [Next]_vars, ~moved', ~Round
    PROVE  ~moved /\ \A n \in Node : state[n] = "waiting" => state'[n] = "waiting"
  <1> USE Names DEF vars, loop, units, pool
  <1>1. ~moved
    BY DEF Next, Drive, RunUnit, Pick, MakeNodes, GoOn, Pause, AwaitUnit, Hold, FailRoot, PauseStep,
        AwaitUnitStep, Succeed, TryAgain, FailStep, Halted, StartNode, FailWith, Skip, Startable, StartFound, StartWork, StartEffect, Take, Taking, Staged, Kept, Looked, EffectDone, Uploaded, Demand, Needed, Advanced, Drained, GiveUp,
      FinishUploads, Perform, Typed, LoopTyped
  <1>2. \/ state' = state
        \/ \E u \in Unit : MakeNodes(u)
        \/ \E u \in Step : unit = u
    BY DEF Next, Drive, RunUnit, Pick, MakeNodes, GoOn, Pause, AwaitUnit, Hold, FailRoot, PauseStep,
        AwaitUnitStep, Succeed, TryAgain, FailStep, Halted, StartNode, FailWith, Skip, Startable, StartFound, StartWork, StartEffect, Take, Taking, Staged, Kept, Looked, EffectDone, Uploaded, Demand, Needed, Advanced, Drained, GiveUp,
      FinishUploads, Perform, StopsHere, FailsHere
  <1>3. \A u \in Step : unit # u
    BY <1>1 DEF StepsStill, Order, Turns
  <1>4. ASSUME NEW u \in Unit, MakeNodes(u), NEW n \in Node, state[n] = "waiting"
        PROVE  state'[n] = "waiting"
    BY <1>4 DEF MakeNodes
  <1> QED
    BY <1>1, <1>2, <1>3, <1>4

\* Which targets are stopped: one that stops, stops for what it waits for.
LEMMA StoppedNext ==
    ASSUME Mode = "build", Typed, Order, StepsStill, Stopped, [Next]_vars
    PROVE  Stopped'
  <1> USE Names DEF Stopped
  <1> SUFFICES ASSUME NEW r \in Root, main'[r] = "paused"
               PROVE  waits'[r] # {} /\ (~moved' => \A n \in waits'[r] : state'[n] = "waiting")
    OBVIOUS
  <1>0. main \in [Root -> MainAt] /\ waits \in [Root -> SUBSET Shared] /\ Shared \subseteq Node
    BY DEF Typed, UnitsTyped, Shared, Node
  <1>1. CASE Pause(r)
    BY <1>0, <1>1 DEF Pause, StopsHere, Stops, IsWaiting
  <1>2. CASE Round
    <2>1. main[r] = "paused" /\ r \notin Given /\ waits'[r] = waits[r] /\ state' = state
      BY <1>2 DEF Round
    <2> QED
      BY <2>1 DEF Given, IsWaiting
  <1>3. CASE ~Pause(r) /\ ~Round
    <2>0. \/ main' = main /\ waits' = waits
          \/ \E u \in Unit : Pause(u) \/ AwaitUnit(u) \/ Hold(u) \/ FailRoot(u)
          \/ Demand
      BY <1>3 DEF Next, Drive, RunUnit, Pick, MakeNodes, GoOn, PauseStep,
        AwaitUnitStep, Succeed, TryAgain, FailStep, Halted, StartNode, FailWith, Skip, Startable, StartFound, StartWork, StartEffect, Take, Taking, Staged, Kept, Looked, EffectDone, Uploaded, Needed, Advanced, Drained, GiveUp,
        FinishUploads, Perform, vars, loop, units, pool
    <2>a. Demand => main[r] = "paused" /\ waits'[r] = waits[r]
      BY DEF Demand
    <2>b. ASSUME NEW u \in Unit, Pause(u) \/ AwaitUnit(u) \/ Hold(u) \/ FailRoot(u)
          PROVE  main[r] = "paused" /\ waits'[r] = waits[r]
      <3>1. CASE u = r
        BY <1>0, <1>3, <2>b, <3>1 DEF AwaitUnit, Hold, FailRoot
      <3>2. CASE u # r
        BY <1>0, <2>b, <3>2 DEF Pause, AwaitUnit, Hold, FailRoot
      <3> QED
        BY <3>1, <3>2
    <2>1. main[r] = "paused" /\ waits'[r] = waits[r]
      BY <2>0, <2>a, <2>b
    <2> QED
      BY <1>0, <1>3, <2>1, StillWaits
  <1> QED
    BY <1>1, <1>2, <1>3

LEMMA StepsStillNext == ASSUME Typed, Order, StepsStill, [Next]_vars PROVE StepsStill'
  <1> USE Names DEF StepsStill, vars, loop, units, pool
  <1>0. step \in [Step -> StepAt] /\ moved \in BOOLEAN
    BY DEF Typed, UnitsTyped, LoopTyped
  <1>1. ASSUME NEW u \in Unit, RunUnit(u) PROVE StepsStill'
    <2>1. unit \in Root => phase = "roots"
      BY DEF Order, Turns
    <2>2. u \in Step /\ unit = u => phase = "steps" /\ moved
      BY DEF Order, Turns
    <2> QED
      BY <1>0, <1>1, <2>1, <2>2 DEF RunUnit, Pick, MakeNodes, GoOn, Pause, AwaitUnit, Hold, FailRoot, PauseStep,
        AwaitUnitStep, Succeed, TryAgain, FailStep, Halted, StopsHere, WaitsHere, FailsHere
  <1>2. ASSUME NEW n \in Node, StartNode(n) PROVE StepsStill'
    BY <1>0, <1>2 DEF StartNode, FailWith, Skip, Startable, StartFound, StartWork, StartEffect
  <1>3. ASSUME NEW r \in results, Take(r) PROVE StepsStill'
    BY <1>3 DEF Take, Taking, Staged, Kept, Looked, EffectDone, Uploaded
  <1>4. CASE Demand \/ Needed \/ Advanced \/ Drained \/ Round \/ GiveUp \/ FinishUploads
    <2>1. CASE Round
      <3>1. phase' = "roots" /\ step' = [s \in Step |-> IF s \in Waiting THEN "runnable" ELSE step[s]]
        BY <2>1 DEF Round
      <3> QED
        BY <3>1 DEF Waiting
    <2>2. CASE Needed
      <3>1. phase' = "steps" /\ left' = {s \in Step : step[s] = "runnable"}
            /\ (~moved' => ~moved /\ left' = {}) /\ unit' = unit /\ step' = step
        BY <2>2 DEF Needed
      <3>2. unit = None
        BY <2>2 DEF Needed, Order, Turns, Typed, LoopTyped
      <3> QED
        BY <1>0, <3>1, <3>2
    <2>3. CASE Demand \/ Advanced \/ Drained \/ GiveUp \/ FinishUploads
      BY <2>3 DEF Demand, Advanced, Drained, GiveUp, FinishUploads
    <2> QED
      BY <1>4, <2>1, <2>2, <2>3
  <1>5. ASSUME NEW j \in jobs, Perform(j) PROVE StepsStill'
    BY <1>5 DEF Perform
  <1> QED
    BY <1>1, <1>2, <1>3, <1>4, <1>5 DEF Next, Drive

LEMMA UnfinishedNext == ASSUME Typed, Order, Unfinished, [Next]_vars PROVE Unfinished'
  <1> USE Names DEF Unfinished, vars, loop, units, pool
  <1>1. ASSUME NEW u \in Unit, RunUnit(u) PROVE Unfinished'
    <2>1. unit \in Root => phase = "roots"
      BY DEF Order, Turns
    <2> QED
      BY <1>1, <2>1 DEF RunUnit, Pick, MakeNodes, GoOn, Pause, AwaitUnit, Hold, FailRoot, PauseStep,
        AwaitUnitStep, Succeed, TryAgain, FailStep, Halted, StopsHere, WaitsHere, FailsHere
  <1>2. ASSUME NEW n \in Node, StartNode(n) PROVE Unfinished'
    BY <1>2 DEF StartNode, FailWith, Skip, Startable, StartFound, StartWork, StartEffect
  <1>3. ASSUME NEW r \in results, Take(r) PROVE Unfinished'
    BY <1>3 DEF Take, Taking, Staged, Kept, Looked, EffectDone, Uploaded
  <1>4. CASE Demand \/ Needed \/ Advanced \/ Drained \/ Round \/ GiveUp \/ FinishUploads
    BY <1>4 DEF Demand, Needed, Advanced, Drained, Round, GiveUp, FinishUploads
  <1>5. ASSUME NEW j \in jobs, Perform(j) PROVE Unfinished'
    BY <1>5 DEF Perform
  <1> QED
    BY <1>1, <1>2, <1>3, <1>4, <1>5 DEF Next, Drive

\* Of what a target demands some node is under way, or can be started: the first
\* of those it waits for.
LEMMA DemandIsReady ==
    ASSUME Typed, NEW n \in Demands, state[n] = "waiting"
    PROVE  ReadyNodes # {} \/ Active # {} \/ inFlight # {}
  <1> DEFINE W == {c \in Needs[n] : state[c] = "waiting"}
  <1>1. n \in Shared /\ Shared \subseteq Node
    BY DemandsAreShared DEF Shared, Node
  <1>2. n \in W /\ W \subseteq Node
    BY <1>1, NeedsIs
  <1>3. PICK c \in W : Data[c] \cap W = {}
    BY <1>2, NodesAreMadeInOrder
  <1>4. Data[c] \subseteq Needs[n]
    BY <1>1, <1>3, NeedsIs
  <1>5. \A d \in Data[c] : state[d] # "waiting"
    BY <1>3, <1>4
  <1>6. c \in ReadyNodes \/ c \in Active \/ c \in inFlight
    BY <1>3, <1>5 DEF ReadyNodes, IsWaiting
  <1> QED
    BY <1>6

\* So as a round demands, it stirs, if a target wants a result.
LEMMA DemandStirs ==
    ASSUME Typed, Stopped, Demand, phase' = "need", ~moved, ~NoneWants'
    PROVE  left' # {} \/ Active # {} \/ inFlight # {}
  <1>0. main \in [Root -> MainAt]
    BY DEF Typed, UnitsTyped
  <1>1. left' = ReadyNodes
    BY Names DEF Demand
  <1>2. PICK r \in Root : main'[r] \in {"paused", "holding"}
    BY DEF NoneWants
  <1>3. \E n \in Demands : state[n] = "waiting"
    <2>1. CASE main'[r] = "paused"
      <3>1. main[r] = "paused"
        BY <2>1 DEF Demand
      <3>2. PICK n \in waits[r] : state[n] = "waiting"
        BY <3>1 DEF Stopped
      <3>3. n \in Demands
        BY <3>1, <3>2 DEF Demands
      <3> QED
        BY <3>2, <3>3
    <2>2. CASE main'[r] = "holding"
      <3>1. main[r] = "holding" /\ \E n \in Holes[r] : IsWaiting(n)
        BY <2>2 DEF Demand
      <3>2. PICK n \in Holes[r] : IsWaiting(n)
        BY <3>1
      <3>3. {d \in Holes[r] : IsWaiting(d)}
              \in {{d \in Holes[q] : IsWaiting(d)} : q \in {p \in Root : main[p] = "holding"}}
        BY <3>1
      <3>4. {d \in Holes[r] : IsWaiting(d)} \subseteq Demands
        BY <3>3, Zenon DEF Demands
      <3> QED
        BY <3>2, <3>4 DEF IsWaiting
    <2> QED
      BY <1>2, <2>1, <2>2
  <1> QED
    BY <1>1, <1>3, DemandIsReady

\* Where nothing is out for the engine, no step is at work, but one that runs.
LEMMA NoneAtWork ==
    ASSUME Typed, Order, StepsStill, phase = "steps", ~moved, inFlight = {}, background = 0
    PROVE  Active = {}
  <1> SUFFICES ASSUME NEW s \in Step, step[s] # "none" PROVE FALSE
    BY DEF Active
  <1>1. IsFiniteSet(Out(Back)) /\ Out(Back) = {}
    <2>1. Out(Back) \subseteq jobs \cup results /\ IsFiniteSet(jobs \cup results)
      BY FS_Union DEF Out, Order, OneOut
    <2>2. IsFiniteSet(Out(Back)) /\ Cardinality(Out(Back)) = 0
      BY <2>1, FS_Subset DEF Order, Counted, Live
    <2> QED
      BY <2>2, FS_EmptySet
  <1>2. step[s] \notin Doings
    <2>1. \A o \in Pending : o.work \in Back => o \in Out(Back)
      BY DEF Pending, Out
    <2> QED
      BY <1>1, <2>1 DEF Order, InStep, Live
  <1>3. step[s] # "paused"
    BY DEF Order, Flying
  <1> QED
    BY <1>2, <1>3 DEF StepsStill, Doings, Typed, UnitsTyped, StepAt

\* What targets want stirs the build, or something moved.
LEMMA StirringNext ==
    ASSUME Mode = "build", Typed, Order, Positive, StepsStill, Stopped, Stirring, [Next]_vars
    PROVE  Stirring'
  <1> USE Names DEF Stirring, vars, loop, units, pool
  <1>0. moved \in BOOLEAN
    BY DEF Typed, LoopTyped
  <1>1. ASSUME NEW u \in Unit, RunUnit(u) PROVE Stirring'
    <2>1. phase' = phase /\ phase \in {"roots", "steps"} /\ moved' = moved
      BY <1>1 DEF RunUnit, Pick, MakeNodes, GoOn, Pause, AwaitUnit, Hold, FailRoot, PauseStep,
        AwaitUnitStep, Succeed, TryAgain, FailStep, Halted, StopsHere, WaitsHere, FailsHere, Order, Turns
    <2>2. phase = "steps" => moved
      <3> SUFFICES ASSUME phase = "steps", ~moved PROVE FALSE
        BY <1>0
      <3>1. left = {} /\ unit = None
        BY DEF StepsStill
      <3> QED
        BY <1>1, <3>1 DEF RunUnit, Pick, MakeNodes, GoOn, Pause, AwaitUnit, Hold, FailRoot, PauseStep,
        AwaitUnitStep, Succeed, TryAgain, FailStep, Halted, StopsHere, WaitsHere, FailsHere
    <2> QED
      BY <2>1, <2>2
  <1>2. ASSUME NEW n \in Node, StartNode(n) PROVE Stirring'
    <2>1. CASE Skip(n)
      <3>1. Active # {} /\ phase' = "need" /\ Active' = Active
        BY <2>1 DEF Skip, IsHeld, Active
      <3> QED
        BY <3>1
    <2>2. CASE ~Skip(n)
      BY <1>2, <2>2 DEF StartNode, FailWith, Startable, StartFound, StartWork, StartEffect
    <2> QED
      BY <2>1, <2>2
  <1>3. ASSUME NEW r \in results, Take(r) PROVE Stirring'
    BY <1>3 DEF Take, Taking, Staged, Kept, Looked, EffectDone, Uploaded
  <1>4. CASE Demand \/ Needed \/ Advanced \/ Drained \/ Round \/ GiveUp \/ FinishUploads
    <2>1. CASE Demand
      <3>1. phase' \in {"need", "uploads"} /\ moved' = moved /\ Active' = Active /\ inFlight' = inFlight
        BY <2>1 DEF Demand, Active
      <3> QED
        BY <2>1, <3>1, DemandStirs
    <2>2. CASE Needed
      <3>1. phase' = "steps" /\ phase = "need" /\ left = {} /\ (~moved' => ~moved)
            /\ Active' = Active /\ inFlight' = inFlight /\ NoneWants' = NoneWants
        BY <2>2 DEF Needed, Active, NoneWants
      <3> QED
        BY <3>1
    <2>3. CASE Advanced
      <3>1. phase' \in {"pool", "wake"} /\ phase = "steps" /\ moved' = moved
            /\ Active' = Active /\ NoneWants' = NoneWants
            /\ (phase' = "wake" => inFlight = {} /\ background = 0)
        BY <2>3 DEF Advanced, Active, NoneWants, Positive
      <3> QED
        BY <3>1, NoneAtWork
    <2>4. CASE Drained
      <3>1. phase = "drain" /\ phase' = "wake" /\ moved' = moved
        BY <2>4 DEF Drained
      <3> QED
        BY <3>1 DEF StepsStill
    <2>5. CASE Round \/ GiveUp \/ FinishUploads
      BY <2>5 DEF Round, GiveUp, FinishUploads
    <2> QED
      BY <1>4, <2>1, <2>2, <2>3, <2>4, <2>5
  <1>5. ASSUME NEW j \in jobs, Perform(j) PROVE Stirring'
    <2>1. UNCHANGED <<phase, moved, left, step, main, inFlight>>
      BY <1>5 DEF Perform
    <2> QED
      BY <2>1 DEF Active, NoneWants
  <1>6. CASE UNCHANGED vars
    BY <1>6 DEF Active, NoneWants
  <1> QED
    BY <1>1, <1>2, <1>3, <1>4, <1>5, <1>6 DEF Next, Drive

\* A build that gives up does so of units that wait for each other.
LEMMA GivesUpNext ==
    ASSUME Typed, Order, Holders, Awaited, Unfinished, Stirring, GivesUpRightly, [Next]_vars
    PROVE  GivesUpRightly'
  <1> USE Names
  <1>0. main \in [Root -> MainAt] /\ step \in [Step -> StepAt]
    BY DEF Typed, UnitsTyped
  <1>1. CASE GiveUp
    <2>1. phase = "wake" /\ ~moved /\ ~ended /\ (Waiting = {} => Given = {})
          /\ phase' = (IF Waiting # {} THEN "each other" ELSE "nothing")
          /\ Waiting' = Waiting /\ memo' = memo /\ at' = at
      BY <1>1 DEF GiveUp, Progressed, Waiting, units
    <2>2. Active = {} /\ NoneWants
      BY <2>1 DEF Stirring
    <2>3. \A r \in Root : main[r] # "runnable"
      BY <2>1 DEF Order, Turns
    <2>4. Waiting # {}
      <3>1. PICK r \in Root : main[r] \notin {"done", "failed"}
        BY <2>1 DEF Unfinished
      <3>2. main[r] = "waiting"
        BY <1>0, <2>2, <2>3, <3>1 DEF NoneWants, MainAt
      <3> QED
        BY <3>2 DEF Waiting
    <2>5. ASSUME NEW u \in Waiting PROVE memo[Next1(u).memo] \in Waiting
      <3> DEFINE m == Next1(u).memo
      <3>1. u \in Unit /\ Does(u, "begin") /\ memo[m] \in Unit
        BY <2>1 DEF Awaited, Waiting
      <3>2. m \in Memo
        BY <3>1, AtIs, CodeIs DEF Does, Next1
      <3> HIDE DEF m
      <3>3. MayGoOn(memo[m])
        BY <3>1, <3>2 DEF Holders
      <3>4. memo[m] \in Root => memo[m] \in Waiting
        BY <2>2, <2>3, <3>3 DEF MayGoOn, NoneWants, Waiting
      <3>5. memo[m] \notin Step
        BY <2>2, <3>3 DEF MayGoOn, Active
      <3>6. memo[m] \in Waiting
        BY <3>1, <3>4, <3>5
      <3> QED
        BY <3>6 DEF m
    <2>6. phase' = "each other"
      BY <2>1, <2>4
    <2>7. \A u \in Waiting' : memo'[Next1(u)'.memo] \in Waiting'
      BY <2>1, <2>5 DEF Next1
    <2> QED
      BY <2>6, <2>7 DEF GivesUpRightly
  <1>2. CASE ~GiveUp
    <2>1. \/ phase' \notin {"each other", "nothing"}
          \/ phase' = phase /\ UNCHANGED units
      <3> USE DEF vars, loop, pool
      <3>1. ASSUME NEW u \in Unit, RunUnit(u) PROVE phase' \in {"roots", "steps"}
        BY <3>1 DEF RunUnit, Pick, MakeNodes, GoOn, Pause, AwaitUnit, Hold, FailRoot, PauseStep,
        AwaitUnitStep, Succeed, TryAgain, FailStep, Halted, StopsHere, WaitsHere, FailsHere, Order, Turns
      <3>2. ASSUME NEW n \in Node, StartNode(n) PROVE phase' = "need"
        BY <3>2 DEF StartNode, FailWith, Skip, Startable, StartFound, StartWork, StartEffect
      <3>3. ASSUME NEW r \in results, Take(r) PROVE phase' \in {"drain", "broken"}
        BY <3>3 DEF Take, Taking, Staged, Kept, Looked, EffectDone, Uploaded
      <3>4. CASE Demand \/ Needed \/ Advanced \/ Drained \/ Round \/ FinishUploads
        BY <3>4 DEF Demand, Needed, Advanced, Drained, Round, FinishUploads
      <3>5. ASSUME NEW j \in jobs, Perform(j) PROVE phase' = phase /\ UNCHANGED units
        BY <3>5 DEF Perform
      <3> QED
        BY <1>2, <3>1, <3>2, <3>3, <3>4, <3>5 DEF Next, Drive
    <2>2. UNCHANGED units => Waiting' = Waiting /\ memo' = memo /\ at' = at
      BY DEF units, Waiting
    <2> QED
      BY <2>1, <2>2 DEF GivesUpRightly, Next1
  <1> QED
    BY <1>1, <1>2

\* What a build that may start steps keeps, besides.
KInv ==
    IInv /\ Holders /\ Awaited /\ StepsStill /\ Stopped /\ Unfinished /\ Stirring /\ GivesUpRightly

LEMMA InitKInv == Init => KInv
  <1> SUFFICES ASSUME Init PROVE KInv
    OBVIOUS
  <1>1. IInv
    BY InitIInv
  <1>2. \A m \in Memo : memo[m] \notin Unit
    BY Names DEF Init
  <1>3. Waiting = {}
    BY DEF Init, Waiting
  <1>4. /\ \A r \in Root : main[r] = "runnable"
        /\ \A s \in Step : step[s] = "none"
        /\ phase = "roots"
    BY DEF Init
  <1> QED
    BY <1>1, <1>2, <1>3, <1>4
    DEF KInv, Holders, Awaited, StepsStill, Stopped, Unfinished, Stirring, GivesUpRightly

LEMMA NextKInv == ASSUME Mode = "build" PROVE KInv /\ [Next]_vars => KInv'
  <1>1. IInv => Typed /\ Order /\ Positive
    BY DEF IInv
  <1> QED
    BY <1>1, NextIInv, HoldersNext, AwaitedNext, StepsStillNext, StoppedNext, UnfinishedNext,
      StirringNext, GivesUpNext DEF KInv

\* A build, that may start steps as it goes, gives up only as units wait for each
\* other: never for nothing, and none that waits, for one that does not
\* (engine.rs, Run::drive, Run::wake_waiting).
THEOREM BuildsGiveUpRightly == ASSUME Mode = "build" PROVE Spec => []GivesUpRightly
  <1>1. Init => KInv
    BY InitKInv
  <1>2. KInv /\ [Next]_vars => KInv'
    BY NextKInv
  <1>3. KInv => GivesUpRightly
    BY DEF KInv
  <1> QED
    BY <1>1, <1>2, <1>3, PTL DEF Spec
=============================================================================
