---------------------------- MODULE ClaimsProofs ----------------------------
(***************************************************************************)
(* Proofs about how steps are named, shared and looked up, for any steps,  *)
(* functions, contexts and other builds.  The argument: since a run is a   *)
(* function of what it reads, a receipt that a step has by the contexts    *)
(* another run read is the receipt of its own run; and since a name is     *)
(* held by one step, which gives it up only by failing, whoever shares or  *)
(* meets that name finds that step's result under it.                      *)
(***************************************************************************)
EXTENDS Claims, TLAPS

-----------------------------------------------------------------------------
(* The invariant. *)

Typed ==
    /\ at \in [Step -> Places]
    /\ DOMAIN name = Step /\ DOMAIN result = Step /\ DOMAIN keyed = Step
    /\ holds \subseteq Step /\ ran \subseteq Step

\* A record holds what a run of its receipt gives, by the contexts that run
\* read, wherever it was made.
RecordsRight ==
    \A r \in records :
        /\ r.result = r.receipt
        /\ \E f \in Fn, c \in Contexts :
              r.receipt.fn = f /\ r.receipt.values = Part(c, Reads[f][c])

\* The store has one record by each receipt.
RecordsByReceipt ==
    \A r, q \in records : r.receipt = q.receipt => r = q

Settled == {"remembering", "given", "failed"}

\* A step is keyed by what its own run reads, once it has settled.
KeyedRight ==
    \A s \in Step : \A by \in keyed[s] :
        at[s] \in Settled /\ by = KeyedBy(Outcome(s), ReadBy(s))

ResultsRight ==
    \A s \in Step : at[s] \in {"remembering", "given"} => result[s] = Outcome(s)

KeyedWhenKept ==
    \A s \in Step : at[s] = "remembering" => keyed[s] # {}

\* What a step is given stays, from when it starts.
ArgsGiven ==
    \A s \in Step : \/ at[s] \in {"unmet", "waiting"}
                    \/ at[s] = "failed" /\ keyed[s] = {}
                    \/ Ready(s)

OneHandled ==
    \A s, t \in Step : at[s] \in Handling /\ at[t] \in Handling => s = t

\* A name is held by one step, which started, and each at work holds its own.
OneHolder ==
    /\ \A h \in holds : at[h] \notin {"unmet", "waiting", "naming"}
    /\ \A h, g \in holds : name[h] = name[g] => h = g
    /\ \A s \in Step : Working(s) => s \in holds

\* Whoever was given a result shares its name with a holder given the same.
HeldByGiven ==
    \A s \in Step : at[s] = "given" =>
        \E h \in holds : /\ name[h] = name[s]
                         /\ at[h] = "given" /\ keyed[h] # {}
                         /\ result[h] = result[s]

ClaimsInv ==
    /\ Typed /\ RecordsRight /\ RecordsByReceipt /\ KeyedRight /\ ResultsRight
    /\ KeyedWhenKept /\ ArgsGiven /\ OneHandled /\ OneHolder /\ HeldByGiven
    /\ mismatches = {}

-----------------------------------------------------------------------------
(* What receipts say. *)

\* A step whose contexts are, where another's run read, what that run read,
\* reads there what it read (design/engine.md, R2).
LEMMA SameReads ==
    ASSUME NEW f \in Fn, NEW c \in Contexts, NEW d \in Contexts, NEW keys,
           Part(d, keys) = Part(c, Reads[f][c])
    PROVE  keys = Reads[f][d]
<1>1. keys = Reads[f][c]
  <2>1. DOMAIN Part(d, keys) = keys /\ DOMAIN Part(c, Reads[f][c]) = Reads[f][c]
    BY DEF Part
  <2> QED BY <2>1
<1>2. \A k \in Reads[f][c] : c[k] = d[k]
  <2> TAKE k \in Reads[f][c]
  <2>1. Part(d, keys)[k] = d[k] /\ Part(c, Reads[f][c])[k] = c[k]
    BY <1>1 DEF Part
  <2> QED BY <2>1
<1> QED BY <1>1, <1>2, RunsAreFunctions

LEMMA StepsAre ==
    ASSUME NEW s \in Step
    PROVE  FnOf[s] \in Fn /\ Ctx[s] \in Contexts /\ Dep[s] \in Step \cup {None}
BY StepsAreCalls

\* What is found for a step is what its run gives, by what its run reads.
LEMMA FoundIsOutcome ==
    ASSUME RecordsRight, NEW s \in Step, NEW r \in Found(s)
    PROVE  /\ r.receipt = Outcome(s) /\ r.result = Outcome(s)
           /\ DOMAIN r.receipt.values = ReadBy(s)
<1>1. r \in records
    BY DEF Found
<1>2. PICK m \in remembered : r.receipt = Receipt(s, m.keys)
    BY DEF Found
<1>3. PICK f \in Fn, c \in Contexts :
          r.receipt.fn = f /\ r.receipt.values = Part(c, Reads[f][c])
    BY <1>1 DEF RecordsRight
<1>4. f = FnOf[s] /\ Part(Ctx[s], m.keys) = Part(c, Reads[f][c])
    BY <1>2, <1>3 DEF Receipt, Keyed
<1>5. m.keys = ReadBy(s)
    BY <1>4, SameReads, StepsAre DEF ReadBy
<1>6. r.result = r.receipt
    BY <1>1 DEF RecordsRight
<1>7. DOMAIN Part(Ctx[s], m.keys) = m.keys
    BY DEF Part
<1> QED BY <1>2, <1>5, <1>6, <1>7 DEF Outcome, Receipt, Keyed

\* A step that has its holder's receipt gives what its holder gives.
LEMMA SharedIsOutcome ==
    ASSUME KeyedRight, NEW s \in Step, NEW h \in Step, NEW by \in keyed[h],
           Receipt(s, by.keys) = by.receipt
    PROVE  Outcome(s) = Outcome(h)
<1>1. by = KeyedBy(Outcome(h), ReadBy(h))
    BY DEF KeyedRight
<1>2. Receipt(s, ReadBy(h)) = Receipt(h, ReadBy(h))
    BY <1>1 DEF KeyedBy, Outcome
<1>3. FnOf[s] = FnOf[h] /\ Part(Ctx[s], ReadBy(h)) = Part(Ctx[h], ReadBy(h))
    BY <1>2 DEF Receipt, Keyed
<1>4. ReadBy(h) = ReadBy(s)
    BY <1>3, SameReads, StepsAre DEF ReadBy
<1> QED BY <1>2, <1>4 DEF Outcome

\* A step's run gives the same while its name and what it is given stay.
LEMMA OutcomeStays ==
    ASSUME NEW s \in Step, name'[s] = name[s], Arg(s)' = Arg(s)
    PROVE  Outcome(s)' = Outcome(s)
BY DEF Outcome, Receipt, ReadBy, Keyed

\* What is put is right if what was there is and what is put is.
LEMMA PutRight ==
    ASSUME RecordsRight, NEW receipt, NEW f \in Fn, NEW c \in Contexts,
           receipt.fn = f, receipt.values = Part(c, Reads[f][c]),
           records' = Put(Recorded(receipt, receipt)), RecordsByReceipt
    PROVE  RecordsRight' /\ RecordsByReceipt'
<1>3. RecordsByReceipt'
    BY DEF RecordsByReceipt, Put, Recorded
<1> SUFFICES ASSUME NEW r \in records'
             PROVE  /\ r.result = r.receipt
                    /\ \E g \in Fn, d \in Contexts :
                          r.receipt.fn = g /\ r.receipt.values = Part(d, Reads[g][d])
    BY <1>3 DEF RecordsRight
<1>1. CASE r \in records
    BY <1>1 DEF RecordsRight
<1>2. CASE r = Recorded(receipt, receipt)
    BY <1>2 DEF Recorded
<1> QED BY <1>1, <1>2 DEF Put

-----------------------------------------------------------------------------
(* What a step of the engine leaves of the other steps of the build. *)

\* Only the step s is changed, and it was not given yet.
Local(s) ==
    /\ at[s] # "given"
    /\ \A u \in Step \ {s} : /\ at'[u] = at[u] /\ name'[u] = name[u]
                             /\ result'[u] = result[u] /\ keyed'[u] = keyed[u]

Placed(s, p) == at' = [at EXCEPT ![s] = p]

LEMMA ReadyStays ==
    ASSUME Typed, NEW s \in Step, Local(s), NEW u \in Step, Ready(u)
    PROVE  Ready(u)' /\ Arg(u)' = Arg(u)
<1>1. CASE Dep[u] = None
    BY <1>1 DEF Ready, Arg
<1>2. CASE Dep[u] # None
  <2>1. Dep[u] \in Step \ {s}
    BY <1>2, StepsAre DEF Ready, Local
  <2> QED BY <1>2, <2>1 DEF Ready, Arg, Local
<1> QED BY <1>1, <1>2

\* So what holds of each other step still does.
LEMMA LocalKeeps ==
    ASSUME ClaimsInv, NEW s \in Step, Local(s), NEW u \in Step \ {s}
    PROVE  /\ \A by \in keyed'[u] :
                  at'[u] \in Settled /\ by = KeyedBy(Outcome(u)', ReadBy(u))
           /\ at'[u] \in {"remembering", "given"} => result'[u] = Outcome(u)'
           /\ \/ at'[u] \in {"unmet", "waiting"}
              \/ at'[u] = "failed" /\ keyed'[u] = {}
              \/ Ready(u)'
<1> USE DEF ClaimsInv
<1>1. /\ at'[u] = at[u] /\ name'[u] = name[u]
      /\ result'[u] = result[u] /\ keyed'[u] = keyed[u]
    BY DEF Local
<1>2. CASE at[u] \in {"unmet", "waiting"} \/ (at[u] = "failed" /\ keyed[u] = {})
    BY <1>1, <1>2 DEF KeyedRight, Settled
<1>3. CASE Ready(u)
  <2>1. Ready(u)' /\ Arg(u)' = Arg(u)
    BY <1>3, ReadyStays
  <2>2. Outcome(u)' = Outcome(u)
    BY <1>1, <2>1, OutcomeStays
  <2> QED BY <1>1, <2>1, <2>2 DEF KeyedRight, ResultsRight
<1> QED BY <1>2, <1>3 DEF ArgsGiven

\* And so three parts of the invariant are about s alone.
LEMMA LocalParts ==
    ASSUME ClaimsInv, NEW s \in Step, Local(s),
           \A by \in keyed'[s] :
              at'[s] \in Settled /\ by = KeyedBy(Outcome(s)', ReadBy(s)),
           at'[s] = "remembering" => keyed'[s] # {},
           at'[s] \in {"remembering", "given"} => result'[s] = Outcome(s)',
           \/ at'[s] \in {"unmet", "waiting"}
           \/ at'[s] = "failed" /\ keyed'[s] = {}
           \/ Ready(s)'
    PROVE  KeyedRight' /\ KeyedWhenKept' /\ ResultsRight' /\ ArgsGiven'
<1>1. KeyedRight'
  <2> SUFFICES ASSUME NEW u \in Step, NEW by \in keyed'[u]
               PROVE  at'[u] \in Settled /\ by = KeyedBy(Outcome(u)', ReadBy(u))
    BY DEF KeyedRight, ReadBy, Settled, KeyedBy
  <2> QED BY LocalKeeps
<1>2. ResultsRight'
  <2> SUFFICES ASSUME NEW u \in Step, at'[u] \in {"remembering", "given"}
               PROVE  result'[u] = Outcome(u)'
    BY DEF ResultsRight
  <2> QED BY LocalKeeps
<1>3. ArgsGiven'
  <2> SUFFICES ASSUME NEW u \in Step
               PROVE  \/ at'[u] \in {"unmet", "waiting"}
                      \/ at'[u] = "failed" /\ keyed'[u] = {}
                      \/ Ready(u)'
    BY DEF ArgsGiven
  <2> QED BY LocalKeeps
<1>4. KeyedWhenKept'
    BY DEF KeyedWhenKept, ClaimsInv, Local
<1> QED BY <1>1, <1>2, <1>3, <1>4

-----------------------------------------------------------------------------
(* Each action keeps the invariant. *)

\* One that only takes a step on, from one place to another.
Moves(s, p) ==
    /\ Placed(s, p)
    /\ UNCHANGED <<name, holds, keyed, result, ran, mismatches, records>>

LEMMA MovesKeep ==
    ASSUME ClaimsInv, NEW s \in Step, NEW p \in Places, Moves(s, p),
           at[s] \notin Settled, p \notin {"unmet", "remembering", "given"},
           p \in {"waiting", "failed"} \/ Ready(s),
           p \in Handling => at[s] \in Handling \/ Free,
           s \in holds => p \notin {"waiting", "naming"},
           p \in {"looking", "manifest", "records", "running", "keeping"} => s \in holds
    PROVE  ClaimsInv'
<1> USE DEF ClaimsInv
<1>1. /\ at'[s] = p /\ Local(s)
      /\ \A u \in Step \ {s} : at'[u] = at[u]
    BY DEF Moves, Placed, Local, Typed, Settled
<1>2. keyed[s] = {}
    BY DEF KeyedRight
<1>3. Typed'
    BY DEF Typed, Moves, Placed
<1>4. KeyedRight' /\ KeyedWhenKept' /\ ResultsRight' /\ ArgsGiven'
  <2>1. keyed'[s] = {}
    BY <1>2 DEF Moves
  <2>2. Ready(s) => Ready(s)'
    BY <1>1, ReadyStays
  <2> QED BY <1>1, <2>1, <2>2, LocalParts
<1>5. OneHandled'
    BY <1>1 DEF OneHandled, Free, Handling
<1>6. OneHolder'
    BY <1>1 DEF OneHolder, Working, Moves, Typed, Settled
<1>7. HeldByGiven'
  <2> SUFFICES ASSUME NEW u \in Step, at'[u] = "given"
               PROVE  \E h \in holds' : /\ name'[h] = name'[u]
                                        /\ at'[h] = "given" /\ keyed'[h] # {}
                                        /\ result'[h] = result'[u]
    BY DEF HeldByGiven
  <2>1. at[u] = "given"
    BY <1>1
  <2>2. PICK h \in holds : /\ name[h] = name[u]
                           /\ at[h] = "given" /\ keyed[h] # {}
                           /\ result[h] = result[u]
    BY <2>1 DEF HeldByGiven
  <2>3. h \in Step \ {s}
    BY <2>2 DEF Typed, Settled
  <2> QED BY <1>1, <2>2, <2>3 DEF Moves
<1>8. RecordsRight' /\ RecordsByReceipt' /\ mismatches' = {}
    BY DEF RecordsRight, RecordsByReceipt, Moves
<1> QED BY <1>3, <1>4, <1>5, <1>6, <1>7, <1>8

LEMMA FailWithKeeps ==
    ASSUME ClaimsInv, NEW s \in Step, FailWith(s)
    PROVE  ClaimsInv'
<1>1. Moves(s, "failed")
    BY DEF FailWith, Moves, Placed, store
<1> QED BY <1>1, MovesKeep DEF FailWith, Places, Settled, Handling

LEMMA StartKeeps ==
    ASSUME ClaimsInv, NEW s \in Step, Start(s)
    PROVE  ClaimsInv'
<1>1. Moves(s, "naming")
    BY DEF Start, Moves, Placed, store
<1>2. s \notin holds
    BY DEF Start, ClaimsInv, OneHolder
<1> QED BY <1>1, <1>2, MovesKeep DEF Start, Places, Settled, Handling

LEMMA WaitKeeps ==
    ASSUME ClaimsInv, NEW s \in Step, Wait(s)
    PROVE  ClaimsInv'
<1>1. Moves(s, "waiting")
    BY DEF Wait, Moves, Placed, store
<1>2. s \notin holds
    BY DEF Wait, ClaimsInv, OneHolder
<1> QED BY <1>1, <1>2, MovesKeep DEF Wait, Places, Settled, Handling

\* A step past its naming holds its name, and what it is given is there.
LEMMA WorkingHolds ==
    ASSUME ClaimsInv, NEW s \in Step, Working(s)
    PROVE  s \in holds /\ Ready(s)
BY DEF ClaimsInv, OneHolder, ArgsGiven, Working

LEMMA MissKeeps ==
    ASSUME ClaimsInv, NEW s \in Step, Miss(s)
    PROVE  ClaimsInv'
<1>1. Moves(s, "manifest") \/ Moves(s, "running")
    BY DEF Miss, Moves, Placed, store
<1>2. s \in holds /\ Ready(s)
    BY WorkingHolds DEF Miss, Working
<1> QED BY <1>1, <1>2, MovesKeep DEF Miss, Places, Settled, Handling

LEMMA AskedManifestKeeps ==
    ASSUME ClaimsInv, NEW s \in Step, AskedManifest(s)
    PROVE  ClaimsInv'
<1>1. Moves(s, "records") \/ Moves(s, "running")
    BY DEF AskedManifest, Moves, Placed, store
<1>2. s \in holds /\ Ready(s)
    BY WorkingHolds DEF AskedManifest, Working
<1> QED BY <1>1, <1>2, MovesKeep DEF AskedManifest, Places, Settled, Handling

LEMMA SucceedKeeps ==
    ASSUME ClaimsInv, NEW s \in Step, Succeed(s)
    PROVE  ClaimsInv'
<1>1. Moves(s, "keeping")
    BY DEF Succeed, Moves, Placed, store
<1>2. s \in holds /\ Ready(s)
    BY WorkingHolds DEF Succeed, Working
<1> QED BY <1>1, <1>2, MovesKeep DEF Succeed, Places, Settled, Handling

LEMMA FailKeeps ==
    ASSUME ClaimsInv, NEW s \in Step, Fail(s)
    PROVE  ClaimsInv'
<1>1. Moves(s, "failed")
    BY DEF Fail, Moves, Placed, store
<1> QED BY <1>1, MovesKeep DEF Fail, Places, Settled, Handling
\* Whoever shares a name with a holder that was given still does, if neither
\* the holders, nor the names and results of those given, change.
LEMMA GivenKept ==
    ASSUME ClaimsInv, NEW s \in Step, Local(s),
           \A h \in holds \ {s} : at[h] = "given" => h \in holds',
           at'[s] = "given" =>
               \E h \in holds' : /\ name'[h] = name'[s]
                                 /\ at'[h] = "given" /\ keyed'[h] # {}
                                 /\ result'[h] = result'[s]
    PROVE  HeldByGiven'
<1> SUFFICES ASSUME NEW u \in Step, at'[u] = "given"
             PROVE  \E h \in holds' : /\ name'[h] = name'[u]
                                      /\ at'[h] = "given" /\ keyed'[h] # {}
                                      /\ result'[h] = result'[u]
    BY DEF HeldByGiven
<1>1. CASE u # s
  <2>1. at[u] = "given" /\ name'[u] = name[u] /\ result'[u] = result[u]
    BY <1>1 DEF Local
  <2>2. PICK h \in holds : /\ name[h] = name[u]
                           /\ at[h] = "given" /\ keyed[h] # {}
                           /\ result[h] = result[u]
    BY <2>1 DEF HeldByGiven, ClaimsInv
  <2>3. h \in Step \ {s} /\ h \in holds'
    BY <2>2 DEF Local, ClaimsInv, Typed
  <2>4. at'[h] = at[h] /\ name'[h] = name[h] /\ result'[h] = result[h] /\ keyed'[h] = keyed[h]
    BY <2>3 DEF Local
  <2> QED BY <2>1, <2>2, <2>3, <2>4
<1> QED BY <1>1

LEMMA MeetKeeps ==
    ASSUME ClaimsInv, NEW s \in Step, Meet(s)
    PROVE  ClaimsInv'
<1> USE DEF ClaimsInv
<1>1. /\ at[s] = "unmet" /\ at'[s] = "waiting" /\ Local(s) /\ s \notin holds
      /\ \A u \in Step \ {s} : at'[u] = at[u] /\ name'[u] = name[u]
    BY DEF Meet, Local, Typed, OneHolder
<1>2. Typed'
    BY DEF Typed, Meet, Places
<1>3. keyed'[s] = {}
    BY <1>1 DEF KeyedRight, Settled, Meet
<1>4. KeyedRight' /\ KeyedWhenKept' /\ ResultsRight' /\ ArgsGiven'
    BY <1>1, <1>3, LocalParts
<1>5. OneHandled'
    BY <1>1 DEF OneHandled, Handling
<1>6. OneHolder'
    BY <1>1 DEF OneHolder, Working, Meet, Typed
<1>7. HeldByGiven'
    BY <1>1, GivenKept DEF Meet
<1>8. RecordsRight' /\ RecordsByReceipt' /\ mismatches' = {}
    BY DEF RecordsRight, RecordsByReceipt, Meet, store
<1> QED BY <1>2, <1>4, <1>5, <1>6, <1>7, <1>8

LEMMA ApartKeeps ==
    ASSUME ClaimsInv, NEW s \in Step, Apart(s)
    PROVE  ClaimsInv'
<1> USE DEF ClaimsInv
<1>1. /\ at[s] = "naming" /\ at' = at /\ Local(s) /\ s \notin holds
      /\ \A u \in Step \ {s} : name'[u] = name[u]
    BY DEF Apart, Local, Typed, OneHolder
<1>2. Typed'
    BY DEF Typed, Apart
<1>3. keyed'[s] = {}
    BY <1>1 DEF KeyedRight, Settled, Apart
<1>4. KeyedRight' /\ KeyedWhenKept' /\ ResultsRight' /\ ArgsGiven'
  <2>1. Ready(s)
    BY <1>1 DEF ArgsGiven
  <2>2. Ready(s)'
    BY <1>1, <2>1, ReadyStays
  <2> QED BY <1>1, <1>3, <2>2, LocalParts
<1>5. OneHandled'
    BY <1>1 DEF OneHandled
<1>6. OneHolder'
    BY <1>1 DEF OneHolder, Working, Apart, Typed
<1>7. HeldByGiven'
    BY <1>1, GivenKept DEF Apart
<1>8. RecordsRight' /\ RecordsByReceipt' /\ mismatches' = {}
    BY DEF RecordsRight, RecordsByReceipt, Apart, store
<1> QED BY <1>2, <1>4, <1>5, <1>6, <1>7, <1>8

LEMMA HoldKeeps ==
    ASSUME ClaimsInv, NEW s \in Step, Hold(s)
    PROVE  ClaimsInv'
<1> USE DEF ClaimsInv
<1>1. /\ at[s] = "naming" /\ at'[s] = "looking" /\ Local(s) /\ s \notin holds
      /\ \A u \in Step \ {s} : at'[u] = at[u]
    BY DEF Hold, Local, Typed, OneHolder
<1>2. Typed'
    BY DEF Typed, Hold, Places, Handling
<1>3. keyed'[s] = {}
    BY <1>1 DEF KeyedRight, Settled, Hold
<1>4. KeyedRight' /\ KeyedWhenKept' /\ ResultsRight' /\ ArgsGiven'
  <2>1. Ready(s)
    BY <1>1 DEF ArgsGiven
  <2>2. Ready(s)'
    BY <1>1, <2>1, ReadyStays
  <2> QED BY <1>1, <1>3, <2>2, LocalParts
<1>5. OneHandled'
    BY <1>1 DEF OneHandled, Handling
\* A holder that failed works no more.
<1>6. \A h \in Holders(s) : ~Working(h) /\ at[h] # "given" /\ h \in holds
    BY DEF Hold, Waiting, HeldByGiven, Working, Holders, OneHolder, Typed
<1>7. OneHolder'
  <2>1. name' = name /\ holds' = (holds \ Holders(s)) \cup {s}
    BY DEF Hold
  <2>2. \A h \in holds' : at'[h] \notin {"unmet", "waiting", "naming"}
    BY <1>1, <2>1 DEF OneHolder, Typed
  <2>3. \A h, g \in holds' : name'[h] = name'[g] => h = g
    BY <2>1 DEF OneHolder, Holders
  <2>4. \A u \in Step : Working(u)' => u \in holds'
    BY <1>1, <1>6, <2>1 DEF OneHolder, Working
  <2> QED BY <2>2, <2>3, <2>4 DEF OneHolder
<1>8. HeldByGiven'
    BY <1>1, <1>6, GivenKept DEF Hold
<1>9. RecordsRight' /\ RecordsByReceipt' /\ mismatches' = {}
    BY DEF RecordsRight, RecordsByReceipt, Hold, store
<1> QED BY <1>2, <1>4, <1>5, <1>7, <1>8, <1>9
LEMMA ShareKeeps ==
    ASSUME ClaimsInv, NEW s \in Step, Share(s)
    PROVE  ClaimsInv'
<1> USE DEF ClaimsInv
<1>0. PICK h \in Holders(s) : \E by \in keyed[h] :
          /\ Receipt(s, by.keys) = by.receipt
          /\ result' = [result EXCEPT ![s] = result[h]]
          /\ at' = [at EXCEPT ![s] = at[h]]
    BY DEF Share
<1>1. PICK by \in keyed[h] :
          /\ Receipt(s, by.keys) = by.receipt
          /\ result' = [result EXCEPT ![s] = result[h]]
          /\ at' = [at EXCEPT ![s] = at[h]]
    BY <1>0
<1>2. /\ h \in Step \ {s} /\ h \in holds /\ name[h] = name[s]
      /\ at[h] \in Settled /\ Ready(s)
    BY <1>1 DEF Holders, Typed, KeyedRight, ArgsGiven, Share
\* One handler at a time: the holder's own is over.
<1>3. at[h] \in {"given", "failed"}
    BY <1>1, <1>2 DEF OneHandled, Handling, Settled, Share
<1>4. /\ at[s] = "naming" /\ at'[s] = at[h] /\ result'[s] = result[h]
      /\ Local(s) /\ s \notin holds /\ name' = name /\ keyed' = keyed /\ holds' = holds
      /\ \A u \in Step \ {s} : at'[u] = at[u] /\ result'[u] = result[u]
    BY <1>1, <1>2 DEF Share, Local, Typed, OneHolder
<1>5. Typed'
    BY <1>1, <1>2, <1>4 DEF Typed, Share
<1>6. keyed'[s] = {}
    BY <1>4 DEF KeyedRight, Settled
<1>7. Ready(s)' /\ Arg(s)' = Arg(s)
    BY <1>2, <1>4, ReadyStays
<1>8. at'[s] = "given" => result'[s] = Outcome(s)'
  <2>1. Outcome(s)' = Outcome(s)
    BY <1>4, <1>7, OutcomeStays
  <2>2. Outcome(s) = Outcome(h)
    BY <1>1, <1>2, SharedIsOutcome
  <2> QED BY <1>2, <1>4, <2>1, <2>2 DEF ResultsRight
<1>9. KeyedRight' /\ KeyedWhenKept' /\ ResultsRight' /\ ArgsGiven'
    BY <1>3, <1>4, <1>6, <1>7, <1>8, LocalParts
<1>10. OneHandled'
    BY <1>3, <1>4 DEF OneHandled, Handling
<1>11. OneHolder'
    BY <1>3, <1>4 DEF OneHolder, Working, Typed
<1>12. HeldByGiven'
    BY <1>1, <1>2, <1>4, GivenKept
<1>13. RecordsRight' /\ RecordsByReceipt' /\ mismatches' = {}
    BY DEF RecordsRight, RecordsByReceipt, Share, store
<1> QED BY <1>5, <1>9, <1>10, <1>11, <1>12, <1>13

LEMMA FoundByKeeps ==
    ASSUME ClaimsInv, NEW s \in Step, at[s] \in {"looking", "records"},
           NEW r \in Found(s), FoundBy(s, r)
    PROVE  ClaimsInv'
<1> USE DEF ClaimsInv
<1>1. s \in holds /\ Ready(s)
    BY WorkingHolds DEF Working
<1>2. /\ r.receipt = Outcome(s) /\ r.result = Outcome(s)
      /\ DOMAIN r.receipt.values = ReadBy(s)
    BY FoundIsOutcome
<1>3. /\ Local(s) /\ name' = name /\ holds' = holds
      /\ keyed'[s] = {KeyedBy(Outcome(s), ReadBy(s))}
      /\ at'[s] \in {"given", "failed"}
      /\ at'[s] = "given" => result'[s] = Outcome(s)
      /\ \A u \in Step \ {s} : at'[u] = at[u]
    BY <1>2 DEF FoundBy, Local, Typed
<1>4. Typed'
    BY DEF Typed, FoundBy, Places
<1>5. Ready(s)' /\ Arg(s)' = Arg(s)
    BY <1>1, <1>3, ReadyStays
<1>6. Outcome(s)' = Outcome(s)
    BY <1>3, <1>5, OutcomeStays
<1>7. KeyedRight' /\ KeyedWhenKept' /\ ResultsRight' /\ ArgsGiven'
  <2>1. \A by \in keyed'[s] : at'[s] \in Settled /\ by = KeyedBy(Outcome(s)', ReadBy(s))
    BY <1>3, <1>6 DEF Settled
  <2> QED BY <1>3, <1>5, <1>6, <2>1, LocalParts
<1>8. OneHandled'
    BY <1>3 DEF OneHandled, Handling
<1>9. OneHolder'
    BY <1>1, <1>3 DEF OneHolder, Working, Typed
<1>10. HeldByGiven'
    BY <1>1, <1>3, GivenKept
<1>11. RecordsRight' /\ RecordsByReceipt' /\ mismatches' = {}
    BY DEF RecordsRight, RecordsByReceipt, FoundBy, store
<1> QED BY <1>4, <1>7, <1>8, <1>9, <1>10, <1>11

LEMMA FindKeeps ==
    ASSUME ClaimsInv, NEW s \in Step, Find(s)
    PROVE  ClaimsInv'
BY FoundByKeeps DEF Find

LEMMA AskedRecordsKeeps ==
    ASSUME ClaimsInv, NEW s \in Step, AskedRecords(s)
    PROVE  ClaimsInv'
<1>1. CASE \E r \in Found(s) : r.whole /\ FoundBy(s, r)
    BY <1>1, FoundByKeeps DEF AskedRecords
<1>2. CASE Moves(s, "running")
  <2>1. s \in holds /\ Ready(s)
    BY WorkingHolds DEF AskedRecords, Working
  <2> QED BY <1>2, <2>1, MovesKeep DEF AskedRecords, Places, Settled, Handling
<1> QED BY <1>1, <1>2 DEF AskedRecords, Moves, Placed, store
LEMMA KeptKeeps ==
    ASSUME ClaimsInv, NEW s \in Step, Kept(s)
    PROVE  ClaimsInv'
<1> USE DEF ClaimsInv
<1>1. s \in holds /\ Ready(s)
    BY WorkingHolds DEF Working, Kept
<1>2. /\ at[s] = "keeping" /\ Free /\ Local(s) /\ name' = name /\ holds' = holds
      /\ keyed'[s] = {KeyedBy(Outcome(s), ReadBy(s))}
      /\ at'[s] \in {"remembering", "given"} /\ result'[s] = Outcome(s)
      /\ \A u \in Step \ {s} : at'[u] = at[u]
    BY DEF Kept, Outcome, Local, Typed
<1>3. Typed'
    BY DEF Typed, Kept, Places, Handling
<1>4. Ready(s)' /\ Arg(s)' = Arg(s)
    BY <1>1, <1>2, ReadyStays
<1>5. Outcome(s)' = Outcome(s)
    BY <1>2, <1>4, OutcomeStays
<1>6. KeyedRight' /\ KeyedWhenKept' /\ ResultsRight' /\ ArgsGiven'
  <2>1. \A by \in keyed'[s] : at'[s] \in Settled /\ by = KeyedBy(Outcome(s)', ReadBy(s))
    BY <1>2, <1>5 DEF Settled
  <2> QED BY <1>2, <1>4, <1>5, <2>1, LocalParts
<1>7. OneHandled'
    BY <1>2 DEF OneHandled, Handling, Free
<1>8. OneHolder'
    BY <1>1, <1>2 DEF OneHolder, Working, Typed
<1>9. HeldByGiven'
    BY <1>1, <1>2, GivenKept
<1>10. RecordsRight' /\ RecordsByReceipt'
  <2>1. CASE records' = records
    BY <2>1 DEF RecordsRight, RecordsByReceipt
  <2>2. CASE records' = Put(Recorded(Outcome(s), Outcome(s)))
    <3>1. Outcome(s).fn = FnOf[s] /\ Outcome(s).values = Part(Ctx[s], Reads[FnOf[s]][Ctx[s]])
      BY DEF Outcome, Receipt, Keyed, ReadBy
    <3> QED BY <2>2, <3>1, StepsAre, PutRight
  <2> QED BY <2>1, <2>2 DEF Kept, Outcome
<1>11. mismatches' = {}
  <2>1. \A r \in records : r.receipt = Outcome(s) => r.result = Outcome(s)
    BY DEF RecordsRight
  <2> QED BY <2>1 DEF Kept, Outcome
<1> QED BY <1>3, <1>6, <1>7, <1>8, <1>9, <1>10, <1>11

LEMMA RememberKeeps ==
    ASSUME ClaimsInv, NEW s \in Step, Remember(s)
    PROVE  ClaimsInv'
<1> USE DEF ClaimsInv
<1>1. s \in holds /\ Ready(s)
    BY WorkingHolds DEF Working, Remember
<1>2. /\ at[s] = "remembering" /\ at'[s] = "given" /\ Local(s)
      /\ name' = name /\ holds' = holds /\ result' = result /\ keyed' = keyed
      /\ \A u \in Step \ {s} : at'[u] = at[u]
    BY DEF Remember, Local, Typed
<1>3. Typed'
    BY DEF Typed, Remember, Places
<1>4. Ready(s)' /\ Arg(s)' = Arg(s)
    BY <1>1, <1>2, ReadyStays
<1>5. Outcome(s)' = Outcome(s)
    BY <1>2, <1>4, OutcomeStays
<1>6. KeyedRight' /\ KeyedWhenKept' /\ ResultsRight' /\ ArgsGiven'
  <2>1. \A by \in keyed'[s] : at'[s] \in Settled /\ by = KeyedBy(Outcome(s)', ReadBy(s))
    BY <1>2, <1>5 DEF Settled, KeyedRight
  <2> QED BY <1>2, <1>4, <1>5, <2>1, LocalParts DEF ResultsRight
<1>7. OneHandled'
    BY <1>2 DEF OneHandled, Handling
<1>8. OneHolder'
    BY <1>1, <1>2 DEF OneHolder, Working, Typed
<1>9. keyed[s] # {}
    BY <1>2 DEF KeyedWhenKept
<1>10. HeldByGiven'
    BY <1>1, <1>2, <1>9, GivenKept
<1>11. RecordsRight' /\ RecordsByReceipt' /\ mismatches' = {}
    BY DEF RecordsRight, RecordsByReceipt, Remember
<1> QED BY <1>3, <1>6, <1>7, <1>8, <1>10, <1>11

LEMMA OthersKeep ==
    ASSUME ClaimsInv, Others
    PROVE  ClaimsInv'
<1> USE DEF ClaimsInv
\* What the build has is as it was, if it is not another.
<1>1. ASSUME UNCHANGED build PROVE
         /\ Typed' /\ KeyedRight' /\ KeyedWhenKept' /\ ResultsRight' /\ ArgsGiven'
         /\ OneHandled' /\ OneHolder' /\ HeldByGiven' /\ mismatches' = {}
  <2>1. /\ at' = at /\ name' = name /\ holds' = holds /\ keyed' = keyed
        /\ result' = result /\ ran' = ran /\ mismatches' = mismatches
    BY <1>1 DEF build
  <2>2. \A s \in Step : Outcome(s)' = Outcome(s)
    BY <2>1 DEF Outcome, Receipt, Arg, Keyed, ReadBy
  <2>3. KeyedRight' /\ KeyedWhenKept' /\ ResultsRight'
    BY <2>1, <2>2 DEF KeyedRight, KeyedWhenKept, ResultsRight, ReadBy, KeyedBy, Settled
  <2>4. ArgsGiven'
    BY <2>1 DEF ArgsGiven, Ready
  <2>5. OneHolder'
    BY <2>1 DEF OneHolder, Working
  <2>6. HeldByGiven'
    BY <2>1 DEF HeldByGiven
  <2> QED BY <2>1, <2>3, <2>4, <2>5, <2>6 DEF Typed, OneHandled
<1>2. ASSUME NEW s \in Step, NEW c \in Elsewhere, RecordElsewhere(s, c)
      PROVE  ClaimsInv'
  <2> DEFINE seen == Keyed(FnOf[s], name[s], Arg(s), Part(c, Reads[FnOf[s]][c]))
  <2>1. seen.fn = FnOf[s] /\ seen.values = Part(c, Reads[FnOf[s]][c])
    BY DEF Keyed
  <2>2. c \in Contexts /\ FnOf[s] \in Fn
    BY StepsAreCalls
  <2>3. records' = Put(Recorded(seen, seen)) /\ UNCHANGED build
    BY <1>2 DEF RecordElsewhere
  <2> HIDE DEF seen
  <2>4. RecordsRight' /\ RecordsByReceipt'
    BY <2>1, <2>2, <2>3, PutRight
  <2> QED BY <1>1, <2>3, <2>4
<1>3. ASSUME NEW s \in Step, NEW c \in Elsewhere, RememberElsewhere(s, c)
      PROVE  ClaimsInv'
  <2>1. RecordsRight' /\ RecordsByReceipt' /\ UNCHANGED build
    BY <1>3 DEF RememberElsewhere, RecordsRight, RecordsByReceipt
  <2> QED BY <1>1, <2>1
<1>4. ASSUME NextBuild PROVE ClaimsInv'
  <2>1. Typed'
    BY <1>4 DEF NextBuild, Typed, Places
  <2>2. RecordsRight' /\ RecordsByReceipt'
    BY <1>4 DEF NextBuild, RecordsRight, RecordsByReceipt
  <2>3. KeyedRight' /\ KeyedWhenKept' /\ ResultsRight' /\ ArgsGiven' /\ OneHandled'
    BY <1>4 DEF NextBuild, KeyedRight, KeyedWhenKept, ResultsRight, ArgsGiven, OneHandled, Handling
  <2>4. OneHolder' /\ HeldByGiven' /\ mismatches' = {}
    BY <1>4 DEF NextBuild, OneHolder, HeldByGiven, Working
  <2> QED BY <2>1, <2>2, <2>3, <2>4
<1> QED BY <1>2, <1>3, <1>4 DEF Others

LEMMA ClaimsInvHolds == Spec => []ClaimsInv
<1>1. Init => ClaimsInv
  <2> SUFFICES ASSUME Init PROVE ClaimsInv
    OBVIOUS
  <2>1. Typed
    BY DEF Init, Typed, Places
  <2>2. RecordsRight /\ RecordsByReceipt /\ KeyedRight /\ KeyedWhenKept
      /\ ResultsRight /\ ArgsGiven
    BY DEF Init, RecordsRight, RecordsByReceipt, KeyedRight, KeyedWhenKept, ResultsRight, ArgsGiven
  <2>3. OneHandled /\ OneHolder /\ HeldByGiven /\ mismatches = {}
    BY DEF Init, OneHandled, Handling, OneHolder, HeldByGiven, Working
  <2> QED BY <2>1, <2>2, <2>3 DEF ClaimsInv
<1>2. ClaimsInv /\ [Next]_vars => ClaimsInv'
  <2> SUFFICES ASSUME ClaimsInv, [Next]_vars PROVE ClaimsInv'
    OBVIOUS
  <2>1. ASSUME NEW s \in Step, Engine(s) PROVE ClaimsInv'
    BY <2>1, MeetKeeps, FailWithKeeps, StartKeeps, HoldKeeps, WaitKeeps, ShareKeeps,
       ApartKeeps, FindKeeps, MissKeeps, AskedManifestKeeps, AskedRecordsKeeps,
       SucceedKeeps, FailKeeps, KeptKeeps, RememberKeeps
    DEF Engine, Claim, Look, Run
  <2>2. CASE UNCHANGED vars
    BY <2>2 DEF vars, build, store, ClaimsInv, Typed, RecordsRight, RecordsByReceipt,
       KeyedRight, KeyedWhenKept, ResultsRight, ArgsGiven, OneHandled, OneHolder,
       HeldByGiven, Working, Ready, Outcome, Receipt, Arg, Keyed, ReadBy, KeyedBy, Settled, Handling
  <2> QED BY <2>1, <2>2, OthersKeep DEF Next
<1> QED BY <1>1, <1>2, PTL DEF Spec
-----------------------------------------------------------------------------
(* Why alike steps run once: they are named alike. *)

IsSeq(q) == q \in Seq({q[i] : i \in DOMAIN q})

\* A step is named by its function, and apart only once what it is given is there.
NamesRight ==
    \A s \in Step : at[s] # "unmet" =>
        /\ name[s] = Named(name[s].identity, name[s].apart)
        /\ name[s].identity.fn = FnOf[s]
        /\ IsSeq(name[s].apart)
        /\ Ready(s) \/ name[s].apart = <<>>

\* The i-th time s was named apart, it was from the step h, which held the name
\* that s had, and whose run read what tells them apart.
ApartFrom(s, i, h) ==
    /\ h \in holds /\ keyed[h] # {}
    /\ name[h].identity = name[s].identity
    /\ Len(name[h].apart) = i - 1
    /\ \A j \in 1..i - 1 : name[h].apart[j] = name[s].apart[j]
    /\ name[s].apart[i] = Keyed(FnOf[s], name[h], Arg(s), Part(Ctx[s], ReadBy(h)))
    /\ name[s].apart[i] # Outcome(h)

ApartRight ==
    \A s \in Step : at[s] # "unmet" =>
        \A i \in 1..Len(name[s].apart) : \E h \in Step : ApartFrom(s, i, h)

\* As far as both were named apart, it was from the same.
Agree(s, t) ==
    \A i \in 1..Len(name[s].apart) :
        i \in 1..Len(name[t].apart) => name[s].apart[i] = name[t].apart[i]

AlikeAgree == \A s, t \in Step : Alike(s, t) => Agree(s, t)

\* What ran holds its name to the end.
RanHolds == \A s \in ran : s \in holds /\ keyed[s] # {}

NamesInv == NamesRight /\ ApartRight /\ AlikeAgree /\ RanHolds

\* Appending leaves what was there.
LEMMA AppendIs ==
    ASSUME NEW q, IsSeq(q), NEW e
    PROVE  /\ IsSeq(Append(q, e)) /\ Len(q) \in Nat
           /\ Len(Append(q, e)) = Len(q) + 1
           /\ \A i \in 1..Len(q) : Append(q, e)[i] = q[i]
           /\ Append(q, e)[Len(q) + 1] = e
<1> DEFINE S == {q[i] : i \in DOMAIN q}
           T == S \cup {e}
<1>1. q \in Seq(S)
    BY DEF IsSeq
<1> HIDE DEF S
<1>2. q \in Seq(T) /\ e \in T
    BY <1>1
<1> DEFINE p == Append(q, e)
<1> HIDE DEF T
<1>3. /\ p \in Seq(T) /\ Len(q) \in Nat /\ Len(p) = Len(q) + 1
      /\ \A i \in 1..Len(q) : p[i] = q[i]
      /\ p[Len(q) + 1] = e
    BY <1>2
<1> HIDE DEF p
<1>4. p \in Seq({p[i] : i \in DOMAIN p})
    BY <1>3
<1>5. IsSeq(p)
    BY <1>4 DEF IsSeq
<1> QED BY <1>3, <1>5 DEF p

\* Names of the same parts are one name.
LEMMA SameName ==
    ASSUME NEW s \in Step, NEW t \in Step, NamesRight, at[s] # "unmet", at[t] # "unmet",
           name[s].identity = name[t].identity,
           Len(name[s].apart) = Len(name[t].apart),
           \A i \in 1..Len(name[s].apart) : name[s].apart[i] = name[t].apart[i]
    PROVE  name[s] = name[t]
<1> DEFINE q == name[s].apart
           p == name[t].apart
<1>1. IsSeq(q) /\ IsSeq(p)
    BY DEF NamesRight
<1> HIDE DEF q, p
<1>2. q = [i \in 1..Len(q) |-> q[i]] /\ p = [i \in 1..Len(p) |-> p[i]]
    BY <1>1 DEF IsSeq
<1>3. Len(q) = Len(p) /\ \A i \in 1..Len(q) : q[i] = p[i]
    BY DEF q, p
<1>4. q = p
    BY <1>2, <1>3
<1> QED BY <1>4 DEF NamesRight, q, p

\* What a step of the engine leaves, and does, of names.
LEMMA EngineChanges ==
    ASSUME ClaimsInv, NEW s \in Step, Engine(s)
    PROVE  /\ Local(s)
           /\ name' = name \/ Meet(s) \/ Apart(s)
           /\ at[s] = "unmet" => Meet(s)
           /\ \A h \in holds : keyed[h] # {} => h \in holds' /\ keyed'[h] # {}
           /\ ran' = ran \/ Kept(s)
<1> USE DEF ClaimsInv
<1>1. Local(s)
    BY DEF Engine, Claim, Look, Run, Meet, FailWith, Start, Hold, Wait, Share, Apart, Find,
       Miss, AskedManifest, AskedRecords, FoundBy, Succeed, Fail, Kept, Remember, Local, Typed
<1>2. name' = name \/ Meet(s) \/ Apart(s)
    BY DEF Engine, Claim, Look, Run, FailWith, Start, Hold, Wait, Share, Find,
       Miss, AskedManifest, AskedRecords, FoundBy, Succeed, Fail, Kept, Remember, store
<1>5. at[s] = "unmet" => Meet(s)
    BY DEF Engine, Claim, Look, Run, FailWith, Start, Hold, Wait, Share, Apart, Find,
       Miss, AskedManifest, AskedRecords, FoundBy, Succeed, Fail, Kept, Remember
<1>6. ran' = ran \/ Kept(s)
    BY DEF Engine, Claim, Look, Run, Meet, FailWith, Start, Hold, Wait, Share, Apart, Find,
       Miss, AskedManifest, AskedRecords, FoundBy, Succeed, Fail, Remember
<1>3. \A h \in holds : keyed[h] # {} => keyed'[h] # {}
  <2>1. \A k : keyed' = [keyed EXCEPT ![s] = {k}] =>
            \A h \in holds : keyed[h] # {} => keyed'[h] # {}
    BY DEF Typed
  <2>2. (\E r : FoundBy(s, r)) \/ Kept(s) => \E k : keyed' = [keyed EXCEPT ![s] = {k}]
    BY DEF FoundBy, Kept
  <2>3. Look(s) => keyed' = keyed \/ \E r : FoundBy(s, r)
    BY DEF Look, Find, Miss, AskedManifest, AskedRecords
  <2>4. Meet(s) \/ FailWith(s) \/ Start(s) \/ Claim(s) => keyed' = keyed
    BY DEF Claim, Meet, FailWith, Start, Hold, Wait, Share, Apart
  <2>5. Run(s) => keyed' = keyed \/ Kept(s)
    BY DEF Run, Succeed, Fail, Remember
  <2> QED BY <2>1, <2>2, <2>3, <2>4, <2>5 DEF Engine
<1>4. \A h \in holds : keyed[h] # {} => h \in holds'
  <2>1. CASE Hold(s)
    BY <2>1 DEF Hold
  <2>2. CASE holds' = holds
    BY <2>2
  <2> QED BY <2>1, <2>2 DEF Engine, Claim, Look, Run, Meet, FailWith, Start, Wait, Share, Apart,
       Find, Miss, AskedManifest, AskedRecords, FoundBy, Succeed, Fail, Kept, Remember
<1> QED BY <1>1, <1>2, <1>3, <1>4, <1>5, <1>6

\* What is given to a step that was named apart stays, and so does what it was
\* named apart from.
LEMMA ApartFromStays ==
    ASSUME ClaimsInv, NamesRight, NEW s \in Step, Engine(s), NEW u \in Step, NEW i, NEW h \in Step,
           Ready(u), ApartFrom(u, i, h), name'[u] = name[u]
    PROVE  ApartFrom(u, i, h)'
<1>1. Local(s) /\ Typed
    BY EngineChanges DEF ClaimsInv
<1>2. h \in holds' /\ keyed'[h] # {}
    BY EngineChanges DEF ApartFrom
<1>3. at[h] \in Settled /\ Ready(h)
    BY DEF ApartFrom, ClaimsInv, KeyedRight, ArgsGiven, Settled
<1>4. name'[h] = name[h]
    BY <1>1, <1>3, EngineChanges DEF Meet, Apart, Settled, Local
<1>5. Arg(u)' = Arg(u) /\ Outcome(h)' = Outcome(h)
    BY <1>1, <1>3, <1>4, ReadyStays, OutcomeStays
<1> QED BY <1>2, <1>4, <1>5 DEF ApartFrom, ReadBy

\* Where a step is named apart, and from what.
LEMMA ApartStep ==
    ASSUME ClaimsInv, NamesRight, NEW s \in Step, Apart(s)
    PROVE  \E h \in holds :
             /\ at[s] = "naming" /\ Ready(s) /\ h # s /\ keyed[h] # {} /\ name[h] = name[s]
             /\ name'[s].identity = name[s].identity
             /\ name'[s] = Named(name[s].identity, name'[s].apart)
             /\ name'[s].apart =
                   Append(name[s].apart, Keyed(FnOf[s], name[h], Arg(s), Part(Ctx[s], ReadBy(h))))
             /\ Keyed(FnOf[s], name[h], Arg(s), Part(Ctx[s], ReadBy(h))) # Outcome(h)
<1> USE DEF ClaimsInv
<1>1. at[s] = "naming" /\ Ready(s)
    BY DEF Apart, ArgsGiven
<1>2. PICK h \in Holders(s) : \E by \in keyed[h] :
          /\ Receipt(s, by.keys) # by.receipt
          /\ name' = [name EXCEPT ![s] =
                Named(@.identity, Append(@.apart, Receipt(s, by.keys)))]
    BY DEF Apart
<1>3. PICK by \in keyed[h] :
          /\ Receipt(s, by.keys) # by.receipt
          /\ name' = [name EXCEPT ![s] =
                Named(@.identity, Append(@.apart, Receipt(s, by.keys)))]
    BY <1>2
<1>4. h \in holds /\ h # s /\ name[h] = name[s] /\ h \in Step
    BY <1>2 DEF Holders, Typed
<1>5. by.keys = ReadBy(h) /\ by.receipt = Outcome(h)
    BY <1>3, <1>4 DEF KeyedRight, KeyedBy
<1>6. Receipt(s, by.keys) = Keyed(FnOf[s], name[h], Arg(s), Part(Ctx[s], ReadBy(h)))
    BY <1>4, <1>5 DEF Receipt
<1>7. name'[s] = Named(name[s].identity, Append(name[s].apart, Receipt(s, by.keys)))
    BY <1>3 DEF Typed
<1>8. /\ name'[s].identity = name[s].identity
      /\ name'[s].apart = Append(name[s].apart, Receipt(s, by.keys))
      /\ name'[s] = Named(name[s].identity, name'[s].apart)
    BY <1>7 DEF Named
<1>9. Receipt(s, by.keys) # Outcome(h) /\ keyed[h] # {}
    BY <1>3, <1>5
<1> QED BY <1>1, <1>4, <1>6, <1>8, <1>9

LEMMA NamesRightStays ==
    ASSUME ClaimsInv, NamesRight, NEW s \in Step, Engine(s)
    PROVE  NamesRight'
<1> SUFFICES ASSUME NEW u \in Step, at'[u] # "unmet"
             PROVE  /\ name'[u] = Named(name'[u].identity, name'[u].apart)
                    /\ name'[u].identity.fn = FnOf[u]
                    /\ IsSeq(name'[u].apart)
                    /\ Ready(u)' \/ name'[u].apart = <<>>
    BY DEF NamesRight, IsSeq
<1> USE DEF ClaimsInv
<1>1. CASE u = s /\ Meet(s)
  <2>1. name'[u] = Named(Identity(s), <<>>)
    BY <1>1 DEF Meet, Typed
  <2>2. IsSeq(<<>>)
    BY DEF IsSeq
  <2> QED BY <1>1, <2>1, <2>2 DEF Named, Identity
<1>2. CASE u = s /\ Apart(s)
  <2>1. PICK h \in holds :
             /\ at[s] = "naming" /\ Ready(s)
             /\ name'[s].identity = name[s].identity
             /\ name'[s] = Named(name[s].identity, name'[s].apart)
             /\ name'[s].apart =
                   Append(name[s].apart, Keyed(FnOf[s], name[h], Arg(s), Part(Ctx[s], ReadBy(h))))
    BY <1>2, ApartStep
  <2>2. IsSeq(name'[s].apart)
    BY <2>1, AppendIs DEF NamesRight
  <2>3. Ready(s)'
    BY <2>1, EngineChanges, ReadyStays
  <2> QED BY <1>2, <2>1, <2>2, <2>3 DEF NamesRight
<1>3. CASE name'[u] = name[u] /\ at[u] # "unmet"
    BY <1>3, EngineChanges, ReadyStays DEF NamesRight
<1> QED BY <1>1, <1>2, <1>3, EngineChanges DEF Local, Meet, Apart

LEMMA ApartRightStays ==
    ASSUME ClaimsInv, NamesRight, ApartRight, NEW s \in Step, Engine(s)
    PROVE  ApartRight'
<1> SUFFICES ASSUME NEW u \in Step, at'[u] # "unmet", NEW i \in 1..Len(name'[u].apart)
             PROVE  \E h \in Step : ApartFrom(u, i, h)'
    BY DEF ApartRight
<1>1. CASE u = s /\ Meet(s)
    BY <1>1 DEF Meet, Named, ClaimsInv, Typed
<1>2. CASE u = s /\ Apart(s)
  <2>1. PICK h \in holds :
             /\ at[s] = "naming" /\ Ready(s) /\ h # s /\ keyed[h] # {} /\ name[h] = name[s]
             /\ name'[s].identity = name[s].identity
             /\ name'[s] = Named(name[s].identity, name'[s].apart)
             /\ name'[s].apart =
                   Append(name[s].apart, Keyed(FnOf[s], name[h], Arg(s), Part(Ctx[s], ReadBy(h))))
             /\ Keyed(FnOf[s], name[h], Arg(s), Part(Ctx[s], ReadBy(h))) # Outcome(h)
    BY <1>2, ApartStep
  <2> DEFINE e == Keyed(FnOf[s], name[h], Arg(s), Part(Ctx[s], ReadBy(h)))
  <2>2. /\ Len(name[s].apart) \in Nat
        /\ Len(name'[s].apart) = Len(name[s].apart) + 1
        /\ \A j \in 1..Len(name[s].apart) : name'[s].apart[j] = name[s].apart[j]
        /\ name'[s].apart[Len(name[s].apart) + 1] = e
    BY <2>1, AppendIs DEF NamesRight
  <2>3. Local(s) /\ Arg(s)' = Arg(s)
    BY <2>1, EngineChanges, ReadyStays DEF ClaimsInv
  <2>4. CASE i = Len(name[s].apart) + 1
    <3>1. h \in Step /\ name'[h] = name[h] /\ h \in holds' /\ keyed'[h] # {}
      BY <2>1, <2>3, EngineChanges DEF ClaimsInv, Typed, Local
    <3>2. Ready(h)
      BY <2>1, <3>1 DEF ClaimsInv, KeyedRight, ArgsGiven, Settled
    <3>3. Outcome(h)' = Outcome(h)
      BY <2>3, <3>1, <3>2, ReadyStays, OutcomeStays DEF ClaimsInv
    <3>4. ApartFrom(s, i, h)'
      <4>1. Keyed(FnOf[s], name[h], Arg(s), Part(Ctx[s], ReadBy(h)))'
              = Keyed(FnOf[s], name[h], Arg(s), Part(Ctx[s], ReadBy(h)))
        BY <2>3, <3>1 DEF Keyed, ReadBy
      <4>2. /\ name'[h].identity = name'[s].identity
            /\ Len(name'[h].apart) = i - 1
            /\ \A j \in 1..i - 1 : name'[h].apart[j] = name'[s].apart[j]
        BY <2>1, <2>2, <2>4, <3>1
      <4>3. name'[s].apart[i] = e
        BY <2>2, <2>4
      <4> QED BY <2>1, <3>1, <3>3, <4>1, <4>2, <4>3 DEF ApartFrom
    <3> QED BY <1>2, <3>1, <3>4
  <2>5. CASE i \in 1..Len(name[s].apart)
    <3>1. PICK g \in Step : ApartFrom(s, i, g)
      BY <2>1, <2>5 DEF ApartRight
    <3>2. g \in holds /\ keyed[g] # {} /\ at[g] \in Settled /\ Ready(g)
      BY <3>1 DEF ApartFrom, ClaimsInv, KeyedRight, ArgsGiven, Settled
    <3>3. name'[g] = name[g] /\ g \in holds' /\ keyed'[g] # {}
      BY <2>1, <2>3, <3>2, EngineChanges DEF Local, Settled
    <3>4. Outcome(g)' = Outcome(g)
      BY <2>3, <3>2, <3>3, ReadyStays, OutcomeStays DEF ClaimsInv
    <3>5. /\ name'[g].identity = name'[s].identity
          /\ Len(name'[g].apart) = i - 1
          /\ \A j \in 1..i - 1 : name'[g].apart[j] = name'[s].apart[j]
          /\ name'[s].apart[i] = name[s].apart[i]
      BY <2>1, <2>2, <2>5, <3>1, <3>3 DEF ApartFrom
    <3>6. name'[s].apart[i] = Keyed(FnOf[s], name'[g], Arg(s)', Part(Ctx[s], ReadBy(g)))
      BY <2>3, <3>1, <3>3, <3>5 DEF ApartFrom
    <3>7. name'[s].apart[i] # Outcome(g)'
      BY <3>1, <3>4, <3>5 DEF ApartFrom
    <3>8. ApartFrom(s, i, g)'
      BY <3>3, <3>5, <3>6, <3>7 DEF ApartFrom, ReadBy
    <3> QED BY <1>2, <3>8
  <2> QED BY <1>2, <2>2, <2>4, <2>5
<1>3. CASE name'[u] = name[u] /\ at[u] # "unmet"
  <2>1. Ready(u)
    BY <1>3 DEF NamesRight
  <2>2. PICK h \in Step : ApartFrom(u, i, h)
    BY <1>3 DEF ApartRight
  <2> QED BY <1>3, <2>1, <2>2, ApartFromStays
<1> QED BY <1>1, <1>2, <1>3, EngineChanges DEF Local, Meet, Apart

LEMMA RanHoldsStays ==
    ASSUME ClaimsInv, RanHolds, NEW s \in Step, Engine(s)
    PROVE  RanHolds'
<1> SUFFICES ASSUME NEW u \in ran' PROVE u \in holds' /\ keyed'[u] # {}
    BY DEF RanHolds
<1>1. CASE u \in ran
    BY <1>1, EngineChanges DEF RanHolds
<1>2. CASE Kept(s) /\ u = s
  <2>1. s \in holds
    BY <1>2, WorkingHolds DEF Kept, Working
  <2> QED BY <1>2, <2>1 DEF Kept, ClaimsInv, Typed
<1> QED BY <1>1, <1>2, EngineChanges DEF Kept


\* To be alike is mutual.
LEMMA AlikeIs ==
    ASSUME NamesRight, NEW s \in Step, NEW t \in Step, Alike(s, t)
    PROVE  FnOf[s] = FnOf[t] /\ Alike(t, s)
BY DEF Alike, NamesRight

\* Where two alike steps were named alike so far, who holds the name they had is
\* met by both, and reads what tells neither from the other.
LEMMA ApartAlike ==
    ASSUME ClaimsInv, NamesRight, NEW s \in Step, NEW t \in Step, Alike(s, t), Agree(s, t),
           NEW g \in Step, Len(name[s].apart) \in Nat,
           Len(name[s].apart) + 1 \in 1..Len(name[t].apart),
           ApartFrom(t, Len(name[s].apart) + 1, g)
    PROVE  /\ name[g] = name[s]
           /\ name[t].apart[Len(name[s].apart) + 1]
                = Keyed(FnOf[s], name[g], Arg(s), Part(Ctx[s], ReadBy(g)))
<1> DEFINE n == Len(name[s].apart)
<1>1. /\ at[s] # "unmet" /\ at[t] # "unmet" /\ name[s].identity = name[t].identity
      /\ Arg(s) = Arg(t) /\ FnOf[s] = FnOf[t]
    BY AlikeIs DEF Alike
<1>2. g \in holds /\ at[g] # "unmet"
    BY DEF ApartFrom, ClaimsInv, OneHolder
<1>3. /\ name[g].identity = name[s].identity /\ Len(name[g].apart) = n
      /\ \A j \in 1..n : name[g].apart[j] = name[t].apart[j]
      /\ name[t].apart[n + 1] = Keyed(FnOf[t], name[g], Arg(t), Part(Ctx[t], ReadBy(g)))
    BY <1>1 DEF ApartFrom
<1>4. \A j \in 1..n : name[s].apart[j] = name[t].apart[j]
  <2>1. n + 1 \in 1..Len(name[t].apart)
    OBVIOUS
  <2>2. \A j \in 1..n : j \in 1..Len(name[t].apart)
    <3>1. Len(name[t].apart) \in Nat
      BY <1>1, AppendIs DEF NamesRight
    <3> QED BY <2>1, <3>1
  <2> QED BY <2>2 DEF Agree
<1>5. name[g] = name[s]
    BY <1>1, <1>2, <1>3, <1>4, SameName
<1>6. FnOf[g] = FnOf[s]
    BY <1>1, <1>2, <1>5 DEF NamesRight
<1>7. Part(Ctx[t], ReadBy(g)) = Part(Ctx[s], ReadBy(g))
    BY <1>6 DEF Alike, Part
<1> QED BY <1>1, <1>3, <1>5, <1>7

\* So naming one apart leaves it named as the other is.
LEMMA ApartAgrees ==
    ASSUME ClaimsInv, NamesRight, ApartRight, NEW s \in Step, Apart(s), NEW t \in Step \ {s},
           Alike(s, t), Agree(s, t)
    PROVE  Agree(s, t)' /\ Agree(t, s)'
<1>1. PICK h \in holds :
         /\ name[h] = name[s]
         /\ name'[s].apart =
               Append(name[s].apart, Keyed(FnOf[s], name[h], Arg(s), Part(Ctx[s], ReadBy(h))))
    BY ApartStep
<1>2. /\ at[s] # "unmet" /\ at[t] # "unmet" /\ name'[t] = name[t]
    BY DEF Alike, Apart, ClaimsInv, Typed
<1> DEFINE n == Len(name[s].apart)
<1>3. /\ n \in Nat /\ Len(name'[s].apart) = n + 1
      /\ \A j \in 1..n : name'[s].apart[j] = name[s].apart[j]
      /\ name'[s].apart[n + 1] = Keyed(FnOf[s], name[h], Arg(s), Part(Ctx[s], ReadBy(h)))
    BY <1>1, <1>2, AppendIs DEF NamesRight
<1>4. ASSUME n + 1 \in 1..Len(name[t].apart)
      PROVE  name'[s].apart[n + 1] = name[t].apart[n + 1]
  <2>1. PICK g \in Step : ApartFrom(t, n + 1, g)
    BY <1>2, <1>4 DEF ApartRight
  <2>2. /\ name[g] = name[s]
        /\ name[t].apart[n + 1] = Keyed(FnOf[s], name[g], Arg(s), Part(Ctx[s], ReadBy(g)))
    BY <1>3, <1>4, <2>1, ApartAlike
  <2>3. g = h
    BY <1>1, <2>1, <2>2 DEF ApartFrom, ClaimsInv, OneHolder
  <2> QED BY <1>3, <2>2, <2>3
<1>5. \A i \in 1..n + 1 : i \in 1..n \/ i = n + 1
    BY <1>3
<1>6. \A i \in 1..n + 1 : i \in 1..Len(name[t].apart) => name'[s].apart[i] = name[t].apart[i]
    BY <1>3, <1>4, <1>5 DEF Agree
<1> HIDE DEF n
<1>7. \A i \in 1..Len(name'[s].apart) :
         i \in 1..Len(name'[t].apart) => name'[s].apart[i] = name'[t].apart[i]
    BY <1>2, <1>3, <1>6
<1> QED BY <1>7 DEF Agree

LEMMA AlikeAgreeStays ==
    ASSUME ClaimsInv, NamesRight, ApartRight, AlikeAgree, NEW s \in Step, Engine(s)
    PROVE  AlikeAgree'
<1> SUFFICES ASSUME NEW u \in Step, NEW v \in Step, Alike(u, v)'
             PROVE  Agree(u, v)'
    BY DEF AlikeAgree
<1>1. CASE name'[u].apart = <<>> \/ name'[v].apart = <<>>
    BY <1>1 DEF Agree
<1>2. CASE name'[u].apart # <<>> /\ name'[v].apart # <<>>
  <2>1. ASSUME NEW w \in {u, v}
        PROVE  /\ at[w] # "unmet" /\ Ready(w)
               /\ name'[w].identity = name[w].identity
               /\ name'[w] = name[w] \/ (w = s /\ Apart(s))
    <3>1. at'[w] # "unmet" /\ w \in Step /\ name'[w].apart # <<>>
      BY <1>2, <2>1 DEF Alike
    <3>2. ~(w = s /\ Meet(s))
      BY <3>1 DEF Meet, Named, ClaimsInv, Typed
    <3>3. at[w] # "unmet" /\ (name'[w] = name[w] \/ (w = s /\ Apart(s)))
      BY <3>1, <3>2, EngineChanges DEF Local, Meet, Apart
    <3>4. CASE name'[w] = name[w]
      BY <3>1, <3>3, <3>4 DEF NamesRight
    <3>5. CASE w = s /\ Apart(s)
      BY <3>3, <3>5, ApartStep
    <3> QED BY <3>3, <3>4, <3>5
  <2>2. Arg(u)' = Arg(u) /\ Arg(v)' = Arg(v)
    BY <2>1, EngineChanges, ReadyStays DEF ClaimsInv
  <2>3. Alike(u, v)
    BY <2>1, <2>2 DEF Alike, ReadBy
  <2>4. Alike(v, u) /\ Agree(u, v) /\ Agree(v, u)
    BY <2>3, AlikeIs DEF AlikeAgree
  <2>5. CASE u = v
    BY <2>5 DEF Agree
  <2>6. CASE u # v /\ u = s /\ Apart(s)
    BY <2>3, <2>4, <2>6, ApartAgrees
  <2>7. CASE u # v /\ v = s /\ Apart(s)
    BY <2>3, <2>4, <2>7, ApartAgrees
  <2>8. CASE name'[u] = name[u] /\ name'[v] = name[v]
    BY <2>4, <2>8 DEF Agree
  <2> QED BY <2>1, <2>5, <2>6, <2>7, <2>8
<1> QED BY <1>1, <1>2

\* What others do changes no name of the build, or begins another.
LEMMA NamesInvNext ==
    ASSUME ClaimsInv, NamesInv, [Next]_vars
    PROVE  NamesInv'
<1> USE DEF NamesInv
<1>1. ASSUME NEW s \in Step, Engine(s) PROVE NamesInv'
    BY <1>1, NamesRightStays, ApartRightStays, AlikeAgreeStays, RanHoldsStays
<1>2. CASE NextBuild
  <2>1. ran' = {} /\ \A s \in Step : at'[s] = "unmet"
    BY <1>2 DEF NextBuild
  <2> QED BY <2>1 DEF NamesRight, ApartRight, AlikeAgree, RanHolds, Alike
<1>3. CASE UNCHANGED build
  <2>1. UNCHANGED <<at, name, holds, keyed, result, ran>>
    BY <1>3 DEF build
  <2>2. /\ \A s \in Step : Arg(s)' = Arg(s) /\ Outcome(s)' = Outcome(s)
        /\ \A s \in Step : Ready(s)' = Ready(s)
    BY <2>1 DEF Arg, Outcome, Receipt, Keyed, ReadBy, Ready
  <2>3. NamesRight'
    BY <2>1, <2>2 DEF NamesRight, IsSeq
  <2>4. ApartRight'
    <3>1. \A s, h \in Step : \A i : ApartFrom(s, i, h)' = ApartFrom(s, i, h)
      BY <2>1, <2>2 DEF ApartFrom, ReadBy
    <3> QED BY <2>1, <3>1 DEF ApartRight
  <2>5. AlikeAgree' /\ RanHolds'
    <3>1. \A s, t \in Step : Alike(s, t)' = Alike(s, t) /\ Agree(s, t)' = Agree(s, t)
      BY <2>1, <2>2 DEF Alike, Agree, ReadBy
    <3> QED BY <2>1, <3>1 DEF AlikeAgree, RanHolds
  <2> QED BY <2>3, <2>4, <2>5
<1> QED BY <1>1, <1>2, <1>3 DEF Next, Others, RecordElsewhere, RememberElsewhere, vars

LEMMA NamesInvHolds == Spec => []NamesInv
<1>1. Init => NamesInv
    BY DEF Init, NamesInv, NamesRight, ApartRight, AlikeAgree, RanHolds, Alike
<1> QED BY <1>1, NamesInvNext, ClaimsInvHolds, PTL DEF Spec

-----------------------------------------------------------------------------
(* The theorems. *)

\* Every step is given what its own run would give, wherever that came from.
THEOREM StepsAreGivenTheirs == Spec => []Sound
<1>1. ClaimsInv => Sound
    BY DEF ClaimsInv, ResultsRight, Sound
<1> QED BY <1>1, ClaimsInvHolds, PTL

\* No two steps work in one directory, and none in one whose outputs another
\* was given.
THEOREM DirectoriesAreApart == Spec => []OneDirectory
<1>1. ClaimsInv => OneDirectory
  <2> SUFFICES ASSUME ClaimsInv, NEW s \in Step, NEW t \in Step,
                      s # t, name[s] = name[t], at[s] # "unmet", at[t] # "unmet"
               PROVE  /\ Working(s) => at[t] \in {"waiting", "naming", "failed"}
                      /\ at[s] = "given" /\ at[t] = "given" => result[s] = result[t]
    BY DEF OneDirectory
  <2> USE DEF ClaimsInv
  <2>1. ASSUME Working(s) PROVE at[t] \in {"waiting", "naming", "failed"}
    <3>1. s \in holds /\ ~Working(t)
      BY <2>1 DEF OneHolder
    <3>2. at[t] # "given"
      <4> SUFFICES ASSUME at[t] = "given" PROVE FALSE
        OBVIOUS
      <4>1. PICK h \in holds : name[h] = name[t] /\ at[h] = "given"
        BY DEF HeldByGiven
      <4>2. h = s
        BY <3>1, <4>1 DEF OneHolder
      <4> QED BY <2>1, <4>1, <4>2 DEF Working
    <3>3. at[t] \in Places
      BY DEF Typed
    <3> QED BY <3>1, <3>2, <3>3 DEF Working, Places, Handling
  <2>2. ASSUME at[s] = "given", at[t] = "given" PROVE result[s] = result[t]
    <3>1. PICK h \in holds : name[h] = name[s] /\ result[h] = result[s]
      BY <2>2 DEF HeldByGiven
    <3>2. PICK g \in holds : name[g] = name[t] /\ result[g] = result[t]
      BY <2>2 DEF HeldByGiven
    <3> QED BY <3>1, <3>2 DEF OneHolder
  <2> QED BY <2>1, <2>2
<1> QED BY <1>1, ClaimsInvHolds, PTL

\* A build that compares blames no step whose code is a function of what it
\* reads.
THEOREM TheFunctionalAreNotBlamed == Spec => []NoneBlamed
<1>1. ClaimsInv => NoneBlamed
    BY DEF ClaimsInv, NoneBlamed
<1> QED BY <1>1, ClaimsInvHolds, PTL

\* What is recorded whole and remembered does not run again.
THEOREM RecordedStepsAreFound == Spec => NoneRunAgain
<1> DEFINE Good ==
      \A s \in Step :
          /\ at[s] # "running" /\ at'[s] = "running"
          /\ reuse = "store"
          => ~\E r \in records : /\ r.whole /\ r.receipt = Outcome(s)
                                 /\ Remembers(Base(s), ReadBy(s)) \in remembered
<1>1. ClaimsInv /\ [Next]_vars => [Good]_vars
  <2> SUFFICES ASSUME ClaimsInv, Next, NEW s \in Step,
                      at[s] # "running", at'[s] = "running", reuse = "store",
                      NEW r \in records, r.whole, r.receipt = Outcome(s),
                      Remembers(Base(s), ReadBy(s)) \in remembered
               PROVE  FALSE
    OBVIOUS
  <2> USE DEF ClaimsInv
  <2>1. r \in Found(s)
    BY DEF Found, Outcome, Remembers
  <2>2. ~Missed(s)
    <3>1. \A q \in Found(s) : q \in records /\ q.receipt = Outcome(s)
      BY FoundIsOutcome DEF Found
    <3>2. \A q \in Found(s) : q = r
      BY <3>1 DEF RecordsByReceipt
    <3> QED BY <2>1, <3>2 DEF Missed
  <2>3. ASSUME NEW t \in Step, Engine(t) PROVE FALSE
    <3>1. at'[s] = at[s] \/ s = t
      BY <2>3 DEF Engine, Claim, Look, Run, Meet, FailWith, Start, Hold, Wait, Share,
         Apart, Find, Miss, AskedManifest, AskedRecords, FoundBy, Succeed, Fail, Kept,
         Remember, Typed
    <3>2. ~Meet(s) /\ ~FailWith(s) /\ ~Start(s) /\ ~Run(s)
      BY DEF Meet, FailWith, Start, Run, Succeed, Fail, Kept, Remember, Typed
    <3>3. ~Hold(s) /\ ~Wait(s) /\ ~Apart(s)
      BY DEF Hold, Wait, Apart, Typed
    <3>4. ~Share(s)
      BY DEF Share, KeyedRight, Holders, Typed, Settled
    <3>5. ~Find(s) /\ ~Miss(s) /\ ~AskedRecords(s)
      BY <2>2 DEF Find, Miss, AskedRecords, FoundBy, Typed
    <3>6. ~AskedManifest(s)
      BY DEF AskedManifest, Remembers, Typed
    <3> QED BY <2>3, <3>1, <3>2, <3>3, <3>4, <3>5, <3>6 DEF Engine, Claim, Look
  <2>4. ASSUME Others PROVE FALSE
    BY <2>4 DEF Others, RecordElsewhere, RememberElsewhere, NextBuild, build
  <2> QED BY <2>3, <2>4 DEF Next
<1> QED BY <1>1, ClaimsInvHolds, PTL DEF Spec, NoneRunAgain

\* Steps that only contexts none of them reads tell apart run once, in whatever
\* order they start, and whoever of them fails (engine.rs, Run::claim_name).
THEOREM AlikeStepsRunOnce == Spec => []RunOnce
<1>1. ClaimsInv /\ NamesInv => RunOnce
  <2> SUFFICES ASSUME ClaimsInv, NamesInv, NEW s \in ran, NEW t \in ran, Alike(s, t)
               PROVE  s = t
    BY DEF RunOnce
  <2> USE DEF NamesInv
  <2>1. s \in Step /\ t \in Step /\ s \in holds /\ t \in holds
    BY DEF RanHolds, ClaimsInv, Typed
  <2>2. Alike(t, s) /\ Agree(s, t) /\ Agree(t, s) /\ at[s] # "unmet" /\ at[t] # "unmet"
    BY <2>1, AlikeIs DEF AlikeAgree, Alike
  <2>3. Len(name[s].apart) \in Nat /\ Len(name[t].apart) \in Nat
    BY <2>1, <2>2, AppendIs DEF NamesRight
  \* One of a shorter name would hold the name the other was named apart from.
  <2>4. ASSUME NEW u \in Step, NEW v \in Step, Alike(u, v), Agree(u, v), u \in holds,
               Len(name[u].apart) \in Nat, Len(name[v].apart) \in Nat,
               Len(name[u].apart) < Len(name[v].apart)
        PROVE  FALSE
    <3> DEFINE n == Len(name[u].apart)
    <3>1. n + 1 \in 1..Len(name[v].apart)
      BY <2>4
    <3>2. at[v] # "unmet"
      BY <2>4 DEF Alike
    <3>3. PICK g \in Step : ApartFrom(v, n + 1, g)
      BY <3>1, <3>2 DEF ApartRight
    <3>4. /\ name[g] = name[u]
          /\ name[v].apart[n + 1] = Keyed(FnOf[u], name[g], Arg(u), Part(Ctx[u], ReadBy(g)))
      BY <2>4, <3>1, <3>3, ApartAlike
    <3>5. g = u
      BY <2>4, <3>3, <3>4 DEF ApartFrom, ClaimsInv, OneHolder
    <3>6. name[v].apart[n + 1] # Outcome(g)
      BY <3>3 DEF ApartFrom
    <3> QED BY <3>4, <3>5, <3>6 DEF Outcome, Receipt
  <2>5. Len(name[s].apart) = Len(name[t].apart)
    BY <2>1, <2>2, <2>3, <2>4
  <2>6. name[s] = name[t]
    <3>1. \A i \in 1..Len(name[s].apart) : name[s].apart[i] = name[t].apart[i]
      BY <2>2, <2>5 DEF Agree
    <3> QED BY <2>1, <2>2, <2>5, <3>1, SameName DEF Alike
  <2> QED BY <2>1, <2>6 DEF ClaimsInv, OneHolder
<1> QED BY <1>1, ClaimsInvHolds, NamesInvHolds, PTL

\* And none is named apart but from one that was given something else, or read
\* another value (engine.rs, Claim::Apart).
THEOREM TheDifferentAreApart == Spec => []ApartIfDifferent
<1>1. ClaimsInv /\ NamesInv => ApartIfDifferent
  <2> SUFFICES ASSUME ClaimsInv, NamesInv, NEW s \in Step, at[s] # "unmet", name[s].apart # <<>>
               PROVE  \E t \in Step :
                         /\ at[t] # "unmet"
                         /\ name[t].identity = name[s].identity
                         /\ \/ Arg(t) # Arg(s)
                            \/ \E k \in ReadBy(t) : Ctx[t][k] # Ctx[s][k]
    BY DEF ApartIfDifferent
  <2> USE DEF NamesInv
  <2>1. 1 \in 1..Len(name[s].apart)
    <3>1. IsSeq(name[s].apart) /\ Len(name[s].apart) \in Nat
      BY AppendIs DEF NamesRight
    <3>2. Len(name[s].apart) # 0
      BY <3>1 DEF IsSeq
    <3> QED BY <3>1, <3>2
  <2>2. PICK h \in Step : ApartFrom(s, 1, h)
    BY <2>1 DEF ApartRight
  <2>3. at[h] # "unmet" /\ name[h].identity = name[s].identity
    BY <2>2 DEF ApartFrom, ClaimsInv, OneHolder
  <2>4. FnOf[h] = FnOf[s]
    BY <2>3 DEF NamesRight
  <2>5. Keyed(FnOf[s], name[h], Arg(s), Part(Ctx[s], ReadBy(h)))
          # Keyed(FnOf[h], name[h], Arg(h), Part(Ctx[h], ReadBy(h)))
    BY <2>2 DEF ApartFrom, Outcome, Receipt
  <2>6. Arg(h) # Arg(s) \/ Part(Ctx[s], ReadBy(h)) # Part(Ctx[h], ReadBy(h))
    BY <2>4, <2>5
  <2>7. (\A k \in ReadBy(h) : Ctx[h][k] = Ctx[s][k])
           => Part(Ctx[s], ReadBy(h)) = Part(Ctx[h], ReadBy(h))
    BY DEF Part
  <2> QED BY <2>3, <2>6, <2>7
<1> QED BY <1>1, ClaimsInvHolds, NamesInvHolds, PTL
=============================================================================
