--------------------------- MODULE ProgramsProofs ---------------------------
(***************************************************************************)
(* That a program found is told from one run by nothing its step sees,     *)
(* whatever programs do, whatever the worlds they run in, and however many *)
(* runs share the store's records.                                         *)
(***************************************************************************)
EXTENDS Programs, TLAPS

\* Each run has a value of each variable.
Shape ==
    /\ DOMAIN pc = Runs /\ DOMAIN reuse = Runs /\ DOMAIN on = Runs
    /\ DOMAIN view = Runs /\ DOMAIN known = Runs /\ DOMAIN pending = Runs
    /\ DOMAIN staged = Runs /\ DOMAIN unstaged = Runs /\ DOMAIN bound = Runs
    /\ DOMAIN made = Runs /\ DOMAIN trees = Runs /\ DOMAIN job = Runs
    /\ DOMAIN key = Runs /\ DOMAIN record = Runs /\ DOMAIN last = Runs
    /\ DOMAIN effects = Runs

\* Whose effects are at work.
Sent(r) ==
    /\ pc[r] \in {"sent", "found", "placing", "running", "ran"} => job[r].of \in Programs
    /\ pc[r] = "writing" => job[r].of \in Writers

\* What is known while programs may be found: the view is of all that was
\* made, and digests are only held while nothing of the run's is at work.
Followed(r) ==
    /\ pc[r] = "out" => known[r] = None
    /\ pc[r] # "out" /\ on[r] =>
          /\ view[r] = made[r]
          /\ known[r] # None => known[r] = trees[r] /\ pc[r] = "code"
    /\ pc[r] = "sent" /\ job[r].known # None => job[r].known = trees[r]

\* A program that is looked for is of a run whose programs may be found, which
\* no secret is bound in.
LookedFor(r) ==
    /\ pc[r] \in {"sent", "found", "placing"} \/ key[r] # None => on[r] /\ ~bound[r]
    /\ pc[r] \in {"out", "code", "writing", "sent"} => key[r] = None

\* The key of a program that runs r is all that it sees.
Sees(r) ==
    key[r] = [view |-> made[r], staged |-> staged[r], own |-> trees[r].own,
              tmp |-> trees[r].tmp, program |-> job[r].of]

\* Until it has run, a program's key is what it sees; and then, with what it
\* left, a record that is true.
KeyIsRight(r) ==
    /\ pc[r] \in {"found", "placing"} => Sees(r)
    /\ pc[r] = "running" /\ key[r] # None => Sees(r)
    /\ pc[r] = "ran" /\ key[r] # None =>
          IsTrue([key |-> key[r], result |-> last[r],
                  own |-> trees[r].own, tmp |-> trees[r].tmp])

\* What was found is true, and of the key.
FoundIsRight(r) ==
    pc[r] \in {"found", "placing"} =>
        record[r].key = key[r] /\ IsTrue(record[r]) /\ reuse[r] = "store"

Right(r) == Sent(r) /\ Followed(r) /\ LookedFor(r) /\ KeyIsRight(r) /\ FoundIsRight(r)

IInv == Shape /\ RecordsTrue /\ \A r \in Runs : Right(r)

-----------------------------------------------------------------------------

LEMMA Initially == Init => IInv
BY DEF Init, IInv, Shape, RecordsTrue, Right, Sent, Followed, LookedFor, KeyIsRight, FoundIsRight

\* A run at which nothing changes stays right, whatever others do.
LEMMA OthersStayRight ==
    ASSUME NEW r, Right(r),
           pc'[r] = pc[r], reuse'[r] = reuse[r], on'[r] = on[r], view'[r] = view[r],
           known'[r] = known[r], staged'[r] = staged[r], bound'[r] = bound[r],
           made'[r] = made[r], trees'[r] = trees[r], job'[r] = job[r], key'[r] = key[r],
           record'[r] = record[r], last'[r] = last[r]
    PROVE  Right(r)'
BY DEF Right, Sent, Followed, LookedFor, Sees, KeyIsRight, FoundIsRight, IsTrue, WorldOf

\* What a program leaves and gives where it runs is what it does by its key.
LEMMA KeyIsWorld ==
    ASSUME NEW r \in Runs, Sees(r)
    PROVE  WorldOf(key[r]) = World(r) /\ key[r].program = job[r].of
BY DEF Sees, WorldOf, World

\* A key that is made is of all that its program sees.
LEMMA KeyIsSeen ==
    ASSUME IInv, NEW r \in Runs, pc[r] = "sent", Keyed(r)
    PROVE  KeyOf(r) = [view |-> made[r], staged |-> staged[r], own |-> trees[r].own,
                       tmp |-> trees[r].tmp, program |-> job[r].of]
<1>1. Before(r) = trees[r]
    BY DEF IInv, Right, Followed, LookedFor, Keyed, Before, Captured
<1>2. view[r] = made[r]
    BY DEF IInv, Right, Followed, LookedFor
<1>. QED  BY <1>1, <1>2 DEF KeyOf

-----------------------------------------------------------------------------
(* Every step keeps all runs right. *)

\* What a step of r does to r is all that is to be looked at.
LEMMA OnlyItsOwn ==
    ASSUME IInv, NEW r \in Runs, Step(r), Shape', RecordsTrue', Right(r)'
    PROVE  IInv'
<1>. SUFFICES ASSUME NEW q \in Runs, q # r
              PROVE  Right(q)'
    BY DEF IInv
<1>. USE DEF IInv, Shape
<1>. DEFINE Untouched ==
         /\ pc'[q] = pc[q] /\ reuse'[q] = reuse[q] /\ on'[q] = on[q] /\ view'[q] = view[q]
         /\ known'[q] = known[q] /\ staged'[q] = staged[q] /\ bound'[q] = bound[q]
         /\ made'[q] = made[q] /\ trees'[q] = trees[q] /\ job'[q] = job[q]
         /\ key'[q] = key[q] /\ record'[q] = record[q] /\ last'[q] = last[q]
<1>2. Untouched
  <2>. USE DEF engine, sandbox, thread, store
  <2>1. ASSUME NEW start \in Starts, Begin(r, start)  PROVE Untouched
      BY <2>1 DEF Begin
  <2>2. ASSUME NEW c \in Contexts, ReadFails(r, c)  PROVE Untouched
      BY <2>2 DEF ReadFails
  <2>3. ASSUME NEW c \in Contexts, NEW gives \in Gives, Read(r, c, gives)  PROVE Untouched
      BY <2>3 DEF Read
  <2>4. ASSUME NEW e, SendWriter(r, e) \/ SendProgram(r, e) \/ SendPlain(r, e)  PROVE Untouched
      BY <2>4 DEF SendWriter, SendProgram, SendPlain, Sending
  <2>5. ASSUME NEW kept, Wrote(r, kept)  PROVE Untouched
      BY <2>5 DEF Wrote
  <2>6. CASE Key(r)
      BY <2>6 DEF Key
  <2>7. CASE Beside(r)
      BY <2>7 DEF Beside
  <2>8. CASE Place(r)
      BY <2>8 DEF Place, Ran
  <2>9. CASE Run(r)
      BY <2>9 DEF Run
  <2>10. CASE Keep(r)
      BY <2>10 DEF Keep, Ran
  <2>11. CASE Over(r)
      BY <2>11 DEF Over
  <2>. QED
      BY <2>1, <2>2, <2>3, <2>4, <2>5, <2>6, <2>7, <2>8, <2>9, <2>10, <2>11 DEF Step, Fail, End
<1>. QED  BY <1>2, OthersStayRight

LEMMA SameRecordsAreTrue == RecordsTrue /\ UNCHANGED records => RecordsTrue'
BY DEF RecordsTrue, IsTrue, WorldOf

LEMMA StepKeepsRight ==
    ASSUME IInv, NEW r \in Runs, Step(r)
    PROVE  IInv'
<1>. DEFINE Kept == Shape' /\ RecordsTrue' /\ Right(r)'
<1>. SUFFICES Kept
    BY OnlyItsOwn
<1>. USE DEF engine, sandbox, thread, store, IInv, Shape, Right
<1>1. ASSUME NEW start \in Starts, Begin(r, start)  PROVE Kept
  <2>1. Shape' /\ RecordsTrue'
      BY <1>1, SameRecordsAreTrue DEF Begin
  <2>2. Sent(r)' /\ Followed(r)' /\ LookedFor(r)'
      BY <1>1 DEF Begin, Sent, Followed, LookedFor
  <2>3. KeyIsRight(r)' /\ FoundIsRight(r)'
      BY <1>1 DEF Begin, LookedFor, Sees, KeyIsRight, FoundIsRight, IsTrue, WorldOf
  <2>. QED  BY <2>1, <2>2, <2>3
<1>2. ASSUME NEW c \in Contexts, ReadFails(r, c)  PROVE Kept
  <2>1. Shape' /\ RecordsTrue'
      BY <1>2, SameRecordsAreTrue DEF ReadFails
  <2>2. Sent(r)' /\ Followed(r)' /\ LookedFor(r)'
      BY <1>2 DEF ReadFails, Sent, Followed, LookedFor
  <2>3. KeyIsRight(r)' /\ FoundIsRight(r)'
      BY <1>2 DEF ReadFails, LookedFor, Sees, KeyIsRight, FoundIsRight, IsTrue, WorldOf
  <2>. QED  BY <2>1, <2>2, <2>3
<1>3. ASSUME NEW c \in Contexts, NEW gives \in Gives, Read(r, c, gives)  PROVE Kept
  <2>1. Shape' /\ RecordsTrue'
      BY <1>3, SameRecordsAreTrue DEF Read
  <2>2. Sent(r)' /\ Followed(r)' /\ LookedFor(r)'
      BY <1>3 DEF Read, Sent, Followed, LookedFor
  <2>3. KeyIsRight(r)' /\ FoundIsRight(r)'
      BY <1>3 DEF Read, LookedFor, Sees, KeyIsRight, FoundIsRight, IsTrue, WorldOf
  <2>. QED  BY <2>1, <2>2, <2>3
<1>4. ASSUME NEW e \in Writers, SendWriter(r, e)  PROVE Kept
  <2>1. Shape' /\ RecordsTrue'
      BY <1>4, SameRecordsAreTrue DEF SendWriter, Sending
  <2>2. Sent(r)' /\ Followed(r)' /\ LookedFor(r)'
      BY <1>4 DEF SendWriter, Sending, StillOn, Sent, Followed, LookedFor
  <2>3. KeyIsRight(r)' /\ FoundIsRight(r)'
      BY <1>4 DEF SendWriter, Sending, StillOn, LookedFor, Sees, KeyIsRight, FoundIsRight, IsTrue, WorldOf
  <2>. QED  BY <2>1, <2>2, <2>3
<1>5. ASSUME NEW p \in Programs, SendProgram(r, p)  PROVE Kept
  <2>1. Shape' /\ RecordsTrue'
      BY <1>5, SameRecordsAreTrue DEF SendProgram, Sending
  <2>2. Sent(r)' /\ Followed(r)' /\ LookedFor(r)'
      BY <1>5 DEF SendProgram, Sending, StillOn, Sent, Followed, LookedFor
  <2>3. KeyIsRight(r)' /\ FoundIsRight(r)'
      BY <1>5 DEF SendProgram, Sending, StillOn, LookedFor, Sees, KeyIsRight, FoundIsRight, IsTrue, WorldOf
  <2>. QED  BY <2>1, <2>2, <2>3
<1>6. ASSUME NEW p \in Programs, SendPlain(r, p)  PROVE Kept
  <2>1. Shape' /\ RecordsTrue'
      BY <1>6, SameRecordsAreTrue DEF SendPlain, Sending
  <2>2. Sent(r)' /\ Followed(r)' /\ LookedFor(r)'
      BY <1>6 DEF SendPlain, Sending, StillOn, Sent, Followed, LookedFor
  <2>3. KeyIsRight(r)' /\ FoundIsRight(r)'
      BY <1>6 DEF SendPlain, Sending, StillOn, LookedFor, Sees, KeyIsRight, FoundIsRight, IsTrue, WorldOf
  <2>. QED  BY <2>1, <2>2, <2>3
<1>7. ASSUME NEW kept \in SUBSET Inputs, Wrote(r, kept)  PROVE Kept
  <2>1. Shape' /\ RecordsTrue'
      BY <1>7, SameRecordsAreTrue DEF Wrote
  <2>2. Sent(r)' /\ Followed(r)' /\ LookedFor(r)'
      BY <1>7 DEF Wrote, Folded, Sent, Followed, LookedFor
  <2>3. KeyIsRight(r)' /\ FoundIsRight(r)'
      BY <1>7 DEF Wrote, Folded, LookedFor, Sees, KeyIsRight, FoundIsRight, IsTrue, WorldOf
  <2>. QED  BY <2>1, <2>2, <2>3
<1>8. CASE Key(r)
  <2>1. Keyed(r) => KeyOf(r) = [view |-> made[r], staged |-> staged[r], own |-> trees[r].own,
                                tmp |-> trees[r].tmp, program |-> job[r].of]
      BY <1>8, KeyIsSeen DEF Key
  <2>2. Shape' /\ RecordsTrue'
      BY <1>8 DEF Key, RecordsTrue, IsTrue, WorldOf
  <2>3. ASSUME NEW x \in records, Usable(r, x), record' = [record EXCEPT ![r] = x],
               pc' = [pc EXCEPT ![r] = "found"]
        PROVE  Right(r)'
    <3>1. key' = [key EXCEPT ![r] = KeyOf(r)]
        BY <1>8, <2>3 DEF Key, Usable
    <3>2. Sees(r)'
        BY <1>8, <2>1, <2>3, <3>1 DEF Key, Usable, Sees
    <3>3. (Sent(r) /\ Followed(r) /\ LookedFor(r))'
        BY <1>8, <2>3 DEF Key, Sent, Followed, LookedFor
    <3>4. KeyIsRight(r)'
        BY <2>3, <3>2 DEF KeyIsRight
    <3>5. FoundIsRight(r)'
        BY <1>8, <2>3, <3>1 DEF Key, Usable, FoundIsRight, RecordsTrue, IsTrue, WorldOf
    <3>. QED  BY <3>3, <3>4, <3>5
  <2>4. ASSUME pc' = [pc EXCEPT ![r] = "running"], UNCHANGED record
        PROVE  Right(r)'
    <3>1. key'[r] # None => Sees(r)'
        BY <1>8, <2>1, <2>4 DEF Key, Sees
    <3>2. (Sent(r) /\ Followed(r) /\ LookedFor(r))'
        BY <1>8, <2>4 DEF Key, Sent, Followed, LookedFor
    <3>. QED  BY <2>4, <3>1, <3>2 DEF KeyIsRight, FoundIsRight
  <2>. QED  BY <1>8, <2>2, <2>3, <2>4 DEF Key
<1>9. CASE Beside(r)
  <2>1. Shape' /\ RecordsTrue'
      BY <1>9, SameRecordsAreTrue DEF Beside
  <2>2. Sent(r)' /\ Followed(r)' /\ LookedFor(r)'
      BY <1>9 DEF Beside, Sent, Followed, LookedFor
  <2>3. KeyIsRight(r)'
      BY <1>9 DEF Beside, Sees, KeyIsRight
  <2>4. FoundIsRight(r)'
      BY <1>9 DEF Beside, FoundIsRight, IsTrue, WorldOf
  <2>. QED  BY <2>1, <2>2, <2>3, <2>4
<1>10. CASE Place(r)
  <2>1. Shape' /\ RecordsTrue'
      BY <1>10, SameRecordsAreTrue DEF Place, Ran
  <2>. DEFINE after == [own |-> record[r].own, tmp |-> record[r].tmp]
  <2>2. trees'[r] = after
    <3>1. key[r].own = trees[r].own /\ key[r].tmp = trees[r].tmp
      <4>1. Sees(r)
          BY <1>10 DEF Place, KeyIsRight
      <4>. QED  BY <4>1 DEF Sees
    <3>2. /\ "own" \notin Differs(r) => trees[r].own = record[r].own
          /\ "tmp" \notin Differs(r) => trees[r].tmp = record[r].tmp
        BY <3>1 DEF Differs
    <3>. QED  BY <1>10, <3>2 DEF Place
  <2>3. known'[r] = after
      BY <1>10 DEF Place, Ran
  <2>4. Sent(r)' /\ Followed(r)' /\ LookedFor(r)'
    <3>1. Followed(r)'
        BY <1>10, <2>2, <2>3 DEF Place, Ran, Followed
    <3>. QED  BY <1>10, <3>1 DEF Place, Ran, Sent, LookedFor
  <2>5. KeyIsRight(r)' /\ FoundIsRight(r)'
      BY <1>10 DEF Place, Ran, LookedFor, KeyIsRight, FoundIsRight, IsTrue, WorldOf
  <2>. QED  BY <2>1, <2>4, <2>5
<1>11. CASE Run(r)
  <2>1. Shape' /\ RecordsTrue' /\ (Sent(r) /\ Followed(r) /\ LookedFor(r) /\ FoundIsRight(r))'
      BY <1>11 DEF Run, RecordsTrue, IsTrue, WorldOf, Sent, Followed, LookedFor, FoundIsRight
  <2>2. ASSUME key[r] # None
        PROVE  IsTrue([key |-> key[r], result |-> last'[r],
                       own |-> trees'[r].own, tmp |-> trees'[r].tmp])
    <3>1. WorldOf(key[r]) = World(r) /\ key[r].program = job[r].of
        BY <1>11, <2>2, KeyIsWorld DEF Run, KeyIsRight
    <3>. QED  BY <1>11, <3>1 DEF Run, IsTrue
  <2>3. KeyIsRight(r)'
      BY <1>11, <2>2 DEF Run, KeyIsRight, IsTrue, WorldOf
  <2>. QED  BY <2>1, <2>3
<1>12. CASE Keep(r)
  <2>1. Shape' /\ (Sent(r) /\ Followed(r) /\ LookedFor(r) /\ KeyIsRight(r) /\ FoundIsRight(r))'
      BY <1>12 DEF Keep, Ran, Captured, Sent, Followed, LookedFor, KeyIsRight, FoundIsRight
  <2>2. RecordsTrue'
    <3>1. SUFFICES ASSUME NEW x \in records'
                   PROVE  IsTrue(x)
        BY DEF RecordsTrue, IsTrue, WorldOf
    <3>2. CASE x \in records
        BY <3>2 DEF RecordsTrue
    <3>3. CASE x \notin records
      <4>1. key[r] # None /\ x \in Recorded(r)
          BY <1>12, <3>3 DEF Keep
      <4>2. x = [key |-> key[r], result |-> last[r], own |-> trees[r].own, tmp |-> trees[r].tmp]
          BY <3>3, <4>1 DEF Recorded
      <4>. QED  BY <1>12, <4>1, <4>2 DEF Keep, KeyIsRight
    <3>. QED  BY <3>2, <3>3
  <2>. QED  BY <2>1, <2>2
<1>13. CASE Over(r)
  <2>1. Shape' /\ RecordsTrue'
      BY <1>13, SameRecordsAreTrue DEF Over
  <2>2. Sent(r)' /\ Followed(r)' /\ LookedFor(r)'
      BY <1>13 DEF Over, Sent, Followed, LookedFor
  <2>3. KeyIsRight(r)' /\ FoundIsRight(r)'
      BY <1>13 DEF Over, LookedFor, Sees, KeyIsRight, FoundIsRight, IsTrue, WorldOf
  <2>. QED  BY <2>1, <2>2, <2>3
<1>. QED
    BY <1>1, <1>2, <1>3, <1>4, <1>5, <1>6, <1>7, <1>8, <1>9, <1>10, <1>11, <1>12, <1>13
       DEF Step, Fail, End

LEMMA EvictionKeepsRight == ASSUME IInv, Evict PROVE IInv'
<1>. USE DEF Evict, engine, sandbox, thread, IInv, Shape
<1>1. Shape' /\ RecordsTrue'
    BY DEF RecordsTrue, IsTrue, WorldOf
<1>2. ASSUME NEW r \in Runs  PROVE Right(r)'
    BY OthersStayRight
<1>. QED  BY <1>1, <1>2

LEMMA StutterKeepsRight == ASSUME IInv, UNCHANGED vars PROVE IInv'
<1>. USE DEF vars, engine, sandbox, thread, store, IInv, Shape
<1>1. Shape' /\ RecordsTrue'
    BY DEF RecordsTrue, IsTrue, WorldOf
<1>2. ASSUME NEW r \in Runs  PROVE Right(r)'
    BY OthersStayRight
<1>. QED  BY <1>1, <1>2

\* A run stays right, and so do the store's records of programs.
THEOREM StaysRight == Spec => []IInv
<1>1. IInv /\ [Next]_vars => IInv'
    BY StepKeepsRight, EvictionKeepsRight, StutterKeepsRight DEF Next
<1>. QED  BY Initially, <1>1, PTL DEF Spec

-----------------------------------------------------------------------------

\* A record of a program gives what the program gives wherever it has that
\* key: the view, what was staged and the two trees are all it can see, after
\* whatever effects and programs (receipt.rs exec_key).
THEOREM ProgramsRecordsAreTrue == Spec => []RecordsTrue
<1>1. IInv => RecordsTrue
    BY DEF IInv
<1>. QED  BY <1>1, StaysRight, PTL

\* While a run's programs may be found nothing it or they wrote goes unseen
\* (engine/programs.rs).
THEOREM WhatIsKnownIsTrue == Spec => []KnownTrue
<1>1. IInv => KnownTrue
    BY DEF IInv, KnownTrue, Right, Followed
<1>. QED  BY <1>1, StaysRight, PTL

\* Of a run a secret is bound in, nothing more is put in the store
\* (design/additive.md F1).
THEOREM SecretsAreKept == Spec => SecretsStay
<1>. DEFINE Secretive == \A r \in Runs : (bound[r] /\ (pc[r] # pc'[r] \/ effects[r] # effects'[r])
                                           /\ pc[r] # "out") => UNCHANGED store
<1>. USE DEF IInv, Shape, engine, sandbox, thread, store
<1>1. ASSUME IInv, NEW q \in Runs, Step(q)  PROVE Secretive
  <2>. SUFFICES ASSUME ~UNCHANGED store
                PROVE  ~bound[q] /\ \A r \in Runs \ {q} : pc'[r] = pc[r] /\ effects'[r] = effects[r]
      OBVIOUS
  <2>1. ~Over(q)
      BY DEF Over
  <2>2. \A start \in Starts : ~Begin(q, start)
      BY DEF Begin
  <2>3. \A c \in Contexts : ~ReadFails(q, c) /\ \A gives \in Gives : ~Read(q, c, gives)
      BY DEF ReadFails, Read
  <2>4. \A e : ~SendWriter(q, e) /\ ~SendProgram(q, e) /\ ~SendPlain(q, e)
      BY DEF SendWriter, SendProgram, SendPlain, Sending
  <2>5. \A kept : ~Wrote(q, kept)
      BY DEF Wrote
  <2>6. ~Beside(q) /\ ~Place(q) /\ ~Run(q)
      BY DEF Beside, Place, Ran, Run
  <2>7. CASE Key(q)
      BY <1>1, <2>7 DEF Key, Right, LookedFor
  <2>8. CASE Keep(q)
      BY <1>1, <2>8 DEF Keep, PutCaptured, Right, LookedFor
  <2>. QED
      BY <1>1, <2>1, <2>2, <2>3, <2>4, <2>5, <2>6, <2>7, <2>8 DEF Step, Fail, End
<1>2. ASSUME IInv, Evict \/ UNCHANGED vars  PROVE Secretive
    BY <1>2 DEF Evict, vars
<1>3. IInv /\ [Next]_vars => [Secretive]_vars
    BY <1>1, <1>2 DEF Next
<1>. QED  BY <1>3, StaysRight, PTL DEF Spec, SecretsStay

-----------------------------------------------------------------------------
(* Runs with a cache do what the promise, which has none, lets them do. *)

\* A step that changes nothing of what the promise is about.
LEMMA UnseenStep ==
    ASSUME UNCHANGED <<made, staged, trees, last>>,
           \A r \in Runs : (pc'[r] # "out") = (pc[r] # "out")
    PROVE  UNCHANGED Promise!vars
BY DEF Promise!vars

LEMMA BeginsAsPromised == Init => Promise!Init
BY DEF Init, Promise!Init, Clean

LEMMA StepAsPromised ==
    ASSUME IInv, NEW r \in Runs, Step(r)
    PROVE  [Promise!Next]_(Promise!vars)
<1>. USE DEF engine, sandbox, thread, store, IInv, Shape, Right
<1>1. ASSUME NEW start \in Starts, Begin(r, start)  PROVE Promise!Begin(r)
    BY <1>1, InputsAreGiven DEF Begin, Promise!Begin
<1>2. ASSUME NEW c \in Contexts, ReadFails(r, c)  PROVE UNCHANGED Promise!vars
    BY <1>2, UnseenStep DEF ReadFails
<1>3. ASSUME NEW c \in Contexts, NEW gives \in Gives, Read(r, c, gives)  PROVE Promise!Give(r)
    BY <1>3, InputsAreGiven DEF Read, Promise!Give
<1>4. ASSUME NEW e, SendWriter(r, e) \/ SendProgram(r, e) \/ SendPlain(r, e)
      PROVE  UNCHANGED Promise!vars
    BY <1>4, UnseenStep DEF SendWriter, SendProgram, SendPlain, Sending
<1>5. ASSUME NEW kept \in SUBSET Inputs, Wrote(r, kept)  PROVE Promise!Write(r)
    BY <1>5 DEF Wrote, Sent, World, Promise!Write, Promise!World
<1>6. CASE Key(r)
    BY <1>6, UnseenStep DEF Key
<1>7. CASE Beside(r)
    BY <1>7, UnseenStep DEF Beside
<1>8. CASE Place(r)
  <2>. DEFINE gave == Leaves(job[r].of, World(r))
  <2>1. Sees(r) /\ record[r].key = key[r] /\ IsTrue(record[r]) /\ job[r].of \in Programs
      BY <1>8 DEF Place, KeyIsRight, FoundIsRight, Sent
  <2>2. gave.ok /\ gave.own = record[r].own /\ gave.tmp = record[r].tmp
            /\ gave.out = record[r].result
      BY <2>1, KeyIsWorld DEF IsTrue
  <2>3. trees' = [trees EXCEPT ![r] = [own |-> record[r].own, tmp |-> record[r].tmp]]
    <3>1. key[r].own = trees[r].own /\ key[r].tmp = trees[r].tmp
        BY <2>1 DEF Sees
    <3>2. /\ "own" \notin Differs(r) => trees[r].own = record[r].own
          /\ "tmp" \notin Differs(r) => trees[r].tmp = record[r].tmp
        BY <2>1, <3>1 DEF Differs
    <3>. QED  BY <1>8, <3>2 DEF Place
  <2>4. last' = [last EXCEPT ![r] = record[r].result] /\ UNCHANGED <<made, staged>>
            /\ pc[r] = "placing" /\ pc' = [pc EXCEPT ![r] = "code"]
      BY <1>8 DEF Place
  <2>5. Promise!Program(r)
      BY <2>1, <2>2, <2>3, <2>4 DEF Promise!Program, Promise!World, World
  <2>. QED  BY <2>5 DEF Promise!Next
<1>9. CASE Run(r)
  <2>1. job[r].of \in Programs
      BY <1>9 DEF Run, Sent
  <2>2. Promise!Program(r)
      BY <1>9, <2>1 DEF Run, World, Promise!Program, Promise!World
  <2>. QED  BY <2>2 DEF Promise!Next
<1>10. CASE Keep(r)
    BY <1>10, UnseenStep DEF Keep, Ran
<1>11. CASE Over(r) /\ pc[r] # "out"
    BY <1>11 DEF Over, Clean, Promise!End, Promise!Next
<1>. QED
    BY <1>1, <1>2, <1>3, <1>4, <1>5, <1>6, <1>7, <1>8, <1>9, <1>10, <1>11
       DEF Step, Fail, End, Promise!Next

\* A run whose programs are found gives its step, and leaves it, what one
\* without a cache would, or its attempt fails (programs.rs perform_program).
THEOREM ProgramsKeepPromise == Spec => Transparent
<1>1. ASSUME IInv, Evict \/ UNCHANGED vars  PROVE UNCHANGED Promise!vars
    BY <1>1, UnseenStep DEF Evict, engine, sandbox, thread, vars
<1>2. IInv /\ [Next]_vars => [Promise!Next]_(Promise!vars)
    BY <1>1, StepAsPromised DEF Next
<1>. QED  BY BeginsAsPromised, <1>2, StaysRight, PTL DEF Spec, Transparent, Promise!Spec

-----------------------------------------------------------------------------
(* What programs are found to leave is in the store when it is placed. *)

\* The store has all that is known, keyed, or to be placed, while an attempt
\* goes on: an eviction comes between builds alone.
Held(r) ==
    /\ pc[r] # "out" /\ on[r] /\ known[r] # None => {known[r].own, known[r].tmp} \subseteq contents
    /\ pc[r] = "sent" /\ job[r].known # None =>
          {job[r].known.own, job[r].known.tmp} \subseteq contents
    /\ pc[r] \in {"found", "placing"} => {key[r].own, key[r].tmp} \subseteq contents
    /\ pc[r] = "placing" => {record[r].own, record[r].tmp} \subseteq contents

HInv == IInv /\ \A r \in Runs : Held(r)

LEMMA StepsOnlyAdd ==
    ASSUME NEW r \in Runs, Step(r)
    PROVE  contents \subseteq contents'
<1>. USE DEF engine, sandbox, thread, store
<1>1. \A start \in Starts : Begin(r, start) => UNCHANGED contents
    BY DEF Begin
<1>2. \A c \in Contexts, gives \in Gives : ReadFails(r, c) \/ Read(r, c, gives) => UNCHANGED contents
    BY DEF ReadFails, Read
<1>3. \A c \in Contexts : ReadFails(r, c) => UNCHANGED contents
    BY DEF ReadFails
<1>4. \A e : SendWriter(r, e) \/ SendProgram(r, e) \/ SendPlain(r, e) => UNCHANGED contents
    BY DEF SendWriter, SendProgram, SendPlain, Sending
<1>5. \A kept : Wrote(r, kept) => UNCHANGED contents
    BY DEF Wrote
<1>6. Beside(r) \/ Place(r) \/ Run(r) \/ Over(r) => UNCHANGED contents
    BY DEF Beside, Place, Ran, Run, Over
<1>7. Key(r) \/ Keep(r) => contents \subseteq contents'
    BY DEF Key, Keep, PutCaptured
<1>. QED  BY <1>1, <1>2, <1>3, <1>4, <1>5, <1>6, <1>7 DEF Step, Fail, End

LEMMA OthersStayHeld ==
    ASSUME NEW r, Held(r), contents \subseteq contents',
           pc'[r] = pc[r], on'[r] = on[r], known'[r] = known[r], job'[r] = job[r],
           key'[r] = key[r], record'[r] = record[r]
    PROVE  Held(r)'
BY DEF Held

LEMMA StepKeepsHeld ==
    ASSUME HInv, NEW r \in Runs, Step(r), NEW q \in Runs
    PROVE  Held(q)'
<1>. USE DEF engine, sandbox, thread, store, HInv, IInv, Shape, Right
<1>0. contents \subseteq contents'
    BY StepsOnlyAdd
<1>1. ASSUME NEW start \in Starts, Begin(r, start)  PROVE Held(q)'
    BY <1>1, OthersStayHeld DEF Begin, Followed, Held
<1>2. ASSUME NEW c \in Contexts, ReadFails(r, c)  PROVE Held(q)'
    BY <1>2, OthersStayHeld DEF ReadFails
<1>3. ASSUME NEW c \in Contexts, NEW gives \in Gives, Read(r, c, gives)  PROVE Held(q)'
    BY <1>3, OthersStayHeld DEF Read
<1>4. ASSUME NEW e, SendWriter(r, e)  PROVE Held(q)'
    BY <1>4, OthersStayHeld DEF SendWriter, Sending, StillOn, Held
<1>5. ASSUME NEW e, SendProgram(r, e)  PROVE Held(q)'
    BY <1>5, OthersStayHeld DEF SendProgram, Sending, StillOn, Held
<1>6. ASSUME NEW e, SendPlain(r, e)  PROVE Held(q)'
    BY <1>6, OthersStayHeld DEF SendPlain, Sending, StillOn, Held
<1>7. ASSUME NEW kept, Wrote(r, kept)  PROVE Held(q)'
    BY <1>7, OthersStayHeld DEF Wrote, Followed, Held
<1>8. CASE Key(r)
  <2>1. CASE q # r
      BY <1>0, <1>8, <2>1, OthersStayHeld DEF Key
  <2>2. ASSUME q = r, Keyed(r)
        PROVE  Before(r) = trees[r] /\ {trees[r].own, trees[r].tmp} \subseteq contents'
      BY <1>0, <1>8, <2>2 DEF Key, Keyed, Before, Captured, PutCaptured, Followed, LookedFor, Held
  <2>3. ASSUME q = r, pc'[r] = "found"  PROVE Held(q)'
    <3>1. Keyed(r) /\ key'[r] = KeyOf(r) /\ pc'[r] = "found"
        BY <1>8, <2>3 DEF Key, Usable
    <3>2. known'[r] = None
        BY <1>8 DEF Key, Followed, LookedFor
    <3>3. {key'[r].own, key'[r].tmp} \subseteq contents'
        BY <2>2, <2>3, <3>1 DEF KeyOf
    <3>. QED  BY <2>3, <3>1, <3>2, <3>3 DEF Held
  <2>4. CASE q = r /\ pc'[r] # "found"
    <3>1. pc'[r] = "running" /\ known'[r] = known[r]
        BY <1>8, <2>4 DEF Key
    <3>2. known[r] = None
        BY <1>8 DEF Key, Followed, LookedFor
    <3>. QED  BY <2>4, <3>1, <3>2 DEF Held
  <2>. QED  BY <2>1, <2>3, <2>4
<1>9. CASE Beside(r)
  <2>1. CASE q # r
      BY <1>0, <1>9, <2>1, OthersStayHeld DEF Beside
  <2>2. CASE q = r /\ pc'[r] = "placing"
    <3>1. record[r].key = key[r] /\ Sees(r) /\ {key[r].own, key[r].tmp} \subseteq contents
        BY <1>9 DEF Beside, KeyIsRight, FoundIsRight, Held
    <3>2. \A part \in Differs(r) : record[r][part] \in contents
        BY <1>9, <2>2 DEF Beside
    <3>3. record[r].own \in contents /\ record[r].tmp \in contents
        BY <3>1, <3>2 DEF Differs, Sees
    <3>. QED  BY <1>9, <2>2, <3>1, <3>3 DEF Beside, Followed, LookedFor, Held
  <2>3. CASE q = r /\ pc'[r] # "placing"
      BY <1>9, <2>3 DEF Beside, Followed, LookedFor, Held
  <2>. QED  BY <2>1, <2>2, <2>3
<1>10. CASE Place(r)
    BY <1>10, OthersStayHeld DEF Place, Ran, Held
<1>11. CASE Run(r)
    BY <1>11, OthersStayHeld DEF Run, Held
<1>12. CASE Keep(r)
    BY <1>0, <1>12, OthersStayHeld DEF Keep, Ran, PutCaptured, Captured, Held
<1>13. CASE Over(r)
    BY <1>13, OthersStayHeld DEF Over, Held
<1>. QED
    BY <1>1, <1>2, <1>3, <1>4, <1>5, <1>6, <1>7, <1>8, <1>9, <1>10, <1>11, <1>12, <1>13
       DEF Step, Fail, End

THEOREM StaysHeld == Spec => []HInv
<1>1. Init => HInv
    BY Initially DEF Init, HInv, Held
<1>2. ASSUME HInv, Evict  PROVE HInv'
    BY <1>2, EvictionKeepsRight DEF Evict, HInv, Held
<1>3. ASSUME HInv, UNCHANGED vars  PROVE HInv'
    BY <1>3, StutterKeepsRight DEF vars, engine, sandbox, thread, store, HInv, Held
<1>4. HInv /\ [Next]_vars => HInv'
    BY <1>2, <1>3, StepKeepsRight, StepKeepsHeld DEF Next, HInv
<1>. QED  BY <1>1, <1>4, PTL DEF Spec

\* A build that compares records nothing, only one that reuses what the store
\* has takes a program's result from there, and what it takes is all there,
\* whatever evictions had (programs.rs, engine.rs Reuse).
THEOREM ModesAreKept == Spec => ModesKept
<1>. DEFINE AsItsMode(r) ==
         /\ (pc[r] = "ran" /\ pc'[r] = "code" /\ reuse[r] = "compare") => records' = records
         /\ (pc[r] = "placing" /\ pc'[r] = "code") =>
               /\ reuse[r] = "store"
               /\ {trees'[r].own, trees'[r].tmp} \subseteq contents
<1>. USE DEF engine, sandbox, thread, store, HInv, IInv, Shape, Right
<1>1. ASSUME HInv, NEW q \in Runs, Step(q), NEW r \in Runs,
             pc[r] \in {"ran", "placing"}, pc'[r] = "code"
      PROVE  q = r /\ (Place(q) \/ Keep(q))
  <2>1. \A start \in Starts : ~Begin(q, start)
      BY <1>1 DEF Begin
  <2>2. \A c \in Contexts : ~ReadFails(q, c) /\ \A gives \in Gives : ~Read(q, c, gives)
      BY <1>1 DEF ReadFails, Read
  <2>3. \A e : ~SendWriter(q, e) /\ ~SendProgram(q, e) /\ ~SendPlain(q, e)
      BY <1>1 DEF SendWriter, SendProgram, SendPlain, Sending
  <2>4. \A kept : ~Wrote(q, kept)
      BY <1>1 DEF Wrote
  <2>5. ~Key(q) /\ ~Beside(q) /\ ~Run(q) /\ ~Over(q)
      BY <1>1 DEF Key, Beside, Run, Over
  <2>6. Place(q) \/ Keep(q)
      BY <1>1, <2>1, <2>2, <2>3, <2>4, <2>5 DEF Step, Fail, End
  <2>. QED  BY <1>1, <2>6 DEF Place, Keep
<1>2. ASSUME HInv, NEW q \in Runs, Step(q), NEW r \in Runs  PROVE AsItsMode(r)
  <2>1. CASE pc[r] = "ran" /\ pc'[r] = "code"
      BY <1>1, <1>2, <2>1 DEF Place, Keep
  <2>2. CASE pc[r] = "placing" /\ pc'[r] = "code"
    <3>1. Place(r)
        BY <1>1, <1>2, <2>2 DEF Keep
    <3>2. reuse[r] = "store" /\ {key[r].own, key[r].tmp, record[r].own, record[r].tmp} \subseteq contents
              /\ Sees(r)
        BY <1>2, <2>2 DEF FoundIsRight, KeyIsRight, Held
    <3>3. key[r].own = trees[r].own /\ key[r].tmp = trees[r].tmp
        BY <3>2 DEF Sees
    <3>4. {trees'[r].own, trees'[r].tmp}
              \subseteq {record[r].own, record[r].tmp, trees[r].own, trees[r].tmp}
        BY <1>2, <3>1 DEF Place
    <3>. QED  BY <2>2, <3>2, <3>3, <3>4
  <2>. QED  BY <2>1, <2>2
<1>3. ASSUME Evict \/ UNCHANGED vars, NEW r \in Runs  PROVE AsItsMode(r)
    BY <1>3 DEF Evict, vars
<1>4. HInv /\ [Next]_vars => [\A r \in Runs : AsItsMode(r)]_vars
    BY <1>2, <1>3 DEF Next
<1>. QED  BY <1>4, StaysHeld, PTL DEF Spec, ModesKept
=============================================================================
