--------------------------- MODULE EvictionProofs ---------------------------
(***************************************************************************)
(* That an eviction's counts are right at every step, and so that it never *)
(* takes a blob from a record it has not evicted, whatever the records,    *)
(* the blobs and what they name; that it knows all that was used since it  *)
(* was evicted, whatever was killed meanwhile; and that its total and the  *)
(* ledger are of what is there, and it ends at the low mark or with        *)
(* nothing left.                                                           *)
(***************************************************************************)
EXTENDS Eviction, FiniteSetTheorems, TLAPS

Counting == phase \in {"unnamed", "records"}

\* What an eviction remembers is of the store's names.
Named ==
    /\ there \subseteq Blobs /\ scratch \subseteq Scratches /\ records \subseteq Records
    /\ seen \subseteq Blobs /\ dirs \subseteq Scratches /\ live \subseteq Records
    /\ heap \subseteq live \cup dirs
    /\ reached \subseteq seen
    /\ named \in [Blobs -> Nat]
    /\ letting \subseteq Edges
    /\ pc \in [Procs -> {"out", "in", "journalled", "added", "evicting"}]

\* One process has the store while an eviction is under way.
Exclusive ==
    /\ \A p, q \in Procs : pc[p] = "evicting" /\ p # q => pc[q] = "out"
    /\ phase # "none" => \E p \in Procs : pc[p] = "evicting"

\* Nothing is remembered of an eviction that is over.
Idling == phase = "none" => heap = {} /\ letting = {}

\* The store only loses blobs as it is evicted, and none that is counted.
Losing ==
    Counting =>
        /\ there \subseteq seen
        /\ \A b \in seen : named[b] # 0 => b \in there

\* What live records name is reached, and what reached trees hold.
ReachedIsClosed ==
    Counting =>
        /\ \A r \in live : Roots[r] \cap seen \subseteq reached
        /\ Closed(reached, seen)

\* Until records are evicted nothing is let go of, and all reached is there.
NothingLetGo ==
    phase = "unnamed" => letting = {} /\ reached \subseteq there

\* Until records are evicted what is reached is named.
UnnamedIsUnreached ==
    phase = "unnamed" =>
        \A b \in reached : \E e \in Edges : e[2] = b /\ Naming(e, live, reached)

\* What is let go of was named by what stands no more.
LettingGo ==
    phase = "records" =>
        \A e \in letting :
            /\ Naming(e, live, reached) /\ e[2] \in reached
            /\ e[1] \notin Standing /\ e[1] \notin there

IInv ==
    Named /\ Exclusive /\ Idling /\ Losing /\ ReachedIsClosed /\ NothingLetGo
    /\ UnnamedIsUnreached /\ LettingGo /\ CountsRight

\* What names a blob is finitely many.
LEMMA NamersAreFinite ==
    ASSUME NEW b
    PROVE  IsFiniteSet(Namers(b))
<1>1. IsFiniteSet(Records \cup Blobs)
    BY FS_Union, NamesAssumption
<1>2. IsFiniteSet(Edges)
    BY <1>1, FS_Product, NamesAssumption DEF Edges
<1>. QED  BY <1>2, FS_Subset DEF Namers

\* A blob that something names is counted.
LEMMA NamedIsCounted ==
    ASSUME CountsRight, Counting, Named, NEW b \in seen, NEW e \in Namers(b)
    PROVE  named[b] # 0
<1>1. Cardinality(Namers(b)) # 0
    BY NamersAreFinite, FS_EmptySet
<1>. QED  BY <1>1 DEF CountsRight, Counting

\* With the counts right, what records that stand name at any depth is there.
LEMMA CountsSpareLive == IInv => SparesLive
<1>. SUFFICES ASSUME IInv, Counting
              PROVE  Reach(Standing, seen) \subseteq there
    BY DEF SparesLive, Counting
<1>. USE DEF IInv
<1>. DEFINE C == reached \cap there
<1>0. Standing \subseteq live
    BY DEF Standing
<1>1. C \in SUBSET seen
    BY DEF Named
<1>2. \A e \in Edges : e[2] \in seen /\ Naming(e, Standing, C) => e[2] \in there
  <2>. SUFFICES ASSUME NEW e \in Edges, e[2] \in seen, Naming(e, Standing, C)
                PROVE  e[2] \in there
      OBVIOUS
  <2>1. e \in Namers(e[2])
      BY DEF Namers
  <2>2. named[e[2]] # 0
      BY <2>1, NamedIsCounted
  <2>. QED  BY <2>2 DEF Losing
<1>3. Closed(C, seen)
  <2>. SUFFICES ASSUME NEW t \in C, NEW b \in Entries[t] \cap seen
                PROVE  b \in C
      BY DEF Closed
  <2>1. b \in reached
      BY DEF ReachedIsClosed, Closed
  <2>2. <<t, b>> \in Edges
      BY DEF Edges, Named
  <2>3. Naming(<<t, b>>, Standing, C)
      BY DEF Naming
  <2>. QED  BY <1>2, <2>1, <2>2, <2>3
<1>4. (UNION {Roots[r] : r \in Standing}) \cap seen \subseteq C
  <2>. SUFFICES ASSUME NEW r \in Standing, NEW b \in Roots[r] \cap seen
                PROVE  b \in C
      OBVIOUS
  <2>1. b \in reached
      BY <1>0 DEF ReachedIsClosed
  <2>2. <<r, b>> \in Edges
      BY <1>0 DEF Edges, Named
  <2>3. Naming(<<r, b>>, Standing, C)
      BY DEF Naming
  <2>. QED  BY <1>2, <2>1, <2>2, <2>3
<1>. QED  BY <1>1, <1>3, <1>4 DEF Reach

-----------------------------------------------------------------------------
(* Every step keeps the counts right. *)

LEMMA Initially == Init => IInv
<1>. SUFFICES ASSUME Init
              PROVE  IInv
    OBVIOUS
<1>1. Named
    BY DEF Init, Named
<1>. QED
    BY <1>1 DEF Init, IInv, Exclusive, Idling, Losing, ReachedIsClosed, NothingLetGo,
                UnnamedIsUnreached, LettingGo, CountsRight, Counting

\* While nobody evicts, the counts are of nothing.
LEMMA NobodyCounts ==
    ASSUME phase' = "none", Named', Exclusive', Idling'
    PROVE  IInv'
BY DEF IInv, Losing, ReachedIsClosed, NothingLetGo, UnnamedIsUnreached, LettingGo, CountsRight, Counting

\* Nobody evicts while a build is about anything else.
LEMMA BuildsAreApart ==
    ASSUME IInv, NEW p \in Procs, pc[p] \notin {"out", "evicting"}
    PROVE  phase = "none" /\ \A q \in Procs : pc[q] # "evicting"
BY DEF IInv, Exclusive

LEMMA BuildKeepsCounts ==
    ASSUME IInv, NEW p \in Procs, Build(p)
    PROVE  IInv'
<1>. USE DEF IInv
<1>0. ASSUME Idle, UNCHANGED disk, pc' = [pc EXCEPT ![p] = "out"]
      PROVE  IInv'
  <2>1. Named'
      BY <1>0 DEF Idle, disk, Named
  <2>2. Exclusive'
      BY <1>0 DEF Idle, Exclusive, Named
  <2>. QED  BY <1>0, <2>1, <2>2, NobodyCounts DEF Idle, Idling
<1>1. ASSUME Aside, phase = "none", \A q \in Procs \ {p} : pc[q] # "evicting",
             there' \subseteq Blobs, scratch' \subseteq Scratches, records' \subseteq Records,
             NEW at \in {"out", "in", "journalled", "added", "evicting"},
             pc' = [pc EXCEPT ![p] = at],
             at = "evicting" => \A q \in Procs \ {p} : pc[q] = "out"
      PROVE  IInv'
  <2>1. phase' = "none" /\ UNCHANGED <<memory, work>>
      BY <1>1 DEF Aside
  <2>2. Named'
      BY <1>1, <2>1 DEF memory, work, Named
  <2>3. Exclusive'
      BY <1>1, <2>1 DEF Exclusive, Named
  <2>. QED  BY <2>1, <2>2, <2>3, <1>1, NobodyCounts DEF work, Idling
<1>2. ASSUME Aside, phase = "none", \A q \in Procs : pc[q] # "evicting", UNCHANGED pc,
             there' \subseteq Blobs, scratch' \subseteq Scratches, records' \subseteq Records
      PROVE  IInv'
  <2>1. phase' = "none" /\ UNCHANGED <<memory, work>>
      BY <1>2 DEF Aside
  <2>2. Named'
      BY <1>2, <2>1 DEF memory, work, Named
  <2>3. Exclusive'
      BY <1>2, <2>1 DEF Exclusive, Named
  <2>. QED  BY <2>1, <2>2, <2>3, <1>2, NobodyCounts DEF work, Idling
<1>3. CASE Open(p)
    BY <1>3, <1>1 DEF Open, disk, Named, Exclusive
<1>4. CASE Journal(p)
    BY <1>4, <1>1, BuildsAreApart DEF Journal, Named
<1>5. CASE AddUp(p)
    BY <1>5, <1>1, BuildsAreApart DEF AddUp, Named
<1>6. CASE Close(p)
    BY <1>6, <1>1, BuildsAreApart DEF Close, Out, disk, Named
<1>7. CASE TryLock(p)
  <2>1. phase = "none" /\ \A q \in Procs : pc[q] # "evicting"
      BY <1>7, BuildsAreApart DEF TryLock
  <2>2. CASE Alone(p)
      BY <1>7, <2>1, <2>2, <1>1 DEF TryLock, Alone, disk, Named
  <2>3. CASE ~Alone(p)
      BY <1>7, <2>1, <2>3, <1>1 DEF TryLock, disk, Named
  <2>. QED  BY <2>2, <2>3
<1>8. CASE Die(p)
  <2>1. CASE pc[p] = "evicting"
      BY <1>8, <2>1, <1>0 DEF Die, Out, disk
  <2>2. CASE pc[p] # "evicting"
    <3>1. pc[p] \notin {"out", "evicting"}
        BY <1>8, <2>2 DEF Die
    <3>2. phase = "none" /\ \A q \in Procs : pc[q] # "evicting"
        BY <3>1, BuildsAreApart
    <3>. QED  BY <1>8, <2>2, <3>2, <1>1 DEF Die, Out, disk, Named
  <2>. QED  BY <2>1, <2>2
<1>9. ASSUME NEW b \in Blobs, Put(p, b)
      PROVE  IInv'
    BY <1>9, <1>2, BuildsAreApart DEF Put, Named
<1>10. ASSUME NEW r \in Records, Find(p, r) \/ Write(p, r)
       PROVE  IInv'
    BY <1>10, <1>2, BuildsAreApart DEF Find, Write, disk, Named
<1>11. ASSUME NEW s \in Scratches, Hold(p, s)
       PROVE  IInv'
    BY <1>11, <1>2, BuildsAreApart DEF Hold, Named
<1>. QED
    BY <1>3, <1>4, <1>5, <1>6, <1>7, <1>8, <1>9, <1>10, <1>11 DEF Build

\* Each blob something names at any depth of what records name is named.
LEMMA ReachedIsNamed ==
    ASSUME NEW R \in SUBSET Records, NEW S \in SUBSET Blobs, NEW b \in Reach(R, S)
    PROVE  \E e \in Edges : e[2] = b /\ Naming(e, R, Reach(R, S))
<1>. SUFFICES ASSUME \A e \in Edges : e[2] = b => ~Naming(e, R, Reach(R, S))
              PROVE  FALSE
    OBVIOUS
<1>. DEFINE C == Reach(R, S) \ {b}
<1>1. C \in SUBSET S /\ Reach(R, S) \subseteq S
    BY DEF Reach
<1>2. \A t \in Reach(R, S), c \in S : c \in Entries[t] => c \in Reach(R, S)
    BY DEF Reach, Closed
<1>3. \A r \in R, c \in S : c \in Roots[r] => c \in Reach(R, S)
    BY DEF Reach
<1>4. Closed(C, S)
  <2>. SUFFICES ASSUME NEW t \in C, NEW c \in Entries[t] \cap S
                PROVE  c \in C
      BY DEF Closed
  <2>1. <<t, c>> \in Edges /\ Naming(<<t, c>>, R, Reach(R, S))
      BY <1>1 DEF Edges, Naming
  <2>. QED  BY <2>1, <1>2
<1>5. (UNION {Roots[r] : r \in R}) \cap S \subseteq C
  <2>. SUFFICES ASSUME NEW r \in R, NEW c \in Roots[r] \cap S
                PROVE  c \in C
      OBVIOUS
  <2>1. <<r, c>> \in Edges /\ Naming(<<r, c>>, R, Reach(R, S))
      BY DEF Edges, Naming
  <2>. QED  BY <2>1, <1>3
<1>6. b \in C
    BY <1>1, <1>4, <1>5 DEF Reach
<1>. QED  BY <1>6

LEMMA BeginKeepsCounts ==
    ASSUME IInv, NEW p \in Procs, Begin(p)
    PROVE  IInv'
<1>. USE DEF IInv
<1>. DEFINE R == records \ Renewed.evicted
            N(b) == {e \in Edges : e[2] = b /\ Naming(e, R, Reach(R, there))}
<1>0. /\ phase' = "unnamed" /\ seen' = there /\ dirs' = scratch /\ there' = there
      /\ live' = R /\ reached' = Reach(R, there) /\ named' = NamedOf(R, Reach(R, there), there)
      /\ UNCHANGED <<scratch, records, pc, heap, letting>> /\ pc[p] = "evicting"
    BY DEF Begin, Evicting, disk, builds
<1>1. R \in SUBSET Records /\ there \in SUBSET Blobs /\ Reach(R, there) \subseteq there
    BY DEF Named, Reach
<1>2. \A b : IsFiniteSet(N(b))
  <2>1. IsFiniteSet(Edges)
      BY FS_Union, FS_Product, NamesAssumption DEF Edges
  <2>. QED  BY <2>1, FS_Subset
<1>3. \A b \in there : named'[b] = Cardinality(N(b))
    BY <1>0, <1>1 DEF NamedOf
<1>4. heap = {} /\ letting = {}
    BY DEF Begin, Evicting, Idling
<1>5. Named'
  <2>1. named' \in [Blobs -> Nat]
    <3>1. \A b : Cardinality(N(b)) \in Nat
        BY <1>2, FS_CardinalityType
    <3>. QED  BY <3>1, <1>0 DEF NamedOf
  <2>. QED  BY <2>1, <1>0, <1>1, <1>4 DEF Named
<1>6. Exclusive'
    BY <1>0 DEF Exclusive
<1>7. Losing'
    BY <1>0 DEF Losing
<1>8. ReachedIsClosed'
  <2>1. \A r \in R : Roots[r] \cap there \subseteq Reach(R, there)
      BY DEF Reach
  <2>2. Closed(Reach(R, there), there)
      BY DEF Reach, Closed
  <2>. QED  BY <2>1, <2>2, <1>0 DEF ReachedIsClosed, Closed
<1>9. NothingLetGo'
    BY <1>0, <1>1, <1>4 DEF NothingLetGo
<1>10. LettingGo'
    BY <1>0 DEF LettingGo
<1>11. CountsRight'
  <2>1. \A b : Namers(b)' = N(b)
    <3>1. Standing' = R
        BY <1>0 DEF Standing
    <3>2. (reached \cap there)' = Reach(R, there)
        BY <1>0, <1>1
    <3>3. letting' = {}
        BY <1>0, <1>4
    <3>. SUFFICES ASSUME NEW b
                  PROVE  Namers(b)' = N(b)
        OBVIOUS
    <3>4. Namers(b)' = {e \in Edges : e[2] = b
                            /\ (Naming(e, Standing', (reached \cap there)') \/ e \in letting')}
        BY DEF Namers, Naming
    <3>. QED  BY <3>1, <3>2, <3>3, <3>4 DEF Naming
  <2>. QED  BY <2>1, <1>0, <1>3 DEF CountsRight
<1>12. UnnamedIsUnreached'
    BY <1>0, <1>1, ReachedIsNamed DEF UnnamedIsUnreached, Naming
<1>13. Idling'
    BY <1>0 DEF Idling
<1>. QED  BY <1>5, <1>6, <1>7, <1>8, <1>9, <1>10, <1>11, <1>12, <1>13

\* A step of an eviction that lets nothing go, and takes no blob.
LEMMA ApartKeepsCounts ==
    ASSUME IInv, Counting, Counting', UNCHANGED <<there, seen, live, reached, named, letting>>,
           Standing' = Standing
    PROVE  Losing' /\ ReachedIsClosed' /\ CountsRight'
<1>. USE DEF IInv
<1>1. Losing'
    BY DEF Losing
<1>2. ReachedIsClosed'
    BY DEF ReachedIsClosed, Closed
<1>3. \A b : Namers(b)' = Namers(b)
    BY DEF Namers, Naming
<1>4. CountsRight'
    BY <1>3 DEF CountsRight, Counting
<1>. QED  BY <1>1, <1>2, <1>4

LEMMA UnnamedKeepCounts ==
    ASSUME IInv, NEW p \in Procs, RemoveUnnamed(p)
    PROVE  IInv'
<1>. USE DEF IInv
<1>1. PICK b \in Unnamed : Remove(b)
    BY DEF RemoveUnnamed
<1>2. /\ there' = there \ {b} /\ named[b] = 0 /\ b \in seen /\ b \in Blobs
      /\ UNCHANGED <<scratch, records, pc, phase, seen, dirs, live, reached, named, heap, letting>>
      /\ phase = "unnamed"
    BY <1>1 DEF Unnamed, Remove, RemoveUnnamed, Evicting, memory, builds, Named
<1>3. letting = {} /\ reached \subseteq there
    BY <1>2 DEF NothingLetGo
<1>4. b \notin reached
  <2>. SUFFICES ASSUME b \in reached
                PROVE  FALSE
      OBVIOUS
  <2>1. PICK e \in Edges : e[2] = b /\ Naming(e, live, reached)
      BY <1>2 DEF UnnamedIsUnreached
  <2>2. e \in Namers(b)
      BY <2>1, <1>2, <1>3 DEF Namers, Standing, Naming
  <2>. QED  BY <2>2, <1>2, NamedIsCounted DEF Counting
<1>5. Named'
    BY <1>2 DEF Named
<1>6. Exclusive' /\ Idling' /\ LettingGo'
    BY <1>2 DEF Exclusive, Idling, LettingGo
<1>7. Losing'
    BY <1>2 DEF Losing, Counting
<1>8. ReachedIsClosed'
    BY <1>2 DEF ReachedIsClosed, Closed, Counting
<1>9. NothingLetGo'
    BY <1>2, <1>3, <1>4 DEF NothingLetGo
<1>10. CountsRight'
  <2>1. (reached \cap there)' = reached \cap there
      BY <1>2, <1>4
  <2>2. Standing' = Standing
      BY <1>2 DEF Standing
  <2>3. \A c : Namers(c)' = Namers(c)
      BY <1>2, <2>1, <2>2 DEF Namers, Naming
  <2>. QED  BY <1>2, <2>3 DEF CountsRight
<1>11. UnnamedIsUnreached'
    BY <1>2 DEF UnnamedIsUnreached, Naming
<1>. QED  BY <1>5, <1>6, <1>7, <1>8, <1>9, <1>10, <1>11

LEMMA UnnamedGoneKeepsCounts ==
    ASSUME IInv, NEW p \in Procs, UnnamedGone(p)
    PROVE  IInv'
<1>. USE DEF IInv
<1>1. /\ UNCHANGED <<there, scratch, records, pc, seen, dirs, live, reached, named, letting>>
      /\ phase = "unnamed" /\ phase' \in {"saving", "records"}
      /\ heap' \subseteq live \cup dirs
      /\ phase' = "records" => heap' = live \cup dirs
    BY DEF UnnamedGone, Evicting, disk, builds, memory
<1>2. Named' /\ Exclusive' /\ Idling' /\ NothingLetGo' /\ UnnamedIsUnreached'
    BY <1>1 DEF Named, Exclusive, Idling, NothingLetGo, UnnamedIsUnreached
<1>3. CASE phase' = "saving"
    BY <1>2, <1>3 DEF Losing, ReachedIsClosed, LettingGo, CountsRight, Counting
<1>4. CASE phase' = "records"
  <2>1. Standing' = Standing
      BY <1>1, <1>4 DEF Standing
  <2>2. Losing' /\ ReachedIsClosed' /\ CountsRight'
      BY <1>1, <1>4, <2>1, ApartKeepsCounts DEF Counting
  <2>3. LettingGo'
      BY <1>1 DEF LettingGo, NothingLetGo
  <2>. QED  BY <1>2, <2>2, <2>3
<1>. QED  BY <1>1, <1>3, <1>4

LEMMA EvictRecordKeepsCounts ==
    ASSUME IInv, NEW p \in Procs, NEW r \in Records, EvictRecord(p, r)
    PROVE  IInv'
<1>. USE DEF IInv
<1>1. /\ UNCHANGED <<there, scratch, records, pc, phase, seen, dirs, live, reached, named>>
      /\ phase = "records" /\ letting = {} /\ r \in heap /\ heap' = heap \ {r}
      /\ letting' = {<<r, b>> : b \in Roots[r] \cap seen}
    BY DEF EvictRecord, Evicting, Lowest, disk, builds
<1>2. r \in live /\ Standing = live \cap heap /\ Standing' = Standing \ {r} /\ r \in Standing
    BY <1>1, SizeAssumption DEF Standing, Named
<1>3. r \notin Blobs
    BY NamesAssumption
<1>4. letting' \subseteq Edges
    BY <1>1 DEF Edges, Named
<1>5. Named'
    BY <1>1, <1>4 DEF Named
<1>6. Exclusive' /\ Idling' /\ NothingLetGo' /\ UnnamedIsUnreached'
    BY <1>1 DEF Exclusive, Idling, NothingLetGo, UnnamedIsUnreached
<1>7. Losing'
    BY <1>1 DEF Losing, Counting
<1>8. ReachedIsClosed'
    BY <1>1 DEF ReachedIsClosed, Closed, Counting
<1>9. LettingGo'
  <2>. SUFFICES ASSUME NEW e \in letting'
                PROVE  /\ Naming(e, live, reached) /\ e[2] \in reached
                       /\ e[1] \notin Standing' /\ e[1] \notin there
      BY <1>1 DEF LettingGo, Naming
  <2>1. PICK b \in Roots[r] \cap seen : e = <<r, b>>
      BY <1>1
  <2>2. b \in reached
      BY <1>1, <1>2 DEF ReachedIsClosed, Counting
  <2>3. r \notin there
      BY <1>3 DEF Named
  <2>. QED  BY <2>1, <2>2, <2>3, <1>2 DEF Naming
<1>10. CountsRight'
  <2>. SUFFICES ASSUME NEW b \in seen
                PROVE  Namers(b)' = Namers(b)
      BY <1>1 DEF CountsRight
  <2>1. \A e \in Edges : e[2] = b =>
          (Naming(e, Standing', reached \cap there) \/ e \in letting'
              <=> Naming(e, Standing, reached \cap there))
    <3>. SUFFICES ASSUME NEW e \in Edges, e[2] = b
                  PROVE  Naming(e, Standing', reached \cap there) \/ e \in letting'
                             <=> Naming(e, Standing, reached \cap there)
        OBVIOUS
    <3>1. e = <<e[1], b>>
        BY DEF Edges
    <3>2. CASE e[1] = r
      <4>1. e \in letting' <=> b \in Roots[r]
          BY <1>1, <3>1, <3>2
      <4>2. r \notin reached
          BY <1>3 DEF Named
      <4>. QED  BY <4>1, <4>2, <3>2, <1>2 DEF Naming
    <3>3. CASE e[1] # r
      <4>1. e \notin letting'
          BY <1>1, <3>3
      <4>. QED  BY <4>1, <3>3, <1>2 DEF Naming
    <3>. QED  BY <3>2, <3>3
  <2>2. Namers(b)' = {e \in Edges : e[2] = b
                          /\ (Naming(e, Standing', reached \cap there) \/ e \in letting')}
      BY <1>1 DEF Namers, Naming
  <2>3. Namers(b) = {e \in Edges : e[2] = b /\ Naming(e, Standing, reached \cap there)}
      BY <1>1 DEF Namers
  <2>. QED  BY <2>1, <2>2, <2>3
<1>. QED  BY <1>5, <1>6, <1>7, <1>8, <1>9, <1>10

LEMMA LetGoKeepsCounts ==
    ASSUME IInv, NEW p \in Procs, NEW e \in letting, LetGo(p, e)
    PROVE  IInv'
<1>. USE DEF IInv
<1>. DEFINE x == e[2]
<1>1. /\ UNCHANGED <<scratch, records, pc, phase, seen, dirs, live, reached, heap>>
      /\ phase = "records"
      /\ named' = [named EXCEPT ![x] = @ - 1]
    BY DEF LetGo, Evicting, builds
<1>2. /\ e \in Edges /\ x \in reached /\ x \in seen /\ x \in Blobs
      /\ e[1] \notin Standing /\ e[1] \notin there
    BY <1>1 DEF LettingGo, Named
<1>3. Standing' = Standing
    BY <1>1 DEF Standing
<1>4. e \in Namers(x)
    BY <1>2 DEF Namers
<1>5. named[x] # 0 /\ x \in there
    BY <1>1, <1>2, <1>4, NamedIsCounted DEF Losing, Counting
<1>6. named \in [Blobs -> Nat] /\ named' \in [Blobs -> Nat]
    BY <1>1, <1>2, <1>5 DEF Named
<1>7. named'[x] = named[x] - 1 /\ \A b \in Blobs \ {x} : named'[b] = named[b]
    BY <1>1, <1>2, <1>6
<1>8. \A b \in seen : named[b] = Cardinality(Namers(b))
    BY <1>1 DEF CountsRight
<1>9. ~Naming(e, Standing, reached \cap there)
    BY <1>2 DEF Naming
<1>10. Cardinality(Namers(x) \ {e}) = named[x] - 1
    BY <1>2, <1>4, <1>8, NamersAreFinite, FS_RemoveElement
<1>11. Exclusive' /\ Idling' /\ NothingLetGo' /\ UnnamedIsUnreached'
    BY <1>1 DEF Exclusive, Idling, NothingLetGo, UnnamedIsUnreached
<1>12. ReachedIsClosed'
    BY <1>1 DEF ReachedIsClosed, Closed, Counting
<1>13. CASE named[x] # 1
  <2>1. there' = there /\ letting' = letting \ {e}
      BY <1>13 DEF LetGo
  <2>2. Named'
      BY <1>1, <1>6, <2>1 DEF Named
  <2>3. Losing'
      BY <1>1, <1>2, <1>5, <1>6, <1>7, <2>1, <1>13 DEF Losing, Counting, Named
  <2>4. LettingGo'
      BY <1>1, <1>3, <2>1 DEF LettingGo, Naming
  <2>5. Namers(x)' = Namers(x) \ {e}
      BY <1>1, <1>3, <1>9, <2>1 DEF Namers, Naming
  <2>6. \A b \in seen \ {x} : Namers(b)' = Namers(b)
    <3>. SUFFICES ASSUME NEW b \in seen \ {x}
                  PROVE  Namers(b)' = Namers(b)
        OBVIOUS
    <3>1. \A d \in Edges : d[2] = b => (d \in letting' <=> d \in letting)
        BY <2>1
    <3>. QED  BY <1>1, <1>3, <2>1, <3>1 DEF Namers, Naming
  <2>7. CountsRight'
      BY <1>1, <1>7, <1>8, <1>10, <2>5, <2>6 DEF CountsRight, Named
  <2>. QED  BY <1>11, <1>12, <2>2, <2>3, <2>4, <2>7
<1>14. CASE named[x] = 1
  <2>1. /\ there' = there \ {x}
        /\ letting' = (letting \ {e}) \cup {<<x, b>> : b \in Entries[x] \cap seen}
      BY <1>14 DEF LetGo, Remove
  <2>2. Namers(x) = {e}
    <3>1. Cardinality(Namers(x) \ {e}) = 0
        BY <1>10, <1>14
    <3>2. Namers(x) \ {e} = {}
        BY <3>1, NamersAreFinite, FS_RemoveElement, FS_EmptySet
    <3>. QED  BY <3>2, <1>4
  <2>3. x \notin Entries[x]
    <3>. SUFFICES ASSUME x \in Entries[x]
                  PROVE  FALSE
        OBVIOUS
    <3>1. <<x, x>> \in Edges /\ Naming(<<x, x>>, Standing, reached \cap there)
        BY <1>2, <1>5 DEF Edges, Naming
    <3>2. <<x, x>> \in Namers(x)
        BY <3>1 DEF Namers
    <3>. QED  BY <3>2, <2>2, <1>9, <3>1
  <2>4. letting' \subseteq Edges
      BY <2>1, <1>2 DEF Named, Edges
  <2>5. Named'
      BY <1>1, <1>6, <2>1, <2>4 DEF Named
  <2>6. Losing'
      BY <1>1, <1>2, <1>7, <1>14, <2>1 DEF Losing, Counting, Named
  <2>7. x \notin Records
      BY <1>2, NamesAssumption
  <2>8. LettingGo'
    <3>. SUFFICES ASSUME NEW d \in letting'
                  PROVE  /\ Naming(d, live, reached) /\ d[2] \in reached
                         /\ d[1] \notin Standing /\ d[1] \notin there'
        BY <1>1, <1>3 DEF LettingGo, Naming
    <3>1. CASE d \in letting
        BY <1>1, <2>1, <3>1 DEF LettingGo
    <3>2. CASE d \notin letting
      <4>1. PICK b \in Entries[x] \cap seen : d = <<x, b>>
          BY <2>1, <3>2
      <4>2. b \in reached
          BY <1>1, <1>2 DEF ReachedIsClosed, Closed, Counting
      <4>3. x \notin Standing
          BY <2>7 DEF Standing, Named
      <4>. QED  BY <4>1, <4>2, <4>3, <1>2, <2>1 DEF Naming
    <3>. QED  BY <3>1, <3>2
  <2>9. Namers(x)' = {}
    <3>. SUFFICES ASSUME NEW d \in Edges, d[2] = x,
                         Naming(d, Standing, reached \cap there') \/ d \in letting'
                  PROVE  FALSE
        BY <1>1, <1>3 DEF Namers, Naming
    <3>1. CASE d \in letting'
      <4>1. d \in letting /\ d # e
          BY <2>1, <2>3, <3>1
      <4>2. d \in Namers(x)
          BY <4>1 DEF Namers
      <4>. QED  BY <4>1, <4>2, <2>2
    <3>2. CASE Naming(d, Standing, reached \cap there')
      <4>1. Naming(d, Standing, reached \cap there)
          BY <3>2, <2>1 DEF Naming
      <4>2. d \in Namers(x)
          BY <4>1 DEF Namers
      <4>. QED  BY <4>1, <4>2, <2>2, <1>9
    <3>. QED  BY <3>1, <3>2
  <2>10. \A b \in seen \ {x} : Namers(b)' = Namers(b)
    <3>. SUFFICES ASSUME NEW b \in seen \ {x}
                  PROVE  Namers(b)' = Namers(b)
        OBVIOUS
    <3>1. \A d \in Edges : d[2] = b =>
            (Naming(d, Standing, reached \cap there') \/ d \in letting'
                <=> Naming(d, Standing, reached \cap there) \/ d \in letting)
      <4>. SUFFICES ASSUME NEW d \in Edges, d[2] = b
                    PROVE  Naming(d, Standing, reached \cap there') \/ d \in letting'
                               <=> Naming(d, Standing, reached \cap there) \/ d \in letting
          OBVIOUS
      <4>1. d = <<d[1], b>>
          BY DEF Edges
      <4>2. CASE d[1] = x
        <5>1. d \in letting' <=> d \in letting \/ b \in Entries[x]
            BY <2>1, <4>1, <4>2
        <5>2. x \notin Standing
            BY <2>7 DEF Standing, Named
        <5>3. Naming(d, Standing, reached \cap there) <=> b \in Entries[x]
            BY <5>2, <4>2, <1>2, <1>5 DEF Naming
        <5>4. ~Naming(d, Standing, reached \cap there')
            BY <5>2, <4>2, <2>1 DEF Naming
        <5>. QED  BY <5>1, <5>3, <5>4
      <4>3. CASE d[1] # x
        <5>1. d \in letting' <=> d \in letting
            BY <2>1, <4>3
        <5>. QED  BY <5>1, <4>3, <2>1 DEF Naming
      <4>. QED  BY <4>2, <4>3
    <3>2. Namers(b)' = {d \in Edges : d[2] = b
                            /\ (Naming(d, Standing, reached \cap there') \/ d \in letting')}
        BY <1>1, <1>3 DEF Namers, Naming
    <3>3. Namers(b) = {d \in Edges : d[2] = b
                            /\ (Naming(d, Standing, reached \cap there) \/ d \in letting)}
        BY DEF Namers
    <3>. QED  BY <3>1, <3>2, <3>3
  <2>11. CountsRight'
    <3>1. named'[x] = 0 /\ Cardinality(Namers(x)') = 0
        BY <1>7, <1>14, <2>9, FS_EmptySet
    <3>. QED  BY <1>1, <1>7, <1>8, <2>10, <3>1 DEF CountsRight, Named
  <2>. QED  BY <1>11, <1>12, <2>5, <2>6, <2>8, <2>11
<1>. QED  BY <1>13, <1>14

LEMMA EvictKeepsCounts ==
    ASSUME IInv, NEW p \in Procs, Evict(p)
    PROVE  IInv'
<1>. USE DEF IInv
<1>1. ASSUME phase = "none", Aside, UNCHANGED <<there, scratch, records>>, Out(p)
      PROVE  IInv'
  <2>1. phase' = "none" /\ UNCHANGED <<memory, work>>
      BY <1>1 DEF Aside
  <2>2. Named'
      BY <1>1, <2>1 DEF memory, work, Named, Out
  <2>3. Exclusive' /\ Idling'
      BY <1>1, <2>1 DEF Exclusive, Idling, Named, Out, work
  <2>. QED  BY <2>1, <2>2, <2>3, NobodyCounts
<1>2. CASE Trust(p)
    BY <1>2, <1>1 DEF Trust, Evicting, disk
<1>3. CASE Measure(p)
    BY <1>3, <1>1 DEF Measure, Evicting
<1>4. CASE Begin(p)
    BY <1>4, BeginKeepsCounts
<1>5. CASE RemoveUnnamed(p)
    BY <1>5, UnnamedKeepCounts
<1>6. CASE UnnamedGone(p)
    BY <1>6, UnnamedGoneKeepsCounts
<1>7. ASSUME NEW r \in Records, EvictRecord(p, r)
      PROVE  IInv'
    BY <1>7, EvictRecordKeepsCounts
<1>8. ASSUME NEW e \in letting, LetGo(p, e)
      PROVE  IInv'
    BY <1>8, LetGoKeepsCounts
<1>9. ASSUME NEW s \in Scratches, EvictScratch(p, s)
      PROVE  IInv'
  <2>1. /\ UNCHANGED <<there, records, pc, phase, seen, dirs, live, reached, named, letting>>
        /\ phase = "records" /\ scratch' \subseteq scratch /\ heap' = heap \ {s}
      BY <1>9 DEF EvictScratch, Evicting, builds
  <2>2. Standing' = Standing
      BY <2>1, SizeAssumption DEF Standing, Named
  <2>3. Named' /\ Exclusive' /\ Idling' /\ NothingLetGo' /\ UnnamedIsUnreached'
      BY <2>1 DEF Named, Exclusive, Idling, NothingLetGo, UnnamedIsUnreached
  <2>4. LettingGo'
      BY <2>1, <2>2 DEF LettingGo, Naming
  <2>5. Losing' /\ ReachedIsClosed' /\ CountsRight'
      BY <2>1, <2>2, ApartKeepsCounts DEF Counting
  <2>. QED  BY <2>3, <2>4, <2>5
<1>10. ASSUME phase' \in {"saving", "journals"}, UNCHANGED <<there, scratch, records, pc, memory, work>>,
              phase # "none"
       PROVE  IInv'
  <2>1. Named' /\ Exclusive' /\ Idling'
      BY <1>10 DEF Named, Exclusive, Idling, memory, work
  <2>. QED
      BY <1>10, <2>1 DEF Losing, ReachedIsClosed, NothingLetGo, UnnamedIsUnreached, LettingGo,
                         CountsRight, Counting
<1>11. CASE Evicted(p)
    BY <1>11, <1>10 DEF Evicted, Evicting, disk, builds
<1>12. CASE Save(p)
    BY <1>12, <1>10 DEF Save, Evicting, builds
<1>13. CASE RemoveJournal(p)
    BY <1>13, <1>10 DEF RemoveJournal, Evicting, builds
<1>14. CASE Finish(p)
  <2>1. Named'
      BY <1>14 DEF Finish, Out, Idle, Named
  <2>2. Exclusive' /\ Idling'
      BY <1>14 DEF Finish, Out, Idle, Exclusive, Idling, Named
  <2>. QED  BY <1>14, <2>1, <2>2, NobodyCounts DEF Finish, Idle
<1>. QED
    BY <1>2, <1>3, <1>4, <1>5, <1>6, <1>7, <1>8, <1>9, <1>11, <1>12, <1>13, <1>14 DEF Evict

LEMMA StutteringKeepsCounts ==
    ASSUME IInv, UNCHANGED vars
    PROVE  IInv'
<1>1. UNCHANGED <<there, scratch, records, pc, phase, seen, dirs, live, reached, named, heap, letting>>
    BY DEF vars, disk, builds, memory, work
<1>2. Standing' = Standing /\ \A b : Namers(b)' = Namers(b)
    BY <1>1 DEF Standing, Namers, Naming
<1>3. Named' /\ Exclusive' /\ Idling' /\ NothingLetGo' /\ UnnamedIsUnreached' /\ Losing'
    BY <1>1 DEF IInv, Named, Exclusive, Idling, NothingLetGo, UnnamedIsUnreached, Losing, Counting
<1>4. ReachedIsClosed' /\ LettingGo'
    BY <1>1, <1>2 DEF IInv, ReachedIsClosed, Closed, LettingGo, Naming, Counting
<1>5. CountsRight'
    BY <1>1, <1>2 DEF IInv, CountsRight
<1>. QED  BY <1>3, <1>4, <1>5 DEF IInv

LEMMA Inductive == IInv /\ [Next]_vars => IInv'
BY BuildKeepsCounts, EvictKeepsCounts, StutteringKeepsCounts DEF Next

LEMMA Always == Spec => []IInv
BY Initially, Inductive, PTL DEF Spec

\* At every step of an eviction each blob's count is of what still names it:
\* the records not evicted, the trees still there, and what is yet to be let
\* go of (evict.rs, named_of and evict_to).
THEOREM CountsAreRight == Spec => []CountsRight
<1>1. IInv => CountsRight
    BY DEF IInv
<1>. QED  BY <1>1, Always, PTL

\* An eviction never takes a blob that a record it has not evicted names at
\* any depth, however records and trees share what they hold (evict.rs, "A
\* blob is removed once no live record ... names it at any depth").
THEOREM LiveRecordsAreSpared == Spec => []SparesLive
BY CountsSpareLive, Always, PTL
-----------------------------------------------------------------------------
(* What is used is live to the next eviction. *)

\* What kept and state are of, whatever they hold.
Recorded == "evicted" \in DOMAIN kept /\ "evicted" \in DOMAIN state

\* A record used since it was evicted, which eviction.json has not come to say,
\* is in a journal; what an eviction is to keep does say it, and what it has
\* kept said it before the journal went.
UsedIsJournalled ==
    /\ fresh \cap kept.evicted \subseteq Used
    /\ phase \in {"unnamed", "records", "saving"} => fresh \cap state.evicted = {}
    /\ phase = "journals" => fresh \cap kept.evicted = {}

UInv == IInv /\ Recorded /\ UsedIsJournalled /\ UsedAreLive

LEMMA UsedInitially == Init => UInv
<1>. SUFFICES ASSUME Init
              PROVE  UInv
    OBVIOUS
<1>1. "evicted" \in DOMAIN Nothing
    BY DEF Nothing
<1>. QED
    BY <1>1, Initially DEF Init, UInv, Recorded, UsedIsJournalled, UsedAreLive

\* Whatever leaves alone what was used and what is evicted.
LEMMA ApartKeepsUsed ==
    ASSUME UInv, UNCHANGED <<kept, journals, fresh, phase, state, live>>,
           phase = "unnamed" => UNCHANGED records
    PROVE  Recorded' /\ UsedIsJournalled' /\ UsedAreLive'
BY DEF UInv, Recorded, UsedIsJournalled, UsedAreLive, Used

\* What a build notes is used once it is journalled, and while it runs nobody
\* evicts.
LEMMA BuildKeepsUsed ==
    ASSUME UInv, NEW p \in Procs, Build(p)
    PROVE  Recorded' /\ UsedIsJournalled' /\ UsedAreLive'
<1>. USE DEF UInv
<1>1. ASSUME Aside, UNCHANGED <<kept, journals, fresh>>, phase = "none" \/ UNCHANGED records
      PROVE  Recorded' /\ UsedIsJournalled' /\ UsedAreLive'
    BY <1>1, ApartKeepsUsed DEF Aside, memory
<1>2. ASSUME pc[p] \notin {"out", "evicting"}
      PROVE  phase = "none"
    BY <1>2, BuildsAreApart
<1>3. CASE Open(p)
    BY <1>3, <1>1 DEF Open, disk
<1>4. CASE Journal(p)
  <2>1. phase = "none" /\ phase' = "none" /\ UNCHANGED <<kept, state>>
      BY <1>4, <1>2 DEF Journal, Aside, memory
  <2>2. Used \subseteq Used' /\ noted[p] \subseteq Used'
      BY <1>4 DEF Journal, Used
  <2>3. fresh' = fresh \cup (noted[p] \cap Records)
      BY <1>4 DEF Journal
  <2>. QED  BY <2>1, <2>2, <2>3 DEF Recorded, UsedIsJournalled, UsedAreLive
<1>5. CASE AddUp(p)
    BY <1>5, <1>1 DEF AddUp
<1>6. CASE Close(p)
    BY <1>6, <1>1 DEF Close, disk
<1>7. CASE TryLock(p)
    BY <1>7, <1>1 DEF TryLock, disk
<1>8. CASE Die(p)
  <2>1. UNCHANGED <<kept, journals, records, fresh>>
      BY <1>8 DEF Die, disk
  <2>2. CASE pc[p] = "evicting"
    <3>1. phase' = "none" /\ state' = Nothing
        BY <1>8, <2>2 DEF Die, Idle
    <3>. QED  BY <2>1, <3>1 DEF Recorded, UsedIsJournalled, UsedAreLive, Used, Nothing
  <2>3. CASE pc[p] # "evicting"
      BY <1>8, <2>1, <2>3, <1>1 DEF Die
  <2>. QED  BY <2>2, <2>3
<1>9. ASSUME NEW b \in Blobs, Put(p, b)
      PROVE  Recorded' /\ UsedIsJournalled' /\ UsedAreLive'
    BY <1>9, <1>1 DEF Put
<1>10. ASSUME NEW r \in Records, Find(p, r)
       PROVE  Recorded' /\ UsedIsJournalled' /\ UsedAreLive'
    BY <1>10, <1>1 DEF Find, disk
<1>11. ASSUME NEW r \in Records, Write(p, r)
       PROVE  Recorded' /\ UsedIsJournalled' /\ UsedAreLive'
    BY <1>11, <1>1, <1>2 DEF Write
<1>12. ASSUME NEW s \in Scratches, Hold(p, s)
       PROVE  Recorded' /\ UsedIsJournalled' /\ UsedAreLive'
    BY <1>12, <1>1 DEF Hold
<1>. QED
    BY <1>3, <1>4, <1>5, <1>6, <1>7, <1>8, <1>9, <1>10, <1>11, <1>12 DEF Build

\* An eviction takes what was used out of the evicted before it does anything,
\* and a journal goes only once that is kept.
LEMMA EvictKeepsUsed ==
    ASSUME UInv, NEW p \in Procs, Evict(p)
    PROVE  Recorded' /\ UsedIsJournalled' /\ UsedAreLive'
<1>. USE DEF UInv
<1>1. ASSUME UNCHANGED <<kept, journals, fresh, phase, state, live, records>>
      PROVE  Recorded' /\ UsedIsJournalled' /\ UsedAreLive'
    BY <1>1, ApartKeepsUsed
<1>2. CASE Trust(p)
    BY <1>2, <1>1 DEF Trust, Aside, disk, memory
<1>3. CASE Measure(p)
    BY <1>3, <1>1 DEF Measure, Aside, memory
<1>4. CASE Begin(p)
  <2>1. /\ phase' = "unnamed" /\ state' = Renewed /\ live' = records \ Renewed.evicted
        /\ UNCHANGED <<records, kept, journals, fresh>>
      BY <1>4 DEF Begin, disk
  <2>2. Renewed.evicted = kept.evicted \ Used /\ "evicted" \in DOMAIN Renewed
      BY DEF Renewed, Recorded
  <2>3. fresh \cap Renewed.evicted = {}
      BY <2>2 DEF UsedIsJournalled
  <2>. QED  BY <2>1, <2>2, <2>3 DEF Recorded, UsedIsJournalled, UsedAreLive, Used
<1>5. CASE RemoveUnnamed(p)
    BY <1>5, <1>1 DEF RemoveUnnamed, memory
<1>6. CASE UnnamedGone(p)
  <2>1. /\ UNCHANGED <<kept, journals, fresh, state>>
        /\ phase = "unnamed" /\ phase' \in {"saving", "records"}
      BY <1>6 DEF UnnamedGone, Evicting, disk, memory
  <2>. QED  BY <2>1 DEF Recorded, UsedIsJournalled, UsedAreLive, Used
<1>7. ASSUME NEW r \in Records, EvictRecord(p, r)
      PROVE  Recorded' /\ UsedIsJournalled' /\ UsedAreLive'
  <2>1. /\ UNCHANGED <<kept, journals>> /\ phase = "records" /\ phase' = "records"
        /\ fresh' = fresh \ {r}
        /\ "evicted" \in DOMAIN state' /\ state'.evicted = state.evicted \cup {r}
      BY <1>7 DEF EvictRecord, Evicting, disk
  <2>. QED  BY <2>1 DEF Recorded, UsedIsJournalled, UsedAreLive, Used
<1>8. ASSUME NEW e \in letting, LetGo(p, e)
      PROVE  Recorded' /\ UsedIsJournalled' /\ UsedAreLive'
    BY <1>8, <1>1 DEF LetGo
<1>9. ASSUME NEW s \in Scratches, EvictScratch(p, s)
      PROVE  Recorded' /\ UsedIsJournalled' /\ UsedAreLive'
  <2>1. UNCHANGED <<kept, journals, fresh, phase, records>> /\ phase = "records"
      BY <1>9 DEF EvictScratch, Evicting
  <2>2. "evicted" \in DOMAIN state' /\ state'.evicted = state.evicted
      BY <1>9 DEF EvictScratch, Recorded
  <2>. QED  BY <2>1, <2>2 DEF Recorded, UsedIsJournalled, UsedAreLive, Used
<1>10. CASE Evicted(p)
  <2>1. /\ UNCHANGED <<kept, journals, fresh, state>>
        /\ phase = "records" /\ phase' = "saving"
      BY <1>10 DEF Evicted, Evicting, disk, memory
  <2>. QED  BY <2>1 DEF Recorded, UsedIsJournalled, UsedAreLive, Used
<1>11. CASE Save(p)
  <2>1. UNCHANGED <<journals, fresh, state>> /\ phase = "saving" /\ phase' = "journals"
      BY <1>11 DEF Save, Evicting, memory
  <2>2. "evicted" \in DOMAIN kept' /\ kept'.evicted = state.evicted \cap records
      BY <1>11 DEF Save, Recorded
  <2>. QED  BY <2>1, <2>2 DEF Recorded, UsedIsJournalled, UsedAreLive
<1>12. CASE RemoveJournal(p)
  <2>1. UNCHANGED <<kept, fresh, state, phase>> /\ phase = "journals"
      BY <1>12 DEF RemoveJournal, Evicting, memory
  <2>. QED  BY <2>1 DEF Recorded, UsedIsJournalled, UsedAreLive
<1>13. CASE Finish(p)
  <2>1. UNCHANGED <<kept, fresh>> /\ phase = "journals" /\ phase' = "none" /\ state' = Nothing
      BY <1>13 DEF Finish, Evicting, Idle
  <2>. QED  BY <2>1 DEF Recorded, UsedIsJournalled, UsedAreLive, Nothing
<1>. QED
    BY <1>2, <1>3, <1>4, <1>5, <1>6, <1>7, <1>8, <1>9, <1>10, <1>11, <1>12, <1>13 DEF Evict

LEMMA UsedInductive == UInv /\ [Next]_vars => UInv'
<1>. SUFFICES ASSUME UInv, [Next]_vars
              PROVE  UInv'
    OBVIOUS
<1>1. IInv'
    BY Inductive DEF UInv
<1>2. CASE UNCHANGED vars
  <2>1. UNCHANGED <<kept, journals, fresh, phase, state, live, records>>
      BY <1>2 DEF vars, disk, memory
  <2>. QED  BY <1>1, <2>1, ApartKeepsUsed DEF UInv
<1>3. CASE Next
    BY <1>1, <1>3, BuildKeepsUsed, EvictKeepsUsed DEF Next, UInv
<1>. QED  BY <1>2, <1>3

\* A record that a build used after it was evicted is live to the next eviction,
\* though builds and evictions are killed between, at whatever step: the journal
\* that says it was used outlives them until what it says is kept (evict.rs,
\* journals_of and evict_held).
THEOREM UsedRecordsAreLive == Spec => []UsedAreLive
<1>1. UInv => UsedAreLive
    BY DEF UInv
<1>. QED  BY <1>1, UsedInitially, UsedInductive, PTL DEF Spec
-----------------------------------------------------------------------------
(* Sums over finite sets. *)

Pick(S) == CHOOSE x \in S : TRUE

\* The equation that a sum over each subset of S satisfies.
Sums(g, f, S) ==
    g = [s \in SUBSET S |-> IF s = {} THEN 0 ELSE f[Pick(s)] + g[s \ {Pick(s)}]]

\* Of any sets among a finite one's subsets, one has no other within it.
LEMMA SmallestSet ==
    ASSUME NEW S, IsFiniteSet(S), NEW Q, Q \subseteq SUBSET S, Q # {}
    PROVE  \E T \in Q : \A U \in Q : U \subseteq T => U = T
<1>1. IsWellFoundedOn(StrictSubsetOrdering(S), SUBSET S)
    BY FS_StrictSubsetOrderingWellFounded, FS_FiniteSubsetsOfFinite
<1>2. \E T \in Q : \A U \in Q : ~(<<U, T>> \in StrictSubsetOrdering(S))
    BY <1>1, WFMin
<1>. QED  BY <1>2 DEF StrictSubsetOrdering

LEMMA SumIsChosen ==
    ASSUME NEW f, NEW S
    PROVE  SumOf(f, S) = (CHOOSE g : Sums(g, f, S))[S]
BY DEF SumOf, MapThenSumSet, MapThenFoldSet, Sums, Pick

LEMMA PickIsOne ==
    ASSUME NEW S, S # {}
    PROVE  Pick(S) \in S
BY DEF Pick

\* What solves the equation for a set is, for a subset, what solves it there.
LEMMA SumsAgree ==
    ASSUME NEW f, NEW V, IsFiniteSet(V), NEW U \in SUBSET V, NEW g, NEW h,
           Sums(g, f, U), Sums(h, f, V)
    PROVE  g[U] = h[U]
<1>. SUFFICES ASSUME g[U] # h[U]
              PROVE  FALSE
    OBVIOUS
<1>. DEFINE Q == {s \in SUBSET U : g[s] # h[s]}
<1>1. PICK T \in Q : \A s \in Q : s \subseteq T => s = T
  <2>1. Q \subseteq SUBSET V /\ Q # {}
      OBVIOUS
  <2>. HIDE DEF Q
  <2>. QED  BY <2>1, SmallestSet
<1>2. g[T] = IF T = {} THEN 0 ELSE f[Pick(T)] + g[T \ {Pick(T)}]
    BY DEF Sums
<1>3. h[T] = IF T = {} THEN 0 ELSE f[Pick(T)] + h[T \ {Pick(T)}]
    BY DEF Sums
<1>4. T # {}
    BY <1>2, <1>3
<1>5. g[T \ {Pick(T)}] = h[T \ {Pick(T)}]
    BY <1>1, <1>4, PickIsOne
<1>. QED  BY <1>2, <1>3, <1>5

\* The equation has a solution, for every finite set.
LEMMA SumsExist ==
    ASSUME NEW f, NEW S, IsFiniteSet(S)
    PROVE  \E g : Sums(g, f, S)
<1>. SUFFICES ASSUME ~\E g : Sums(g, f, S)
              PROVE  FALSE
    OBVIOUS
<1>. DEFINE Q == {s \in SUBSET S : ~\E g : Sums(g, f, s)}
            G(s) == CHOOSE g : Sums(g, f, s)
<1>1. PICK T \in Q : \A s \in Q : s \subseteq T => s = T
  <2>1. Q \subseteq SUBSET S /\ S \in Q
      OBVIOUS
  <2>. HIDE DEF Q
  <2>. QED  BY <2>1, SmallestSet
<1>2. \A s \in SUBSET T : s # T => Sums(G(s), f, s)
    BY <1>1
<1>. DEFINE g == [s \in SUBSET T |->
                    IF s # T THEN G(s)[s]
                    ELSE IF s = {} THEN 0 ELSE f[Pick(s)] + G(s \ {Pick(s)})[s \ {Pick(s)}]]
<1>3. ASSUME NEW s \in SUBSET T
      PROVE  g[s] = IF s = {} THEN 0 ELSE f[Pick(s)] + g[s \ {Pick(s)}]
  <2>0. s # {} => Pick(s) \in s /\ s \ {Pick(s)} # T /\ s \ {Pick(s)} \in SUBSET T
      BY PickIsOne
  <2>. HIDE DEF G
  <2>1. s # {} => g[s \ {Pick(s)}] = G(s \ {Pick(s)})[s \ {Pick(s)}]
      BY <2>0
  <2>2. CASE s = T
      BY <2>1, <2>2
  <2>3. CASE s # T
    <3>1. Sums(G(s), f, s)
        BY <1>2, <2>3
    <3>2. G(s)[s] = IF s = {} THEN 0 ELSE f[Pick(s)] + G(s)[s \ {Pick(s)}]
        BY <3>1 DEF Sums
    <3>3. s # {} => G(s)[s \ {Pick(s)}] = G(s \ {Pick(s)})[s \ {Pick(s)}]
      <4>1. IsFiniteSet(s)
          BY FS_Subset
      <4>2. s # {} => Sums(G(s \ {Pick(s)}), f, s \ {Pick(s)})
          BY <1>2, <2>0
      <4>. QED  BY <4>1, <4>2, <3>1, SumsAgree
    <3>. QED  BY <2>1, <2>3, <3>2, <3>3
  <2>. QED  BY <2>2, <2>3
<1>4. g = [s \in SUBSET T |-> g[s]]
    OBVIOUS
<1>. HIDE DEF g
<1>5. Sums(g, f, T)
    BY <1>3, <1>4 DEF Sums
<1>6. T \notin Q
    BY <1>5
<1>. QED  BY <1>1, <1>6

LEMMA SumOfNone ==
    ASSUME NEW f
    PROVE  SumOf(f, {}) = 0
<1>1. IsFiniteSet({})
    BY FS_EmptySet
<1>2. Sums(CHOOSE g : Sums(g, f, {}), f, {})
    BY <1>1, SumsExist
<1>. QED  BY <1>2, SumIsChosen DEF Sums

LEMMA SumOfPicked ==
    ASSUME NEW f, NEW S, IsFiniteSet(S), S # {}
    PROVE  SumOf(f, S) = f[Pick(S)] + SumOf(f, S \ {Pick(S)})
<1>. DEFINE G(s) == CHOOSE g : Sums(g, f, s)
            R == S \ {Pick(S)}
<1>1. IsFiniteSet(R)
    BY FS_Subset
<1>2. Sums(G(S), f, S) /\ Sums(G(R), f, R)
    BY <1>1, SumsExist
<1>3. SumOf(f, S) = G(S)[S] /\ SumOf(f, R) = G(R)[R]
    BY SumIsChosen
<1>. HIDE DEF G
<1>4. G(S)[S] = f[Pick(S)] + G(S)[R]
    BY <1>2 DEF Sums
<1>5. G(S)[R] = G(R)[R]
    BY <1>2, SumsAgree
<1>. QED  BY <1>3, <1>4, <1>5

\* A sum of naturals is one.
LEMMA SumIsNat ==
    ASSUME NEW f, NEW S, IsFiniteSet(S), \A x \in S : f[x] \in Nat
    PROVE  SumOf(f, S) \in Nat
<1>. SUFFICES ASSUME SumOf(f, S) \notin Nat
              PROVE  FALSE
    OBVIOUS
<1>. DEFINE Q == {s \in SUBSET S : SumOf(f, s) \notin Nat}
<1>1. PICK T \in Q : \A s \in Q : s \subseteq T => s = T
  <2>1. Q \subseteq SUBSET S /\ S \in Q
      OBVIOUS
  <2>. HIDE DEF Q
  <2>. QED  BY <2>1, SmallestSet
<1>2. T # {}
    BY SumOfNone
<1>3. IsFiniteSet(T)
    BY FS_Subset
<1>4. Pick(T) \in T
    BY <1>2, PickIsOne
<1>5. SumOf(f, T) = f[Pick(T)] + SumOf(f, T \ {Pick(T)})
    BY <1>2, <1>3, SumOfPicked
<1>6. SumOf(f, T \ {Pick(T)}) \in Nat
    BY <1>1, <1>4
<1>. QED  BY <1>4, <1>5, <1>6

\* Any element may be taken out first.
LEMMA SumTakes ==
    ASSUME NEW f, NEW S, IsFiniteSet(S), \A x \in S : f[x] \in Nat, NEW x \in S
    PROVE  SumOf(f, S) = f[x] + SumOf(f, S \ {x})
<1>. DEFINE Good(s) == \A y \in s : SumOf(f, s) = f[y] + SumOf(f, s \ {y})
            Q == {s \in SUBSET S : ~Good(s)}
<1>. SUFFICES ASSUME S \in Q
              PROVE  FALSE
    OBVIOUS
<1>1. PICK T \in Q : \A s \in Q : s \subseteq T => s = T
  <2>1. Q \subseteq SUBSET S /\ S \in Q
      OBVIOUS
  <2>. HIDE DEF Q
  <2>. QED  BY <2>1, SmallestSet
<1>2. PICK y \in T : SumOf(f, T) # f[y] + SumOf(f, T \ {y})
    BY <1>1
<1>. DEFINE z == Pick(T)
            R == (T \ {z}) \ {y}
<1>3. z \in T /\ IsFiniteSet(T)
    BY <1>2, PickIsOne, FS_Subset
<1>4. SumOf(f, T) = f[z] + SumOf(f, T \ {z})
    BY <1>3, SumOfPicked
<1>5. y # z
    BY <1>2, <1>4
<1>6. SumOf(f, T \ {z}) = f[y] + SumOf(f, R)
  <2>1. Good(T \ {z})
      BY <1>1, <1>3
  <2>. QED  BY <2>1, <1>2, <1>5
<1>7. SumOf(f, T \ {y}) = f[z] + SumOf(f, R)
  <2>1. Good(T \ {y})
      BY <1>1, <1>2
  <2>2. R = (T \ {y}) \ {z}
      OBVIOUS
  <2>. QED  BY <2>1, <2>2, <1>3, <1>5
<1>8. IsFiniteSet(R) /\ \A w \in R : f[w] \in Nat
    BY <1>3, FS_Subset
<1>9. SumOf(f, R) \in Nat
    BY <1>8, SumIsNat
<1>10. f[y] \in Nat /\ f[z] \in Nat
    BY <1>2, <1>3
<1>. HIDE DEF z, R
<1>11. SumOf(f, T) = f[y] + SumOf(f, T \ {y})
    BY <1>4, <1>6, <1>7, <1>9, <1>10
<1>. QED  BY <1>2, <1>11

\* A sum is of what the function gives for its set, and of nothing else.
LEMMA SumsAlike ==
    ASSUME NEW f, NEW h, NEW S, IsFiniteSet(S), \A x \in S : f[x] = h[x]
    PROVE  SumOf(f, S) = SumOf(h, S)
<1>. SUFFICES ASSUME SumOf(f, S) # SumOf(h, S)
              PROVE  FALSE
    OBVIOUS
<1>. DEFINE Q == {s \in SUBSET S : SumOf(f, s) # SumOf(h, s)}
<1>1. PICK T \in Q : \A s \in Q : s \subseteq T => s = T
  <2>1. Q \subseteq SUBSET S /\ S \in Q
      OBVIOUS
  <2>. HIDE DEF Q
  <2>. QED  BY <2>1, SmallestSet
<1>2. T # {} /\ IsFiniteSet(T)
    BY SumOfNone, FS_Subset
<1>3. Pick(T) \in T
    BY <1>2, PickIsOne
<1>4. SumOf(f, T \ {Pick(T)}) = SumOf(h, T \ {Pick(T)})
    BY <1>1, <1>3
<1>. QED  BY <1>1, <1>2, <1>3, <1>4, SumOfPicked

LEMMA SumWith ==
    ASSUME NEW f, NEW S, IsFiniteSet(S), NEW x, x \notin S, \A y \in S \cup {x} : f[y] \in Nat
    PROVE  SumOf(f, S \cup {x}) = f[x] + SumOf(f, S)
<1>1. IsFiniteSet(S \cup {x}) /\ (S \cup {x}) \ {x} = S
    BY FS_AddElement
<1>. QED  BY <1>1, SumTakes

\* What changes for one element changes the sum by as much.
LEMMA SumChanges ==
    ASSUME NEW f, NEW h, NEW S, IsFiniteSet(S), \A y \in S : f[y] \in Nat /\ h[y] \in Nat,
           NEW x \in S, \A y \in S \ {x} : f[y] = h[y]
    PROVE  SumOf(h, S) + f[x] = SumOf(f, S) + h[x]
<1>1. IsFiniteSet(S \ {x})
    BY FS_Subset
<1>2. SumOf(f, S \ {x}) = SumOf(h, S \ {x})
    BY <1>1, SumsAlike
<1>3. SumOf(f, S \ {x}) \in Nat
    BY <1>1, SumIsNat
<1>4. SumOf(f, S) = f[x] + SumOf(f, S \ {x}) /\ SumOf(h, S) = h[x] + SumOf(h, S \ {x})
    BY SumTakes
<1>. QED  BY <1>2, <1>3, <1>4

LEMMA SumOfZeros ==
    ASSUME NEW f, NEW S, IsFiniteSet(S), \A x \in S : f[x] = 0
    PROVE  SumOf(f, S) = 0
<1>. SUFFICES ASSUME SumOf(f, S) # 0
              PROVE  FALSE
    OBVIOUS
<1>. DEFINE Q == {s \in SUBSET S : SumOf(f, s) # 0}
<1>1. PICK T \in Q : \A s \in Q : s \subseteq T => s = T
  <2>1. Q \subseteq SUBSET S /\ S \in Q
      OBVIOUS
  <2>. HIDE DEF Q
  <2>. QED  BY <2>1, SmallestSet
<1>2. T # {} /\ IsFiniteSet(T)
    BY SumOfNone, FS_Subset
<1>3. Pick(T) \in T
    BY <1>2, PickIsOne
<1>4. SumOf(f, T \ {Pick(T)}) = 0
    BY <1>1, <1>3
<1>. QED  BY <1>1, <1>2, <1>3, <1>4, SumOfPicked

-----------------------------------------------------------------------------
(* What can be put: blobs on no cycle. *)

\* The blobs that can be put, each after what it names: the smallest set that
\* has every blob whose entries it has.
Grounded ==
    {b \in Blobs : \A C \in SUBSET Blobs :
        (\A c \in Blobs : Entries[c] \subseteq C => c \in C) => b \in C}

\* Of any such blobs one is named by none of them.
LEMMA OneIsUnnamed ==
    ASSUME NEW T \in SUBSET Grounded, T # {}
    PROVE  \E b \in T : \A t \in T : b \notin Entries[t]
<1>. DEFINE Topped(M) == \A U \in SUBSET M : U # {} => \E b \in U : \A t \in U : b \notin Entries[t]
            Whole(M) == \A c \in M : Entries[c] \subseteq M
            Q == {N \in SUBSET Blobs : Whole(Blobs \ N) /\ Topped(Blobs \ N)}
<1>1. PICK N \in Q : \A s \in Q : s \subseteq N => s = N
  <2>1. Whole({}) /\ Topped({}) /\ Blobs \ Blobs = {}
      OBVIOUS
  <2>2. Q \subseteq SUBSET Blobs /\ Blobs \in Q
      BY <2>1
  <2>3. IsFiniteSet(Blobs)
      BY NamesAssumption
  <2>. HIDE DEF Q
  <2>. QED  BY <2>2, <2>3, SmallestSet
<1>. DEFINE M == Blobs \ N
<1>2. Whole(M) /\ Topped(M) /\ M \in SUBSET Blobs
    BY <1>1
<1>3. \A c \in Blobs : Entries[c] \subseteq M => c \in M
  <2>. SUFFICES ASSUME NEW c \in Blobs, Entries[c] \subseteq M, c \notin M
                PROVE  FALSE
      OBVIOUS
  <2>1. Whole(M \cup {c})
      BY <1>2
  <2>2. Topped(M \cup {c})
    <3>. SUFFICES ASSUME NEW U \in SUBSET (M \cup {c}), U # {}
                  PROVE  \E b \in U : \A t \in U : b \notin Entries[t]
        OBVIOUS
    <3>1. CASE c \in U
      <4>1. \A t \in U : c \notin Entries[t]
          BY <1>2
      <4>. QED  BY <3>1, <4>1
    <3>2. CASE c \notin U
        BY <3>2, <1>2
    <3>. QED  BY <3>1, <3>2
  <2>3. Blobs \ (N \ {c}) = M \cup {c} /\ c \in N /\ N \ {c} \in SUBSET Blobs
      BY <1>1
  <2>4. N \ {c} \in Q
      BY <2>1, <2>2, <2>3
  <2>. HIDE DEF Q
  <2>. QED  BY <1>1, <2>3, <2>4
<1>4. Grounded \subseteq M
    BY <1>2, <1>3 DEF Grounded
<1>. QED  BY <1>2, <1>4

-----------------------------------------------------------------------------
(* What an eviction and the ledger count is what is there. *)

LEMMA BytesAreSums ==
    ASSUME NEW S
    PROVE  Bytes(S) = SumOf(Size, S)
BY DEF Bytes

LEMMA BytesAreNat ==
    ASSUME NEW S, S \subseteq Blobs \/ S \subseteq Scratches
    PROVE  Bytes(S) \in Nat /\ IsFiniteSet(S)
<1>1. IsFiniteSet(S) /\ \A x \in S : Size[x] \in Nat
    BY FS_Subset, NamesAssumption, SizeAssumption
<1>. QED  BY <1>1, BytesAreSums, SumIsNat

LEMMA BytesTaken ==
    ASSUME NEW S, S \subseteq Blobs \/ S \subseteq Scratches, NEW x \in S
    PROVE  Bytes(S) = Size[x] + Bytes(S \ {x}) /\ Size[x] \in Nat /\ Bytes(S \ {x}) \in Nat
<1>1. IsFiniteSet(S) /\ \A y \in S : Size[y] \in Nat
    BY BytesAreNat, SizeAssumption
<1>2. Bytes(S \ {x}) \in Nat
    BY BytesAreNat
<1>. QED  BY <1>1, <1>2, BytesAreSums, SumTakes

\* What the store and the builds count are numbers.
Numbers == added \in [Procs -> Nat] /\ lost \in Nat /\ ledger \subseteq Nat

\* The store's blobs are such as can be put.
PutInOrder == there \subseteq Grounded

\* An eviction's count is of what is there.
TotalIsTrue == phase # "none" => total = Bytes(there) + Bytes(scratch)

\* Once records are evicted, all that nothing names is gone, and the
\* directories yet to be evicted are there.
OnlyNamedLeft ==
    /\ phase = "unnamed" => dirs = scratch
    /\ phase = "records" => heap \cap Scratches \subseteq scratch
    /\ phase = "records" => \A b \in there : named[b] # 0

LowOrBare == phase \in {"saving", "journals"} => total <= Low \/ there = {}

\* A build that has added what it put has nothing to add, and none that is not
\* killed and has a limit ends without adding it.
NothingLost ==
    /\ \A p \in Procs : pc[p] \in {"out", "added", "evicting"} => added[p] = 0
    /\ deaths = 0 /\ Unlimited = {} => lost = 0

BInv ==
    IInv /\ Numbers /\ PutInOrder /\ TotalIsTrue /\ OnlyNamedLeft /\ LowOrBare /\ NothingLost
    /\ deaths \in Nat /\ LedgerCovers

LEMMA BytesInitially == Init => BInv
<1>. SUFFICES ASSUME Init
              PROVE  BInv
    OBVIOUS
<1>. QED
    BY Initially DEF Init, BInv, Numbers, PutInOrder, TotalIsTrue, OnlyNamedLeft, LowOrBare,
                     NothingLost, LedgerCovers

LEMMA UnaddedIsNat ==
    ASSUME Numbers
    PROVE  Unadded \in Nat /\ Unadded = SumOf(added, Procs)
<1>1. Unadded = SumOf(added, Procs)
    BY DEF Unadded
<1>2. \A p \in Procs : added[p] \in Nat
    BY DEF Numbers
<1>. QED  BY <1>1, <1>2, SumIsNat, SizeAssumption

\* What one build adds to what it put is added to what all put.
LEMMA OneAdds ==
    ASSUME Numbers, NEW p \in Procs, added'[p] \in Nat,
           \A q \in Procs \ {p} : added[q] = added'[q]
    PROVE  Unadded' + added[p] = Unadded + added'[p] /\ Unadded \in Nat /\ Unadded' \in Nat
<1>1. \A q \in Procs : added[q] \in Nat /\ added'[q] \in Nat
    BY DEF Numbers
<1>2. SumOf(added', Procs) + added[p] = SumOf(added, Procs) + added'[p]
    BY <1>1, SumChanges, SizeAssumption
<1>3. SumOf(added', Procs) \in Nat
    BY <1>1, SumIsNat, SizeAssumption
<1>4. Unadded' = SumOf(added', Procs)
    BY DEF Unadded
<1>. QED  BY <1>2, <1>3, <1>4, UnaddedIsNat

LEMMA PutIsCounted ==
    ASSUME Numbers, LedgerCovers, PutInOrder, NEW p \in Procs, NEW b \in Blobs, Put(p, b)
    PROVE  PutInOrder' /\ LedgerCovers'
<1>1. /\ there' = there \cup {b} /\ added' = [added EXCEPT ![p] = added[p] + Size[b]]
      /\ UNCHANGED <<ledger, lost>> /\ Entries[b] \subseteq there
    BY DEF Put
<1>2. there \subseteq Blobs
    BY DEF PutInOrder, Grounded
<1>3. b \in Grounded
    BY <1>1 DEF PutInOrder, Grounded
<1>4. PutInOrder'
    BY <1>1, <1>3 DEF PutInOrder
<1>5. Size[b] \in Nat /\ added[p] \in Nat
    BY SizeAssumption DEF Numbers
<1>6. Unadded' + added[p] = Unadded + (added[p] + Size[b]) /\ Unadded \in Nat /\ Unadded' \in Nat
  <2>1. added'[p] = added[p] + Size[b] /\ \A q \in Procs \ {p} : added[q] = added'[q]
      BY <1>1 DEF Numbers
  <2>. QED  BY <1>5, <2>1, OneAdds
<1>7. Bytes(there') <= Bytes(there) + Size[b] /\ Bytes(there) \in Nat /\ Bytes(there') \in Nat
  <2>1. Bytes(there) \in Nat /\ there' \subseteq Blobs
      BY <1>1, <1>2, BytesAreNat
  <2>2. CASE b \in there
    <3>1. there' = there
        BY <1>1, <2>2
    <3>. QED  BY <1>5, <2>1, <3>1
  <2>3. CASE b \notin there
    <3>1. Bytes(there') = Size[b] + Bytes(there' \ {b})
        BY <1>1, <2>1, BytesTaken
    <3>2. there' \ {b} = there
        BY <1>1, <2>3
    <3>. QED  BY <3>1, <3>2, <1>5, <2>1
  <2>. QED  BY <2>2, <2>3
<1>8. LedgerCovers'
  <2>. SUFFICES ASSUME NEW n \in ledger
                PROVE  Bytes(there') <= n + Unadded' + lost
      BY <1>1 DEF LedgerCovers
  <2>1. Bytes(there) <= n + Unadded + lost /\ n \in Nat /\ lost \in Nat
      BY DEF LedgerCovers, Numbers
  <2>. QED  BY <2>1, <1>5, <1>6, <1>7
<1>. QED  BY <1>4, <1>8

LEMMA BuildKeepsBytes ==
    ASSUME BInv, NEW p \in Procs, Build(p)
    PROVE  BInv'
<1>. USE DEF BInv
<1>0. IInv'
    BY BuildKeepsCounts
<1>1. pc \in [Procs -> {"out", "in", "journalled", "added", "evicting"}]
    BY DEF IInv, Named
<1>2. phase' = "none"
  <2>1. ASSUME pc[p] \notin {"out", "evicting"}
        PROVE  phase = "none"
      BY <2>1, BuildsAreApart
  <2>2. CASE Open(p)
      BY <2>2 DEF Open, Aside, IInv, Exclusive
  <2>3. CASE Die(p)
      BY <2>3, <2>1 DEF Die, Aside, Idle
  <2>. QED
      BY <2>1, <2>2, <2>3 DEF Build, Journal, AddUp, Close, TryLock, Put, Find, Write, Hold, Aside
<1>3. TotalIsTrue' /\ OnlyNamedLeft' /\ LowOrBare'
    BY <1>2 DEF TotalIsTrue, OnlyNamedLeft, LowOrBare
<1>4. ASSUME UNCHANGED <<there, ledger, added, deaths, lost>>,
             \A q \in Procs : pc'[q] \in {"out", "added", "evicting"} =>
                 pc[q] \in {"out", "added", "evicting"}
      PROVE  BInv'
  <2>1. Numbers' /\ PutInOrder' /\ NothingLost'
      BY <1>4 DEF Numbers, PutInOrder, NothingLost
  <2>2. LedgerCovers'
      BY <1>4 DEF LedgerCovers, Unadded
  <2>. QED  BY <1>0, <1>3, <1>4, <2>1, <2>2
<1>5. CASE Open(p)
    BY <1>1, <1>4, <1>5 DEF Open, disk
<1>6. CASE Journal(p)
    BY <1>1, <1>4, <1>6 DEF Journal
<1>7. CASE TryLock(p)
    BY <1>1, <1>4, <1>7 DEF TryLock, disk
<1>8. ASSUME NEW r \in Records, Find(p, r) \/ Write(p, r)
      PROVE  BInv'
    BY <1>1, <1>4, <1>8 DEF Find, Write, disk
<1>9. ASSUME NEW s \in Scratches, Hold(p, s)
      PROVE  BInv'
    BY <1>1, <1>4, <1>9 DEF Hold
<1>10. ASSUME NEW b \in Blobs, Put(p, b)
       PROVE  BInv'
  <2>1. /\ UNCHANGED <<ledger, lost, deaths, pc>> /\ pc[p] = "in"
        /\ added' = [added EXCEPT ![p] = added[p] + Size[b]]
      BY <1>10 DEF Put
  <2>2. Size[b] \in Nat /\ added[p] \in Nat
      BY SizeAssumption DEF Numbers
  <2>3. Numbers' /\ NothingLost'
      BY <2>1, <2>2 DEF Numbers, NothingLost
  <2>. QED  BY <1>0, <1>3, <1>10, <2>1, <2>3, PutIsCounted
\* What p put goes to the ledger, or is lost.
<1>11. ASSUME there' = there, added' = [added EXCEPT ![p] = 0], deaths' \in Nat,
              NEW n \in Nat, NEW m \in Nat, \A l \in ledger' : \E k \in ledger : l = k + n,
              lost' = lost + m, added[p] = n + m, m = 0 \/ p \in Unlimited \/ deaths' # 0,
              deaths = 0 \/ deaths' # 0,
              \A q \in Procs \ {p} : pc'[q] = pc[q]
       PROVE  BInv'
  <2>1. Numbers' /\ PutInOrder'
    <3>1. added' \in [Procs -> Nat] /\ lost' \in Nat
        BY <1>11 DEF Numbers
    <3>2. ledger' \subseteq Nat
        BY <1>11 DEF Numbers
    <3>. QED  BY <1>11, <3>1, <3>2 DEF Numbers, PutInOrder
  <2>2. NothingLost'
      BY <1>11 DEF NothingLost, Numbers
  <2>3. Unadded' + (n + m) = Unadded + 0 /\ Unadded \in Nat /\ Unadded' \in Nat
    <3>1. added'[p] = 0 /\ \A q \in Procs \ {p} : added[q] = added'[q]
        BY <1>11 DEF Numbers
    <3>. QED  BY <1>11, <3>1, OneAdds
  <2>4. LedgerCovers'
    <3>. SUFFICES ASSUME NEW l \in ledger'
                  PROVE  Bytes(there) <= l + Unadded' + (lost + m)
        BY <1>11 DEF LedgerCovers
    <3>0. PICK k \in ledger : l = k + n
        BY <1>11
    <3>1. Bytes(there) <= k + Unadded + lost /\ k \in Nat /\ lost \in Nat
        BY DEF LedgerCovers, Numbers
    <3>2. Bytes(there) \in Nat
        BY BytesAreNat DEF PutInOrder, Grounded
    <3>. QED  BY <1>11, <2>3, <3>0, <3>1, <3>2
  <2>. QED  BY <1>0, <1>3, <1>11, <2>1, <2>2, <2>4
<1>12. (\A k \in ledger : k = k + 0) /\ added[p] \in Nat
    BY DEF Numbers
<1>13. CASE AddUp(p)
  <2>1. /\ there' = there /\ added' = [added EXCEPT ![p] = 0] /\ deaths' = deaths /\ lost' = lost + 0
        /\ ledger' = {k + added[p] : k \in ledger} /\ \A q \in Procs \ {p} : pc'[q] = pc[q]
      BY <1>1, <1>13 DEF AddUp, Numbers
  <2>. QED  BY <1>11, <1>12, <2>1
<1>14. CASE Close(p)
  <2>1. /\ there' = there /\ added' = [added EXCEPT ![p] = 0] /\ deaths' = deaths
        /\ lost' = lost + added[p] /\ ledger' = ledger /\ p \in Unlimited
        /\ \A q \in Procs \ {p} : pc'[q] = pc[q]
      BY <1>1, <1>12, <1>14 DEF Close, Out, disk
  <2>. QED  BY <1>11, <1>12, <2>1
<1>15. CASE Die(p)
  <2>1. /\ there' = there /\ added' = [added EXCEPT ![p] = 0] /\ deaths' = deaths + 1
        /\ lost' = lost + added[p] /\ ledger' = ledger
        /\ \A q \in Procs \ {p} : pc'[q] = pc[q]
      BY <1>1, <1>12, <1>15 DEF Die, Out, disk
  <2>. QED  BY <1>11, <1>12, <2>1
<1>. QED
    BY <1>5, <1>6, <1>7, <1>8, <1>9, <1>10, <1>13, <1>14, <1>15 DEF Build

\* With no record standing and nothing to be let go of, what is there is named
\* by trees that are there, and no such blobs can be put.
LEMMA BareAtLast ==
    ASSUME BInv, phase = "records", letting = {}, heap = {}
    PROVE  there = {}
<1>. USE DEF BInv
<1>. SUFFICES ASSUME there # {}
              PROVE  FALSE
    OBVIOUS
<1>1. PICK b \in there : \A t \in there : b \notin Entries[t]
    BY OneIsUnnamed DEF PutInOrder
<1>2. b \in seen /\ named[b] # 0
    BY DEF IInv, Losing, Counting, OnlyNamedLeft
<1>3. named[b] = Cardinality(Namers(b))
    BY <1>2 DEF IInv, CountsRight
<1>4. Standing = {}
    BY DEF Standing
<1>5. Namers(b) = {}
    BY <1>1, <1>4 DEF Namers, Naming
<1>. QED  BY <1>2, <1>3, <1>5, FS_EmptySet

\* A blob that goes is counted out.
LEMMA RemovedIsCounted ==
    ASSUME BInv, phase # "none", NEW b \in there, Remove(b),
           UNCHANGED <<scratch, added, lost, ledger>>
    PROVE  /\ PutInOrder' /\ LedgerCovers' /\ Numbers'
           /\ total' = Bytes(there') + Bytes(scratch')
<1>. USE DEF BInv
<1>1. there' = there \ {b} /\ total' = total - Size[b]
    BY DEF Remove
<1>2. there \subseteq Blobs /\ scratch \subseteq Scratches
    BY DEF IInv, Named
<1>3. /\ Bytes(there) = Size[b] + Bytes(there') /\ Size[b] \in Nat /\ Bytes(there') \in Nat
      /\ Bytes(scratch) \in Nat
    BY <1>1, <1>2, BytesTaken, BytesAreNat
<1>4. PutInOrder' /\ Numbers'
    BY <1>1 DEF PutInOrder, Numbers
<1>5. total' = Bytes(there') + Bytes(scratch')
    BY <1>1, <1>3 DEF TotalIsTrue
<1>6. Unadded' = Unadded /\ Unadded \in Nat
    BY UnaddedIsNat DEF Unadded
<1>7. LedgerCovers'
  <2>. SUFFICES ASSUME NEW n \in ledger
                PROVE  Bytes(there') <= n + Unadded + lost
      BY <1>6 DEF LedgerCovers
  <2>1. Bytes(there) <= n + Unadded + lost /\ n \in Nat /\ lost \in Nat
      BY DEF LedgerCovers, Numbers
  <2>. QED  BY <2>1, <1>3, <1>6
<1>. QED  BY <1>4, <1>5, <1>7

LEMMA EvictKeepsBytes ==
    ASSUME BInv, NEW p \in Procs, Evict(p)
    PROVE  BInv'
<1>. USE DEF BInv
<1>0. IInv'
    BY EvictKeepsCounts
<1>1. pc \in [Procs -> {"out", "in", "journalled", "added", "evicting"}] /\ pc[p] = "evicting"
    BY DEF IInv, Named, Evict, Trust, Measure, Begin, RemoveUnnamed, UnnamedGone, EvictRecord,
           EvictScratch, LetGo, Evicted, Save, RemoveJournal, Finish, Evicting
<1>2. there \subseteq Blobs /\ scratch \subseteq Scratches /\ named \in [Blobs -> Nat]
    BY DEF IInv, Named
<1>3. Bytes(there) \in Nat /\ Bytes(scratch) \in Nat /\ Unadded \in Nat
    BY <1>2, BytesAreNat, UnaddedIsNat
\* What leaves alone the store's blobs and what is counted of them.
<1>4. ASSUME UNCHANGED <<there, added, deaths, lost, ledger>>, pc' = pc \/ Out(p),
             TotalIsTrue', OnlyNamedLeft', LowOrBare'
      PROVE  BInv'
  <2>1. Numbers' /\ PutInOrder'
      BY <1>4 DEF Numbers, PutInOrder
  <2>2. NothingLost'
      BY <1>1, <1>4 DEF NothingLost, Out
  <2>3. LedgerCovers'
      BY <1>4 DEF LedgerCovers, Unadded
  <2>. QED  BY <1>0, <1>4, <2>1, <2>2, <2>3
\* A walk of the store makes the ledger right.
<1>5. ASSUME UNCHANGED <<there, added, deaths>>, Out(p), lost' = 0, phase' = "none",
             ledger' = {Bytes(there)}
      PROVE  BInv'
  <2>1. Numbers' /\ PutInOrder'
      BY <1>3, <1>5 DEF Numbers, PutInOrder
  <2>2. NothingLost'
      BY <1>1, <1>5 DEF NothingLost, Out
  <2>3. LedgerCovers'
    <3>1. Unadded' = Unadded
        BY <1>5 DEF Unadded
    <3>. QED  BY <1>3, <1>5, <3>1 DEF LedgerCovers
  <2>4. TotalIsTrue' /\ OnlyNamedLeft' /\ LowOrBare'
      BY <1>5 DEF TotalIsTrue, OnlyNamedLeft, LowOrBare
  <2>. QED  BY <1>0, <1>5, <2>1, <2>2, <2>3, <2>4
<1>6. CASE Trust(p)
  <2>1. TotalIsTrue' /\ OnlyNamedLeft' /\ LowOrBare'
      BY <1>6 DEF Trust, Evicting, Aside, TotalIsTrue, OnlyNamedLeft, LowOrBare
  <2>. QED  BY <1>4, <1>6, <2>1 DEF Trust, disk
<1>7. CASE Measure(p)
    BY <1>5, <1>7 DEF Measure, Evicting, Aside
<1>8. CASE Begin(p)
  <2>1. /\ UNCHANGED <<there, scratch, ledger, added, deaths, lost, pc>> /\ phase' = "unnamed"
        /\ dirs' = scratch /\ total' = Bytes(there) + Bytes(scratch)
      BY <1>8 DEF Begin, disk, builds
  <2>2. TotalIsTrue' /\ OnlyNamedLeft' /\ LowOrBare'
      BY <2>1 DEF TotalIsTrue, OnlyNamedLeft, LowOrBare
  <2>. QED  BY <1>4, <2>1, <2>2
<1>9. CASE RemoveUnnamed(p)
  <2>1. PICK b \in Unnamed : Remove(b)
      BY <1>9 DEF RemoveUnnamed
  <2>2. /\ b \in there /\ phase = "unnamed" /\ phase' = "unnamed"
        /\ UNCHANGED <<scratch, ledger, added, deaths, lost, pc, dirs>>
      BY <1>9, <2>1 DEF Unnamed, RemoveUnnamed, Evicting, memory, builds
  <2>3. PutInOrder' /\ LedgerCovers' /\ Numbers' /\ TotalIsTrue'
      BY <2>1, <2>2, RemovedIsCounted DEF TotalIsTrue
  <2>4. OnlyNamedLeft' /\ LowOrBare' /\ NothingLost'
      BY <2>2 DEF OnlyNamedLeft, LowOrBare, NothingLost
  <2>. QED  BY <1>0, <2>2, <2>3, <2>4
<1>10. CASE UnnamedGone(p)
  <2>1. /\ UNCHANGED <<there, scratch, ledger, added, deaths, lost, pc, total, named, seen, dirs, live>>
        /\ phase = "unnamed" /\ (total <= Low \/ Unnamed = {})
        /\ phase' = IF total <= Low THEN "saving" ELSE "records"
        /\ heap' = IF total <= Low THEN {} ELSE live \cup dirs
      BY <1>10 DEF UnnamedGone, Evicting, disk, builds, memory
  <2>2. TotalIsTrue' /\ LowOrBare'
      BY <2>1 DEF TotalIsTrue, LowOrBare
  <2>3. OnlyNamedLeft'
    <3>1. CASE total <= Low
        BY <2>1, <3>1 DEF OnlyNamedLeft
    <3>2. CASE ~(total <= Low)
      <4>1. there \subseteq seen /\ live \cap Scratches = {} /\ dirs = scratch
          BY <2>1, SizeAssumption DEF IInv, Losing, Counting, Named, OnlyNamedLeft
      <4>2. \A b \in there : named[b] # 0
          BY <2>1, <3>2, <4>1 DEF Unnamed
      <4>. QED  BY <2>1, <3>2, <4>1, <4>2 DEF OnlyNamedLeft
    <3>. QED  BY <3>1, <3>2
  <2>. QED  BY <1>4, <2>1, <2>2, <2>3
<1>11. ASSUME NEW r \in Records, EvictRecord(p, r)
       PROVE  BInv'
  <2>1. /\ UNCHANGED <<there, scratch, ledger, added, deaths, lost, pc, total, named, dirs, phase>>
        /\ heap' \subseteq heap /\ phase = "records"
      BY <1>11 DEF EvictRecord, Evicting, disk, builds
  <2>2. TotalIsTrue' /\ LowOrBare' /\ OnlyNamedLeft'
      BY <2>1 DEF TotalIsTrue, LowOrBare, OnlyNamedLeft
  <2>. QED  BY <1>4, <2>1, <2>2
<1>12. ASSUME NEW e \in letting, LetGo(p, e)
       PROVE  BInv'
  <2>1. /\ UNCHANGED <<scratch, ledger, added, deaths, lost, pc, dirs, phase, heap>>
        /\ phase = "records" /\ named' = [named EXCEPT ![e[2]] = @ - 1]
      BY <1>12 DEF LetGo, Evicting, builds
  <2>2. e \in Edges /\ e[2] \in seen /\ e[2] \in Blobs
      BY <2>1 DEF IInv, Named, LettingGo
  <2>3. e \in Namers(e[2])
      BY <2>2 DEF Namers
  <2>4. named[e[2]] # 0 /\ e[2] \in there
      BY <2>1, <2>2, <2>3, NamedIsCounted DEF IInv, Losing, Counting
  <2>5. /\ named'[e[2]] = named[e[2]] - 1 /\ named[e[2]] \in Nat
        /\ \A b \in Blobs \ {e[2]} : named'[b] = named[b]
      BY <1>2, <2>1, <2>2
  <2>6. OnlyNamedLeft'
    <3>1. \A b \in there' : named'[b] # 0
        BY <1>2, <1>12, <2>1, <2>4, <2>5 DEF LetGo, Remove, OnlyNamedLeft
    <3>. QED  BY <2>1, <3>1 DEF OnlyNamedLeft
  <2>7. LowOrBare' /\ NothingLost'
      BY <2>1 DEF LowOrBare, NothingLost
  <2>8. PutInOrder' /\ LedgerCovers' /\ Numbers' /\ TotalIsTrue'
    <3>1. CASE named[e[2]] = 1
      <4>1. Remove(e[2])
          BY <1>12, <3>1 DEF LetGo
      <4>. QED  BY <2>1, <2>4, <4>1, RemovedIsCounted DEF TotalIsTrue
    <3>2. CASE named[e[2]] # 1
      <4>1. UNCHANGED <<there, total>>
          BY <1>12, <3>2 DEF LetGo
      <4>. QED  BY <2>1, <4>1 DEF PutInOrder, LedgerCovers, Unadded, Numbers, TotalIsTrue
    <3>. QED  BY <3>1, <3>2
  <2>. QED  BY <1>0, <2>1, <2>6, <2>7, <2>8
<1>13. ASSUME NEW s \in Scratches, EvictScratch(p, s)
       PROVE  BInv'
  <2>1. /\ UNCHANGED <<there, ledger, added, deaths, lost, pc, named, dirs, phase>>
        /\ phase = "records" /\ heap' = heap \ {s} /\ s \in heap
        /\ \/ scratch' = scratch \ {s} /\ total' = total - Size[s]
           \/ UNCHANGED <<scratch, total>>
      BY <1>13 DEF EvictScratch, Evicting, Lowest, disk, builds
  <2>2. s \in scratch
      BY <2>1 DEF OnlyNamedLeft
  <2>3. TotalIsTrue'
    <3>1. /\ Bytes(scratch) = Size[s] + Bytes(scratch \ {s}) /\ Size[s] \in Nat
          /\ Bytes(scratch \ {s}) \in Nat
        BY <1>2, <2>2, BytesTaken
    <3>2. total = Bytes(there) + Bytes(scratch)
        BY <2>1 DEF TotalIsTrue
    <3>3. CASE scratch' = scratch \ {s} /\ total' = total - Size[s]
        BY <1>3, <2>1, <3>1, <3>2, <3>3 DEF TotalIsTrue
    <3>4. CASE UNCHANGED <<scratch, total>>
        BY <2>1, <3>2, <3>4 DEF TotalIsTrue
    <3>. QED  BY <2>1, <3>3, <3>4
  <2>4. LowOrBare' /\ OnlyNamedLeft'
      BY <2>1 DEF LowOrBare, OnlyNamedLeft
  <2>. QED  BY <1>4, <2>1, <2>3, <2>4
<1>14. CASE Evicted(p)
  <2>1. /\ UNCHANGED <<there, scratch, ledger, added, deaths, lost, pc, total>>
        /\ phase = "records" /\ phase' = "saving" /\ letting = {} /\ (total <= Low \/ heap = {})
      BY <1>14 DEF Evicted, Evicting, disk, builds, work
  <2>2. TotalIsTrue' /\ OnlyNamedLeft'
      BY <2>1 DEF TotalIsTrue, OnlyNamedLeft
  <2>3. LowOrBare'
      BY <2>1, BareAtLast DEF LowOrBare
  <2>. QED  BY <1>4, <2>1, <2>2, <2>3
<1>15. CASE Save(p)
  <2>1. /\ UNCHANGED <<there, scratch, ledger, added, deaths, lost, pc, total>>
        /\ phase = "saving" /\ phase' = "journals"
      BY <1>15 DEF Save, Evicting, builds, work
  <2>2. TotalIsTrue' /\ OnlyNamedLeft' /\ LowOrBare'
      BY <2>1 DEF TotalIsTrue, OnlyNamedLeft, LowOrBare
  <2>. QED  BY <1>4, <2>1, <2>2
<1>16. CASE RemoveJournal(p)
  <2>1. /\ UNCHANGED <<there, scratch, ledger, added, deaths, lost, pc, total, phase>>
        /\ phase = "journals"
      BY <1>16 DEF RemoveJournal, Evicting, builds, work
  <2>2. TotalIsTrue' /\ OnlyNamedLeft' /\ LowOrBare'
      BY <2>1 DEF TotalIsTrue, OnlyNamedLeft, LowOrBare
  <2>. QED  BY <1>4, <2>1, <2>2
<1>17. CASE Finish(p)
  <2>1. total = Bytes(there) + Bytes(scratch)
      BY <1>17 DEF Finish, Evicting, TotalIsTrue
  <2>2. ledger' = {Bytes(there)}
      BY <1>3, <1>17, <2>1 DEF Finish
  <2>. QED  BY <1>5, <1>17, <2>2 DEF Finish, Idle
<1>. QED
    BY <1>6, <1>7, <1>8, <1>9, <1>10, <1>11, <1>12, <1>13, <1>14, <1>15, <1>16, <1>17 DEF Evict

LEMMA BytesInductive == BInv /\ [Next]_vars => BInv'
<1>. SUFFICES ASSUME BInv, [Next]_vars
              PROVE  BInv'
    OBVIOUS
<1>1. CASE Next
    BY <1>1, BuildKeepsBytes, EvictKeepsBytes DEF Next
<1>2. CASE UNCHANGED vars
  <2>1. IInv'
      BY <1>2, StutteringKeepsCounts DEF BInv
  <2>2. UNCHANGED <<there, scratch, ledger, added, deaths, lost, pc, total, phase, dirs, heap, named>>
      BY <1>2 DEF vars, disk, builds, memory, work
  <2>3. LedgerCovers'
      BY <2>2 DEF BInv, LedgerCovers, Unadded
  <2>. QED
      BY <2>1, <2>2, <2>3 DEF BInv, Numbers, PutInOrder, TotalIsTrue, OnlyNamedLeft, LowOrBare,
                              NothingLost
<1>. QED  BY <1>1, <1>2

LEMMA BytesAlways == Spec => []BInv
BY BytesInitially, BytesInductive, PTL DEF Spec

\* An eviction comes to its end knowing the store's true size, at its low mark
\* or with every blob gone, whatever was let go of in whatever order: its
\* running count is never off, and no blob is left that only what was removed
\* named (evict.rs, evict_to).
THEOREM EvictionsReachLow == Spec => []ReachesLow
<1>1. BInv => ReachesLow
    BY DEF BInv, TotalIsTrue, LowOrBare, ReachesLow
<1>. QED  BY <1>1, BytesAlways, PTL

\* The ledger, with what running builds are to add and what those that add
\* nothing put, is at least what the store holds (evict.rs, Ledger).
THEOREM LedgersCover == Spec => []LedgerCovers
<1>1. BInv => LedgerCovers
    BY DEF BInv
<1>. QED  BY <1>1, BytesAlways, PTL

\* What the docs say of the ledger holds where every build has a limit: that it
\* is never too small while none runs and none was killed
\* (8--maintenance/1--eviction.md).
THEOREM LimitedLedgersNeverHide ==
    ASSUME Unlimited = {}
    PROVE  Spec => []LedgerNeverHides
<1>1. BInv => LedgerNeverHides
  <2>. SUFFICES ASSUME BInv, deaths = 0, \A p \in Procs : pc[p] = "out", NEW n \in ledger
                PROVE  Bytes(there) <= n
      BY DEF LedgerNeverHides
  <2>1. lost = 0 /\ \A p \in Procs : added[p] = 0
      BY DEF BInv, NothingLost
  <2>2. Unadded = 0
      BY <2>1, SumOfZeros, UnaddedIsNat, SizeAssumption DEF BInv
  <2>3. n \in Nat /\ Bytes(there) <= n + Unadded + lost
      BY DEF BInv, LedgerCovers, Numbers
  <2>4. Bytes(there) \in Nat
      BY BytesAreNat DEF BInv, PutInOrder, Grounded
  <2>. QED  BY <2>1, <2>2, <2>3, <2>4
<1>. QED  BY <1>1, BytesAlways, PTL
=============================================================================
