---------------------------- MODULE RemoteProofs ----------------------------
(***************************************************************************)
(* Of Remote, for any builds, steps, stores, keys and contents, and any    *)
(* number of calls that fail and of things the cache drops: in a store a   *)
(* record is of what the store holds, and in the cache a result of what    *)
(* the cache has, unless it dropped some of it; what a build made is in    *)
(* the cache as it ends, unless a call of it failed; a store that one step *)
(* uses keeps its manifest's sets; and few calls fail.                     *)
(*                                                                         *)
(* The first two are not inductive: a record is written long after its     *)
(* contents are, by a thread that holds it in hand.  InHand says what each *)
(* thread has seen to of what it holds, and WillUpload how far what a step *)
(* made has come.                                                          *)
(***************************************************************************)
EXTENDS Remote, FiniteSetTheorems, TLAPS

Holding == {"getting", "storing", "merging", "writing", "putting"}

\* What a step has in hand: a result of its job's key; while it is got, all
\* that is not in the store is wanted; once it is to be stored, all of it is
\* there; while it is put, all that is not in the cache is wanted, unless the
\* cache dropped it since.
InHand(s) ==
    /\ at[s] \in Holding => got[s] \in ResultsOf(key[s])
    /\ at[s] \in {"merging", "writing"} => key[s] = Manifest
    /\ at[s] = "storing" => /\ key[s] # Manifest
                            /\ Named(got[s].record) \subseteq holds[Of(s)]
    /\ at[s] = "getting" => /\ got[s].names = Named(got[s].record)
                            /\ wanted[s] \subseteq got[s].names
                            /\ got[s].names \subseteq holds[Of(s)] \cup wanted[s]
    /\ at[s] = "kept" => /\ made[s] \in Gives[KeyOf[s]]
                         /\ Names[made[s]] \subseteq holds[Of(s)]
    /\ at[s] = "putting" =>
          /\ got[s].names = Named(got[s].record)
          /\ dropped = 0 => got[s].names \cup {got[s].record} \subseteq cas \cup wanted[s]

AllInHand == \A s \in Step : InHand(s)

IInv == TypeOK /\ AllInHand /\ RecordsWhole /\ ResultsWhole

-----------------------------------------------------------------------------
(* What the definitions come to. *)

\* Each step's store is a store, and its key one that things are kept by.
LEMMA Ofs ==
    ASSUME NEW s \in Step
    PROVE  /\ BuildOf[s] \in Build /\ Of(s) \in Store
           /\ KeyOf[s] \in Key /\ KeyOf[s] \in Kept /\ KeyOf[s] # Manifest
           /\ Gives[KeyOf[s]] \subseteq Outcome
  BY StepsAssumption, NamesAssumption DEF Of, Store, Kept

\* What a run gives is by its step's key, and names contents.
LEMMA Outcomes ==
    ASSUME NEW k \in Kept
    PROVE  /\ RecordsOf(k) \subseteq Value /\ None \notin RecordsOf(k)
           /\ \A v \in RecordsOf(k) : Named(v) \subseteq Content
           /\ k # Manifest => RecordsOf(k) \subseteq Outcome
           /\ ResultsOf(k) \subseteq Results
  BY StepsAssumption, NamesAssumption
     DEF RecordsOf, Value, Manifests, Named, Kept, ResultsOf, Results

\* A manifest names no contents.
LEMMA ManifestsName ==
    \A v \in Manifests : Named(v) = {} /\ v.sets \subseteq Key /\ v # None
  BY NamesAssumption DEF Manifests, Named

\* A store's sets are of keys.
LEMMA SetsAre ==
    ASSUME NEW st \in Store, StoreTypes
    PROVE  Sets(st) \subseteq Key
  BY NamesAssumption DEF StoreTypes, Sets, RecordsOf, Manifests, Kept

\* A record of its key is put into a store.
LEMMA RecordPut ==
    ASSUME NEW st \in Store, NEW k \in Kept, NEW v \in RecordsOf(k), StoreTypes,
           records' = [records EXCEPT ![st] = [@ EXCEPT ![k] = v]], UNCHANGED holds
    PROVE  StoreTypes'
<1>1. v \in Value
  BY Outcomes
<1>2. records' \in [Store -> [Kept -> Value \cup {None}]]
  BY <1>1 DEF StoreTypes
<1>3. \A t \in Store, l \in Kept : records'[t][l] = IF t = st /\ l = k THEN v ELSE records[t][l]
  BY DEF StoreTypes
<1>4. QED
  BY <1>2, <1>3 DEF StoreTypes

-----------------------------------------------------------------------------
(* Types. *)

LEMMA TypesStep ==
    ASSUME TypeOK, AllInHand, [Next]_vars
    PROVE  TypeOK'
<1> USE DEF TypeOK
<1>1. ASSUME NEW s \in Step, LookUp(s) PROVE TypeOK'
  <2>1. StoreTypes'
    BY <1>1, Ofs, SetsAre DEF LookUp, StoreTypes, disk
  <2>2. CacheTypes'
    BY <1>1, Ofs DEF LookUp, CacheTypes, cache, Blob
  <2>3. PlaceTypes'
    BY <1>1, Ofs DEF LookUp, PlaceTypes, Goes, Queue, OnThread, OnMain, Kept
  <2>4. WorkTypes'
    BY <1>1, Ofs, SetsAre DEF LookUp, WorkTypes, Forgets
  <2>5. QED
    BY <2>1, <2>2, <2>3, <2>4
<1>2. ASSUME NEW s \in Step, Looked(s) PROVE TypeOK'
  <2>1. StoreTypes'
    BY <1>2, Ofs, SetsAre DEF Looked, StoreTypes, disk
  <2>2. CacheTypes'
    BY <1>2, Ofs DEF Looked, CacheTypes, cache, Blob
  <2>3. PlaceTypes'
    BY <1>2, Ofs DEF Looked, PlaceTypes, Goes, Queue, OnThread, OnMain, Kept
  <2>4. WorkTypes'
    BY <1>2, Ofs, SetsAre DEF Looked, WorkTypes, Forgets
  <2>5. QED
    BY <2>1, <2>2, <2>3, <2>4
<1>3. ASSUME NEW s \in Step, Run(s) PROVE TypeOK'
  <2>1. StoreTypes'
    <3>1. PICK o \in Gives[KeyOf[s]] : holds' = [holds EXCEPT ![Of(s)] = @ \cup Names[o]]
      BY <1>3 DEF Run
    <3>2. Names[o] \subseteq Content
      BY Ofs, StepsAssumption
    <3>3. QED
      BY <3>1, <3>2, <1>3, Ofs DEF Run, StoreTypes
  <2>2. CacheTypes'
    BY <1>3, Ofs DEF Run, CacheTypes, cache, Blob
  <2>3. PlaceTypes'
    BY <1>3, Ofs DEF Run, PlaceTypes, Goes, Queue, OnThread, OnMain, Kept
  <2>4. WorkTypes'
    BY <1>3, Ofs, SetsAre DEF Run, WorkTypes, Forgets
  <2>5. QED
    BY <2>1, <2>2, <2>3, <2>4
<1>4. ASSUME NEW s \in Step, Record(s) PROVE TypeOK'
  <2>1. StoreTypes'
    <3>1. made[s] \in RecordsOf(KeyOf[s])
      BY <1>4, Ofs DEF Record, AllInHand, InHand, RecordsOf
    <3>2. QED
      BY <3>1, <1>4, Ofs, RecordPut DEF Record
  <2>2. CacheTypes'
    BY <1>4, Ofs DEF Record, CacheTypes, cache, Blob
  <2>3. PlaceTypes'
    BY <1>4, Ofs DEF Record, PlaceTypes, Goes, Queue, OnThread, OnMain, Kept
  <2>4. WorkTypes'
    BY <1>4, Ofs, SetsAre DEF Record, WorkTypes, Forgets
  <2>5. QED
    BY <2>1, <2>2, <2>3, <2>4
<1>5. ASSUME NEW s \in Step, RememberRead(s) PROVE TypeOK'
  <2>1. StoreTypes'
    BY <1>5, Ofs, SetsAre DEF RememberRead, StoreTypes, disk
  <2>2. CacheTypes'
    BY <1>5, Ofs DEF RememberRead, CacheTypes, cache, Blob
  <2>3. PlaceTypes'
    BY <1>5, Ofs DEF RememberRead, PlaceTypes, Goes, Queue, OnThread, OnMain, Kept
  <2>4. WorkTypes'
    BY <1>5, Ofs, SetsAre DEF RememberRead, WorkTypes, Forgets
  <2>5. QED
    BY <2>1, <2>2, <2>3, <2>4
<1>6. ASSUME NEW s \in Step, RememberWrite(s) PROVE TypeOK'
  <2>1. StoreTypes'
    <3>1. [sets |-> had[s] \cup {KeyOf[s]}] \in RecordsOf(Manifest)
      BY Ofs DEF WorkTypes, RecordsOf, Manifests
    <3>2. Manifest \in Kept
      BY DEF Kept
    <3>3. CASE UNCHANGED records
      BY <3>3, <1>6 DEF RememberWrite, StoreTypes
    <3>4. CASE records' = [records EXCEPT ![Of(s)] =
                  [@ EXCEPT ![Manifest] = [sets |-> had[s] \cup {KeyOf[s]}]]]
      BY <3>1, <3>2, <3>4, <1>6, Ofs, RecordPut DEF RememberWrite
    <3>5. QED
      BY <3>3, <3>4, <1>6 DEF RememberWrite
  <2>2. CacheTypes'
    BY <1>6, Ofs DEF RememberWrite, CacheTypes, cache, Blob
  <2>3. PlaceTypes'
    BY <1>6, Ofs DEF RememberWrite, PlaceTypes, Goes, Queue, OnThread, OnMain, Kept
  <2>4. WorkTypes'
    BY <1>6, Ofs, SetsAre DEF RememberWrite, WorkTypes, Forgets
  <2>5. QED
    BY <2>1, <2>2, <2>3, <2>4
<1>7. ASSUME NEW s \in Step, Uploaded(s) PROVE TypeOK'
  <2>1. StoreTypes'
    BY <1>7, Ofs, SetsAre DEF Uploaded, StoreTypes, disk
  <2>2. CacheTypes'
    BY <1>7, Ofs DEF Uploaded, CacheTypes, cache, Blob
  <2>3. PlaceTypes'
    BY <1>7, Ofs DEF Uploaded, PlaceTypes, Goes, Queue, OnThread, OnMain, Kept
  <2>4. WorkTypes'
    BY <1>7, Ofs, SetsAre DEF Uploaded, WorkTypes, Forgets
  <2>5. QED
    BY <2>1, <2>2, <2>3, <2>4
<1>8. ASSUME NEW s \in Step, Begin(s) PROVE TypeOK'
  <2>1. StoreTypes'
    BY <1>8, Ofs, SetsAre DEF Begin, StoreTypes, disk
  <2>2. CacheTypes'
    BY <1>8, Ofs DEF Begin, CacheTypes, cache, Blob
  <2>3. PlaceTypes'
    BY <1>8, Ofs DEF Begin, PlaceTypes, Goes, Queue, OnThread, OnMain, Kept
  <2>4. WorkTypes'
    BY <1>8, Ofs, SetsAre DEF Begin, WorkTypes, Forgets
  <2>5. QED
    BY <2>1, <2>2, <2>3, <2>4
<1>9. ASSUME NEW s \in Step, AskNot(s) PROVE TypeOK'
  <2>1. StoreTypes'
    BY <1>9, Ofs, SetsAre DEF AskNot, StoreTypes, disk
  <2>2. CacheTypes'
    BY <1>9, Ofs DEF AskNot, CacheTypes, cache, Blob
  <2>3. PlaceTypes'
    BY <1>9, Ofs DEF AskNot, PlaceTypes, Goes, WithNone, OnThread, OnMain, Kept
  <2>4. WorkTypes'
    BY <1>9, Ofs, SetsAre DEF AskNot, WorkTypes, Forgets
  <2>5. QED
    BY <2>1, <2>2, <2>3, <2>4
<1>10. ASSUME NEW s \in Step, AskNone(s) PROVE TypeOK'
  <2>1. StoreTypes'
    BY <1>10, Ofs, SetsAre DEF AskNone, StoreTypes, disk
  <2>2. CacheTypes'
    BY <1>10, Ofs DEF AskNone, CacheTypes, cache, Blob
  <2>3. PlaceTypes'
    BY <1>10, Ofs DEF AskNone, PlaceTypes, Goes, WithNone, OnThread, OnMain, Kept
  <2>4. WorkTypes'
    BY <1>10, Ofs, SetsAre DEF AskNone, WorkTypes, Forgets
  <2>5. QED
    BY <2>1, <2>2, <2>3, <2>4
<1>11. ASSUME NEW s \in Step, AskFound(s) PROVE TypeOK'
  <2>1. StoreTypes'
    BY <1>11, Ofs, SetsAre DEF AskFound, StoreTypes, disk
  <2>2. CacheTypes'
    BY <1>11, Ofs DEF AskFound, CacheTypes, cache, Blob
  <2>3. PlaceTypes'
    BY <1>11, Ofs DEF AskFound, PlaceTypes, Goes, Queue, OnThread, OnMain, Kept
  <2>4. WorkTypes'
    <3>1. results[key[s]] \in Results
      BY <1>11 DEF AskFound, InCache, CacheTypes, PlaceTypes
    <3>2. results[key[s]].names \ holds[Of(s)] \subseteq Blob
      BY <3>1 DEF Results, Blob
    <3>3. QED
      BY <3>1, <3>2, <1>11 DEF AskFound, WorkTypes
  <2>5. QED
    BY <2>1, <2>2, <2>3, <2>4
<1>12. ASSUME NEW s \in Step, Get(s) PROVE TypeOK'
  <2>1. StoreTypes'
    <3>1. got[s] \in Results /\ wanted[s] \subseteq got[s].names
      BY <1>12, Outcomes DEF Get, AllInHand, InHand, Holding, PlaceTypes
    <3>2. wanted[s] \subseteq Content
      BY <3>1 DEF Results
    <3>3. QED
      BY <3>2, <1>12, Ofs DEF Get, StoreTypes
  <2>2. CacheTypes'
    BY <1>12, Ofs DEF Get, CacheTypes, cache, Blob
  <2>3. PlaceTypes'
    BY <1>12, Ofs DEF Get, PlaceTypes, Goes, Queue, OnThread, OnMain, Kept
  <2>4. WorkTypes'
    BY <1>12, Ofs, SetsAre DEF Get, WorkTypes, Forgets
  <2>5. QED
    BY <2>1, <2>2, <2>3, <2>4
<1>13. ASSUME NEW s \in Step, Read(s) PROVE TypeOK'
  <2>1. StoreTypes'
    BY <1>13, Ofs, SetsAre DEF Read, StoreTypes, disk
  <2>2. CacheTypes'
    BY <1>13, Ofs DEF Read, CacheTypes, cache, Blob
  <2>3. PlaceTypes'
    BY <1>13, Ofs DEF Read, PlaceTypes, Goes, Queue, OnThread, OnMain, Kept
  <2>4. WorkTypes'
    BY <1>13, Ofs, SetsAre DEF Read, WorkTypes, Forgets
  <2>5. QED
    BY <2>1, <2>2, <2>3, <2>4
<1>14. ASSUME NEW s \in Step, Lost(s) PROVE TypeOK'
  <2>1. StoreTypes'
    BY <1>14, Ofs, SetsAre DEF Lost, StoreTypes, disk
  <2>2. CacheTypes'
    BY <1>14, Ofs DEF Lost, CacheTypes, cache, Blob
  <2>3. PlaceTypes'
    BY <1>14, Ofs DEF Lost, PlaceTypes, Goes, Queue, OnThread, OnMain, Kept
  <2>4. WorkTypes'
    BY <1>14, Ofs, SetsAre DEF Lost, WorkTypes, Forgets
  <2>5. QED
    BY <2>1, <2>2, <2>3, <2>4
<1>15. ASSUME NEW s \in Step, StoreRecord(s) PROVE TypeOK'
  <2>1. StoreTypes'
    <3>1. got[s] \in ResultsOf(KeyOf[s])
      BY <1>15 DEF StoreRecord, AllInHand, InHand, Holding, PlaceTypes
    <3>2. got[s].record \in RecordsOf(KeyOf[s])
      BY <3>1 DEF ResultsOf
    <3>3. QED
      BY <3>2, <1>15, Ofs, RecordPut DEF StoreRecord
  <2>2. CacheTypes'
    BY <1>15, Ofs DEF StoreRecord, CacheTypes, cache, Blob
  <2>3. PlaceTypes'
    BY <1>15, Ofs DEF StoreRecord, PlaceTypes, Goes, Queue, OnThread, OnMain, Kept
  <2>4. WorkTypes'
    BY <1>15, Ofs, SetsAre DEF StoreRecord, WorkTypes, Forgets
  <2>5. QED
    BY <2>1, <2>2, <2>3, <2>4
<1>16. ASSUME NEW s \in Step, MergeRead(s) PROVE TypeOK'
  <2>1. StoreTypes'
    BY <1>16, Ofs, SetsAre DEF MergeRead, StoreTypes, disk
  <2>2. CacheTypes'
    BY <1>16, Ofs DEF MergeRead, CacheTypes, cache, Blob
  <2>3. PlaceTypes'
    BY <1>16, Ofs DEF MergeRead, PlaceTypes, Goes, Queue, OnThread, OnMain, Kept
  <2>4. WorkTypes'
    BY <1>16, Ofs, SetsAre DEF MergeRead, WorkTypes, Forgets
  <2>5. QED
    BY <2>1, <2>2, <2>3, <2>4
<1>17. ASSUME NEW s \in Step, MergeWrite(s) PROVE TypeOK'
  <2>1. StoreTypes'
    <3>1. got[s] \in ResultsOf(Manifest)
      BY <1>17 DEF MergeWrite, AllInHand, InHand, Holding
    <3>2. got[s].record.sets \subseteq Key
      BY <3>1, ManifestsName DEF ResultsOf, RecordsOf
    <3>3. [sets |-> had[s] \cup got[s].record.sets] \in RecordsOf(Manifest)
      BY <3>2 DEF WorkTypes, RecordsOf, Manifests
    <3>4. Manifest \in Kept
      BY DEF Kept
    <3>5. CASE UNCHANGED records
      BY <3>5, <1>17 DEF MergeWrite, StoreTypes
    <3>6. CASE records' = [records EXCEPT ![Of(s)] =
                  [@ EXCEPT ![Manifest] = [sets |-> had[s] \cup got[s].record.sets]]]
      BY <3>3, <3>4, <3>6, <1>17, Ofs, RecordPut DEF MergeWrite
    <3>7. QED
      BY <3>5, <3>6, <1>17 DEF MergeWrite
  <2>2. CacheTypes'
    BY <1>17, Ofs DEF MergeWrite, CacheTypes, cache, Blob
  <2>3. PlaceTypes'
    BY <1>17, Ofs DEF MergeWrite, PlaceTypes, Goes, WithNone, OnThread, OnMain, Kept
  <2>4. WorkTypes'
    BY <1>17, Ofs, SetsAre DEF MergeWrite, WorkTypes, Forgets
  <2>5. QED
    BY <2>1, <2>2, <2>3, <2>4
<1>18. ASSUME NEW s \in Step, SendNot(s) PROVE TypeOK'
  <2>1. StoreTypes'
    BY <1>18, Ofs, SetsAre DEF SendNot, StoreTypes, disk
  <2>2. CacheTypes'
    BY <1>18, Ofs DEF SendNot, CacheTypes, cache, Blob
  <2>3. PlaceTypes'
    BY <1>18, Ofs DEF SendNot, PlaceTypes, Goes, NextOf, OnThread, OnMain, Kept
  <2>4. WorkTypes'
    BY <1>18, Ofs, SetsAre DEF SendNot, WorkTypes, Forgets
  <2>5. QED
    BY <2>1, <2>2, <2>3, <2>4
<1>19. ASSUME NEW s \in Step, Send(s) PROVE TypeOK'
  <2>1. StoreTypes'
    BY <1>19, Ofs, SetsAre DEF Send, StoreTypes, disk
  <2>2. CacheTypes'
    BY <1>19, Ofs DEF Send, CacheTypes, cache, Blob
  <2>3. PlaceTypes'
    BY <1>19, Ofs DEF Send, PlaceTypes, Goes, Queue, OnThread, OnMain, Kept
  <2>4. WorkTypes'
    <3> DEFINE record == records[Of(s)][key[s]]
    <3>1. record \in Value
      BY <1>19, Ofs DEF Send, StoreTypes, PlaceTypes
    <3>2. Result(s, record) \in Results
      BY <3>1, Ofs DEF Result, Results, StoreTypes
    <3>3. (Result(s, record).names \cup {record}) \ cas \subseteq Blob
      BY <3>1, <3>2 DEF Results, Blob
    <3>4. QED
      BY <3>2, <3>3, <1>19 DEF Send, WorkTypes
  <2>5. QED
    BY <2>1, <2>2, <2>3, <2>4
<1>20. ASSUME NEW s \in Step, Put(s) PROVE TypeOK'
  <2>1. StoreTypes'
    BY <1>20, Ofs, SetsAre DEF Put, StoreTypes, disk
  <2>2. CacheTypes'
    BY <1>20, Ofs DEF Put, CacheTypes, WorkTypes
  <2>3. PlaceTypes'
    BY <1>20, Ofs DEF Put, PlaceTypes, Goes, Queue, OnThread, OnMain, Kept
  <2>4. WorkTypes'
    BY <1>20, Ofs, SetsAre DEF Put, WorkTypes, Forgets
  <2>5. QED
    BY <2>1, <2>2, <2>3, <2>4
<1>21. ASSUME NEW s \in Step, PutResult(s) PROVE TypeOK'
  <2>1. StoreTypes'
    BY <1>21, Ofs, SetsAre DEF PutResult, StoreTypes, disk
  <2>2. CacheTypes'
    <3>1. got[s] \in ResultsOf(key[s]) /\ key[s] \in Kept
      BY <1>21 DEF PutResult, AllInHand, InHand, Holding, PlaceTypes
    <3>2. got[s] \in Results
      BY <3>1, Outcomes
    <3>3. QED
      BY <3>1, <3>2, <1>21 DEF PutResult, CacheTypes
  <2>3. PlaceTypes'
    BY <1>21, Ofs DEF PutResult, PlaceTypes, Goes, NextOf, OnThread, OnMain, Kept
  <2>4. WorkTypes'
    BY <1>21, Ofs, SetsAre DEF PutResult, WorkTypes, Forgets
  <2>5. QED
    BY <2>1, <2>2, <2>3, <2>4
<1>22. ASSUME NEW s \in Step, CallFails(s) PROVE TypeOK'
  <2>1. StoreTypes'
    BY <1>22, Ofs, SetsAre DEF CallFails, StoreTypes, disk
  <2>2. CacheTypes'
    BY <1>22, Ofs DEF CallFails, CacheTypes, cache, Blob
  <2>3. PlaceTypes'
    BY <1>22, Ofs DEF CallFails, PlaceTypes, Goes, Queue, OnThread, OnMain, Kept
  <2>4. WorkTypes'
    BY <1>22, Ofs, SetsAre DEF CallFails, WorkTypes, Forgets
  <2>5. QED
    BY <2>1, <2>2, <2>3, <2>4
<1>23. ASSUME NEW s \in Step, StreamFails(s) PROVE TypeOK'
  <2>1. StoreTypes'
    BY <1>23, Ofs, SetsAre DEF StreamFails, StoreTypes, disk
  <2>2. CacheTypes'
    BY <1>23, Ofs DEF StreamFails, CacheTypes, cache, Blob
  <2>3. PlaceTypes'
    BY <1>23, Ofs DEF StreamFails, PlaceTypes, Goes, Queue, OnThread, OnMain, Kept
  <2>4. WorkTypes'
    BY <1>23, Ofs, SetsAre DEF StreamFails, WorkTypes, Forgets
  <2>5. QED
    BY <2>1, <2>2, <2>3, <2>4
<1>24. CASE Drop
  <2>1. StoreTypes' /\ PlaceTypes' /\ WorkTypes'
    BY <1>24 DEF Drop, disk, work, StoreTypes, PlaceTypes, WorkTypes
  <2>2. CacheTypes'
    BY <1>24 DEF Drop, CacheTypes
  <2>3. QED
    BY <2>1, <2>2
<1>25. CASE UNCHANGED vars
  BY <1>25 DEF vars, disk, cache, work, StoreTypes, CacheTypes, PlaceTypes, WorkTypes
<1>26. QED
  BY <1>1, <1>2, <1>3, <1>4, <1>5, <1>6, <1>7, <1>8, <1>9, <1>10, <1>11, <1>12, <1>13, <1>14, <1>15, <1>16, <1>17, <1>18, <1>19, <1>20, <1>21, <1>22, <1>23, <1>24, <1>25 DEF Next, Engine, Thread

-----------------------------------------------------------------------------
(* What is in hand. *)

\* A step is taken by one thread, and takes nothing from a store, nor, but as
\* the cache drops it, from the cache.
Elsewhere(s) ==
    \A t \in Step \ {s} : /\ at'[t] = at[t] /\ key'[t] = key[t] /\ got'[t] = got[t]
                          /\ wanted'[t] = wanted[t] /\ made'[t] = made[t]

Grows ==
    /\ \A st \in Store : holds[st] \subseteq holds'[st]
    /\ dropped' = 0 => dropped = 0 /\ cas \subseteq cas'

LEMMA OneActs ==
    ASSUME NEW s \in Step, TypeOK, Engine(s) \/ Thread(s) \/ CallFails(s) \/ StreamFails(s)
    PROVE  Elsewhere(s) /\ Grows
<1> USE DEF TypeOK, Elsewhere, Grows, StoreTypes, PlaceTypes, WorkTypes
<1>1. CASE LookUp(s)
  BY <1>1, Ofs DEF LookUp, Goes, Queue, Forgets, disk, cache
<1>2. CASE Looked(s)
  BY <1>2, Ofs DEF Looked, Goes, Queue, Forgets, disk, cache
<1>3. CASE Run(s)
  BY <1>3, Ofs DEF Run, Goes, Queue, Forgets, disk, cache
<1>4. CASE Record(s)
  BY <1>4, Ofs DEF Record, Goes, Queue, Forgets, disk, cache
<1>5. CASE RememberRead(s)
  BY <1>5, Ofs DEF RememberRead, Goes, Queue, Forgets, disk, cache
<1>6. CASE RememberWrite(s)
  BY <1>6, Ofs DEF RememberWrite, Goes, Queue, Forgets, disk, cache
<1>7. CASE Uploaded(s)
  BY <1>7, Ofs DEF Uploaded, Goes, Queue, Forgets, disk, cache
<1>8. CASE Begin(s)
  BY <1>8, Ofs DEF Begin, Goes, Queue, Forgets, disk, cache
<1>9. CASE AskNot(s)
  BY <1>9, Ofs DEF AskNot, Goes, Queue, Forgets, disk, cache
<1>10. CASE AskNone(s)
  BY <1>10, Ofs DEF AskNone, Goes, Queue, Forgets, disk, cache
<1>11. CASE AskFound(s)
  BY <1>11, Ofs DEF AskFound, Goes, Queue, Forgets, disk, cache
<1>12. CASE Get(s)
  BY <1>12, Ofs DEF Get, Goes, Queue, Forgets, disk, cache
<1>13. CASE Read(s)
  BY <1>13, Ofs DEF Read, Goes, Queue, Forgets, disk, cache
<1>14. CASE Lost(s)
  BY <1>14, Ofs DEF Lost, Goes, Queue, Forgets, disk, cache
<1>15. CASE StoreRecord(s)
  BY <1>15, Ofs DEF StoreRecord, Goes, Queue, Forgets, disk, cache
<1>16. CASE MergeRead(s)
  BY <1>16, Ofs DEF MergeRead, Goes, Queue, Forgets, disk, cache
<1>17. CASE MergeWrite(s)
  BY <1>17, Ofs DEF MergeWrite, Goes, Queue, Forgets, disk, cache
<1>18. CASE SendNot(s)
  BY <1>18, Ofs DEF SendNot, Goes, Queue, Forgets, disk, cache
<1>19. CASE Send(s)
  BY <1>19, Ofs DEF Send, Goes, Queue, Forgets, disk, cache
<1>20. CASE Put(s)
  BY <1>20, Ofs DEF Put, Goes, Queue, Forgets, disk, cache
<1>21. CASE PutResult(s)
  BY <1>21, Ofs DEF PutResult, Goes, Queue, Forgets, disk, cache
<1>22. CASE CallFails(s)
  BY <1>22, Ofs DEF CallFails, Goes, Queue, Forgets, disk, cache
<1>23. CASE StreamFails(s)
  BY <1>23, Ofs DEF StreamFails, Goes, Queue, Forgets, disk, cache
<1>24. QED
  BY <1>1, <1>2, <1>3, <1>4, <1>5, <1>6, <1>7, <1>8, <1>9, <1>10, <1>11, <1>12, <1>13, <1>14, <1>15, <1>16, <1>17, <1>18, <1>19, <1>20, <1>21, <1>22, <1>23 DEF Engine, Thread

\* What the others have in hand they still have.
LEMMA OthersHold ==
    ASSUME NEW s \in Step, NEW t \in Step \ {s}, AllInHand, Elsewhere(s), Grows
    PROVE  InHand(t)'
<1>1. InHand(t) /\ Of(t) \in Store
  BY Ofs DEF AllInHand
<1>2. /\ at'[t] = at[t] /\ key'[t] = key[t] /\ got'[t] = got[t]
      /\ wanted'[t] = wanted[t] /\ made'[t] = made[t]
  BY DEF Elsewhere
<1>3. /\ holds[Of(t)] \subseteq holds'[Of(t)]
      /\ dropped' = 0 => dropped = 0 /\ cas \subseteq cas'
  BY <1>1 DEF Grows
<1>4. (at[t] \in Holding => got[t] \in ResultsOf(key[t]))'
  BY <1>1, <1>2 DEF InHand, ResultsOf, RecordsOf
<1>5. (at[t] = "putting" =>
        /\ got[t].names = Named(got[t].record)
        /\ dropped = 0 => got[t].names \cup {got[t].record} \subseteq cas \cup wanted[t])'
  BY <1>1, <1>2, <1>3 DEF InHand
<1>6. QED
  BY <1>1, <1>2, <1>3, <1>4, <1>5 DEF InHand

LEMMA HandStep ==
    ASSUME IInv, [Next]_vars
    PROVE  AllInHand'
<1> USE DEF IInv, TypeOK
<1>1. ASSUME NEW s \in Step, Engine(s) \/ Thread(s) \/ CallFails(s) \/ StreamFails(s)
      PROVE  AllInHand'
  <2> USE DEF PlaceTypes
  <2> SUFFICES InHand(s)'
    BY <1>1, OneActs, OthersHold DEF AllInHand
  <2>1. ASSUME at'[s] \notin Holding \cup {"kept"}
        PROVE  InHand(s)'
    BY <2>1 DEF InHand, Holding
  <2>2. CASE LookUp(s)
    BY <2>1, <2>2 DEF LookUp, Goes, Queue, WithNone, NextOf, Holding
  <2>3. CASE Looked(s)
    BY <2>1, <2>3 DEF Looked, Goes, Queue, WithNone, NextOf, Holding
  <2>4. CASE Run(s)
    BY <2>4, Ofs DEF Run, Goes, InHand, Holding, StoreTypes, WorkTypes, Of
  <2>5. CASE Record(s)
    BY <2>1, <2>5 DEF Record, Goes, Queue, WithNone, NextOf, Holding
  <2>6. CASE RememberRead(s)
    BY <2>1, <2>6 DEF RememberRead, Goes, Queue, WithNone, NextOf, Holding
  <2>7. CASE RememberWrite(s)
    BY <2>1, <2>7 DEF RememberWrite, Goes, Queue, WithNone, NextOf, Holding
  <2>8. CASE Uploaded(s)
    BY <2>1, <2>8 DEF Uploaded, Goes, Queue, WithNone, NextOf, Holding
  <2>9. CASE Begin(s)
    BY <2>1, <2>9 DEF Begin, Goes, Queue, WithNone, NextOf, Holding
  <2>10. CASE AskNot(s)
    BY <2>1, <2>10 DEF AskNot, Goes, Queue, WithNone, NextOf, Holding
  <2>11. CASE AskNone(s)
    BY <2>1, <2>11 DEF AskNone, Goes, Queue, WithNone, NextOf, Holding
  <2>12. CASE AskFound(s)
    <3>1. got'[s] = results[key[s]] /\ at'[s] = "getting" /\ key' = key /\ holds' = holds
      BY <2>12 DEF AskFound, Goes, WorkTypes, disk
    <3>2. wanted'[s] = results[key[s]].names \ holds[Of(s)]
      BY <2>12 DEF AskFound, WorkTypes
    <3>3. results[key[s]] \in ResultsOf(key[s]) /\ results[key[s]] # None
      BY <2>12 DEF AskFound, InCache, CacheTypes
    <3>4. results[key[s]].names = Named(results[key[s]].record)
      BY <3>3 DEF ResultsWhole
    <3>5. QED
      BY <3>1, <3>2, <3>3, <3>4 DEF InHand, Holding, Of, ResultsOf, RecordsOf, Named
  <2>13. CASE Get(s)
    BY <2>13, Ofs DEF Get, InHand, AllInHand, Holding, StoreTypes, WorkTypes, Of, ResultsOf, RecordsOf, Named
  <2>14. CASE Read(s)
    BY <2>14, Ofs, NamesAssumption DEF Read, Goes, InHand, AllInHand, Holding, disk, Of, ResultsOf, RecordsOf, Named
  <2>15. CASE Lost(s)
    BY <2>1, <2>15 DEF Lost, Goes, Queue, WithNone, NextOf, Holding
  <2>16. CASE StoreRecord(s)
    BY <2>1, <2>16 DEF StoreRecord, Goes, Queue, WithNone, NextOf, Holding
  <2>17. CASE MergeRead(s)
    BY <2>17, Ofs, NamesAssumption DEF MergeRead, Goes, InHand, AllInHand, Holding, disk, Of, ResultsOf, RecordsOf, Named
  <2>18. CASE MergeWrite(s)
    BY <2>1, <2>18 DEF MergeWrite, Goes, Queue, WithNone, NextOf, Holding
  <2>19. CASE SendNot(s)
    BY <2>1, <2>19 DEF SendNot, Goes, Queue, WithNone, NextOf, Holding
  <2>20. CASE Send(s)
    <3> DEFINE record == records[Of(s)][key[s]]
    <3>1. /\ got'[s] = Result(s, record) /\ at'[s] = "putting" /\ key' = key
          /\ wanted'[s] = (Result(s, record).names \cup {record}) \ cas /\ cas' = cas
      BY <2>20 DEF Send, Goes, WorkTypes, cache
    <3>2. record \in RecordsOf(key[s]) /\ Named(record) \subseteq holds[Of(s)]
      BY <2>20, Ofs DEF Send, StoreTypes, RecordsWhole
    <3>3. Result(s, record) = [record |-> record, names |-> Named(record)]
      BY <3>2 DEF Result
    <3>4. Named(record) \subseteq Content
      BY <3>2, Outcomes
    <3>5. Result(s, record) \in ResultsOf(key[s])
      BY <3>2, <3>3, <3>4 DEF ResultsOf
    <3>6. QED
      BY <3>1, <3>3, <3>5 DEF InHand, Holding, ResultsOf, RecordsOf, Named
  <2>21. CASE Put(s)
    BY <2>21, Ofs DEF Put, InHand, AllInHand, Holding, WorkTypes, ResultsOf, RecordsOf, Named
  <2>22. CASE PutResult(s)
    BY <2>1, <2>22 DEF PutResult, Goes, Queue, WithNone, NextOf, Holding
  <2>23. CASE CallFails(s)
    BY <2>1, <2>23 DEF CallFails, Goes, Queue, WithNone, NextOf, Holding
  <2>24. CASE StreamFails(s)
    BY <2>1, <2>24 DEF StreamFails, Goes, Queue, WithNone, NextOf, Holding
  <2>25. QED
    BY <1>1, <2>2, <2>3, <2>4, <2>5, <2>6, <2>7, <2>8, <2>9, <2>10, <2>11, <2>12, <2>13, <2>14, <2>15, <2>16, <2>17, <2>18, <2>19, <2>20, <2>21, <2>22, <2>23, <2>24 DEF Engine, Thread
<1>2. CASE Drop
  BY <1>2 DEF Drop, disk, work, CacheTypes, AllInHand, InHand, Of, ResultsOf, RecordsOf, Named
<1>3. CASE UNCHANGED vars
  BY <1>3 DEF vars, disk, cache, work, AllInHand, InHand, Of, ResultsOf, RecordsOf, Named
<1>4. QED
  BY <1>1, <1>2, <1>3 DEF Next

-----------------------------------------------------------------------------
(* Records, and the cache's results. *)

\* A record put into a store that has what it names leaves its records whole.
LEMMA WholePut ==
    ASSUME NEW st \in Store, NEW k \in Kept, NEW v, Named(v) \subseteq holds[st], StoreTypes,
           records' = [records EXCEPT ![st] = [@ EXCEPT ![k] = v]], UNCHANGED holds, RecordsWhole
    PROVE  RecordsWhole'
<1>1. \A t \in Store, l \in Kept : records'[t][l] = IF t = st /\ l = k THEN v ELSE records[t][l]
  BY DEF StoreTypes
<1>2. QED
  BY <1>1 DEF RecordsWhole, Named

LEMMA RecordsStep ==
    ASSUME IInv, [Next]_vars
    PROVE  RecordsWhole'
<1> USE DEF IInv, TypeOK
<1>1. Manifest \in Kept
  BY DEF Kept
<1>2. CASE UNCHANGED records /\ Grows
  BY <1>2 DEF Grows, RecordsWhole, Named
<1>3. ASSUME NEW s \in Step, Record(s)
      PROVE  RecordsWhole'
  <2>1. made[s] \in Outcome /\ Names[made[s]] \subseteq holds[Of(s)]
    BY <1>3, Ofs DEF Record, AllInHand, InHand
  <2>2. Named(made[s]) \subseteq holds[Of(s)]
    BY <2>1 DEF Named
  <2>3. QED
    BY <1>3, <2>2, Ofs, WholePut DEF Record
<1>4. ASSUME NEW s \in Step, RememberWrite(s)
      PROVE  RecordsWhole'
  <2> DEFINE new == [sets |-> had[s] \cup {KeyOf[s]}]
  <2>1. Named(new) = {}
    BY Ofs, ManifestsName DEF WorkTypes, Manifests
  <2>2. UNCHANGED records \/ records' = [records EXCEPT ![Of(s)] = [@ EXCEPT ![Manifest] = new]]
    BY <1>4 DEF RememberWrite
  <2>3. UNCHANGED holds
    BY <1>4 DEF RememberWrite
  <2> HIDE DEF new
  <2>4. QED
    BY <1>1, <2>1, <2>2, <2>3, Ofs, WholePut DEF RecordsWhole, Named
<1>5. ASSUME NEW s \in Step, StoreRecord(s)
      PROVE  RecordsWhole'
  BY <1>5, Ofs, WholePut DEF StoreRecord, AllInHand, InHand
<1>6. ASSUME NEW s \in Step, MergeWrite(s)
      PROVE  RecordsWhole'
  <2> DEFINE new == [sets |-> had[s] \cup got[s].record.sets]
  <2>1. got[s] \in ResultsOf(Manifest)
    BY <1>6 DEF MergeWrite, AllInHand, InHand, Holding
  <2>2. got[s].record.sets \subseteq Key
    BY <2>1, ManifestsName DEF ResultsOf, RecordsOf
  <2>3. Named(new) = {}
    BY <2>2, ManifestsName DEF WorkTypes, Manifests
  <2>4. UNCHANGED records \/ records' = [records EXCEPT ![Of(s)] = [@ EXCEPT ![Manifest] = new]]
    BY <1>6 DEF MergeWrite
  <2>5. UNCHANGED holds
    BY <1>6 DEF MergeWrite
  <2> HIDE DEF new
  <2>6. QED
    BY <1>1, <2>3, <2>4, <2>5, Ofs, WholePut DEF RecordsWhole, Named
<1>7. ASSUME NEW s \in Step, Engine(s) \/ Thread(s) \/ CallFails(s) \/ StreamFails(s)
      PROVE  RecordsWhole'
  <2>1. \/ UNCHANGED records
        \/ Record(s) \/ RememberWrite(s) \/ StoreRecord(s) \/ MergeWrite(s)
    BY <1>7 DEF Engine, Thread, disk, LookUp, Looked, Run, RememberRead, Uploaded, Begin, AskNot, AskNone, AskFound, Get, Read, Lost, MergeRead, SendNot, Send, Put, PutResult, CallFails, StreamFails
  <2>2. QED
    BY <1>2, <1>3, <1>4, <1>5, <1>6, <1>7, <2>1, OneActs
<1>8. CASE Drop
  BY <1>8 DEF Drop, disk, RecordsWhole, Named
<1>9. CASE UNCHANGED vars
  BY <1>9 DEF vars, disk, RecordsWhole, Named
<1>10. QED
  BY <1>7, <1>8, <1>9 DEF Next

LEMMA ResultsStep ==
    ASSUME IInv, [Next]_vars
    PROVE  ResultsWhole'
<1> USE DEF IInv, TypeOK
<1>1. CASE UNCHANGED results /\ Grows
  BY <1>1 DEF Grows, ResultsWhole, Named
<1>2. ASSUME NEW s \in Step, PutResult(s)
      PROVE  ResultsWhole'
  <2>1. /\ got[s].names = Named(got[s].record)
        /\ dropped = 0 => got[s].names \cup {got[s].record} \subseteq cas
    BY <1>2 DEF PutResult, AllInHand, InHand
  <2>2. results' = [results EXCEPT ![key[s]] = got[s]] /\ UNCHANGED <<cas, dropped>>
    BY <1>2 DEF PutResult
  <2>3. \A k \in Kept : results'[k] = IF k = key[s] THEN got[s] ELSE results[k]
    BY <2>2 DEF CacheTypes
  <2>4. QED
    BY <2>1, <2>2, <2>3 DEF ResultsWhole, Named
<1>3. ASSUME NEW s \in Step, Engine(s) \/ Thread(s) \/ CallFails(s) \/ StreamFails(s)
      PROVE  ResultsWhole'
  <2>1. UNCHANGED results \/ PutResult(s)
    BY <1>3 DEF Engine, Thread, cache, LookUp, Looked, Run, Record, RememberRead, RememberWrite, Uploaded, Begin, AskNot, AskNone, AskFound, Get, Read, Lost, StoreRecord, MergeRead, MergeWrite, SendNot, Send, Put, CallFails, StreamFails
  <2>2. QED
    BY <1>1, <1>2, <1>3, <2>1, OneActs
<1>4. CASE Drop
  <2>1. dropped' # 0 /\ \A k \in Kept : results'[k] = None \/ results'[k] = results[k]
    BY <1>4 DEF Drop, CacheTypes
  <2>2. QED
    BY <2>1 DEF ResultsWhole, Named
<1>5. CASE UNCHANGED vars
  BY <1>5 DEF vars, cache, ResultsWhole, Named
<1>6. QED
  BY <1>3, <1>4, <1>5 DEF Next

-----------------------------------------------------------------------------

LEMMA InitHolds == Init => IInv
<1> SUFFICES ASSUME Init PROVE IInv
  OBVIOUS
<1>1. TypeOK
  BY StepsAssumption, NamesAssumption
     DEF Init, TypeOK, StoreTypes, CacheTypes, PlaceTypes, WorkTypes, Kept, Store
<1>2. AllInHand /\ RecordsWhole /\ ResultsWhole
  BY DEF Init, AllInHand, InHand, Holding, RecordsWhole, ResultsWhole
<1>3. QED
  BY <1>1, <1>2 DEF IInv

LEMMA StepHolds == IInv /\ [Next]_vars => IInv'
  BY TypesStep, HandStep, RecordsStep, ResultsStep DEF IInv

THEOREM Inductive == Spec => []IInv
  BY InitHolds, StepHolds, PTL DEF Spec

\* In every state, stores, the cache, and each step's job have their shape:
\* TypeOK, of every action.
THEOREM Types == Spec => []TypeOK
<1>1. IInv => TypeOK
  BY DEF IInv
<1>2. QED
  BY <1>1, Inductive, PTL

\* No store has a record of a content it lacks: a run's contents are kept, and
\* the cache's got, before the record is written (Remote::find, keep_record).
THEOREM RecordsAreWhole == Spec => []RecordsWhole
<1>1. IInv => RecordsWhole
  BY DEF IInv
<1>2. QED
  BY <1>1, Inductive, PTL

\* A result the cache has is of all its record names, and of nothing the cache
\* has not, unless it dropped something (Remote::upload_record).
THEOREM ResultsAreWhole == Spec => []ResultsWhole
<1>1. IInv => ResultsWhole
  BY DEF IInv
<1>2. QED
  BY <1>1, Inductive, PTL

-----------------------------------------------------------------------------
(* A build that is over has written what it made. *)

\* Nothing of the step's build failed, and the cache keeps what it is given.
Clean(s) == failed[BuildOf[s]] = 0 /\ dropped = 0

Recorded(s) == records[Of(s)][KeyOf[s]] # None

\* An upload merges the cache's manifest, and then writes: the record, and the
\* manifest after it.
Early == {"queued", "asking", "getting", "merging", "writing"}
Late == {"sending", "putting", "ended", "over"}

\* What a run made is recorded and then uploaded; once an upload is past its
\* record, that is written.
WillUpload(s) ==
    /\ at[s] \notin {"kept", "recorded", "remembering", "over"} /\ job[s] # "upload" => made[s] = None
    /\ at[s] \in {"recorded", "remembering"} => Recorded(s)
    /\ at[s] = "over" /\ made[s] # None /\ BuildOf[s] \in Uploading => job[s] = "upload"
    /\ at[s] \in {"sending", "putting"} => job[s] = "upload"
    /\ at[s] = "getting" /\ dropped = 0 => got[s].record \in cas
    /\ job[s] = "upload" =>
          /\ Recorded(s)
          /\ at[s] \in Early \cup Late
          /\ at[s] \in Early => key[s] = Manifest
          /\ (at[s] \in Late /\ Clean(s) /\ (at[s] \in {"ended", "over"} \/ key[s] = Manifest))
                => results[KeyOf[s]] # None

\* The cache is down once a call failed.
DownOnceFailed == \A b \in Build : down[b] => failed[b] # 0

UploadInv == IInv /\ DownOnceFailed /\ \A s \in Step : WillUpload(s)

\* What a step leaves alone of other steps, and of other stores; and what is
\* recorded, written or failed stays so.
Leaves(s) ==
    /\ \A t \in Step \ {s} : job'[t] = job[t] /\ had'[t] = had[t]
    /\ \A st \in Store \ {Of(s)} : records'[st] = records[st]
    /\ \A t \in Step : Recorded(t) => Recorded(t)'
    /\ dropped' = 0 => dropped = 0 /\ \A k \in Kept : results[k] # None => results'[k] # None
    /\ \A b \in Build : failed'[b] = 0 => failed[b] = 0

\* A record put into a store is there, and no other goes.
LEMMA PutStays ==
    ASSUME NEW st \in Store, NEW k \in Kept, NEW v, v # None, StoreTypes,
           records' = [records EXCEPT ![st] = [@ EXCEPT ![k] = v]]
    PROVE  /\ \A t \in Store \ {st} : records'[t] = records[t]
           /\ \A t \in Step : Recorded(t) => Recorded(t)'
           /\ \A t \in Step : Of(t) = st /\ KeyOf[t] = k => Recorded(t)'
<1>1. \A t \in Store, l \in Kept : records'[t][l] = IF t = st /\ l = k THEN v ELSE records[t][l]
  BY DEF StoreTypes
<1>2. \A t \in Store \ {st} : records'[t] = records[t]
  BY DEF StoreTypes
<1>3. QED
  BY <1>1, <1>2, Ofs DEF Recorded, Of

LEMMA LeavesOthers ==
    ASSUME NEW s \in Step, IInv, Engine(s) \/ Thread(s) \/ CallFails(s) \/ StreamFails(s)
    PROVE  Leaves(s)
<1> USE DEF IInv, TypeOK
<1>0. Manifest \in Kept
  BY DEF Kept
<1>1. CASE LookUp(s)
  BY <1>1 DEF LookUp, Leaves, Recorded, Goes, Queue, Forgets, disk, cache, PlaceTypes, WorkTypes
<1>2. CASE Looked(s)
  BY <1>2 DEF Looked, Leaves, Recorded, Goes, Queue, Forgets, disk, cache, PlaceTypes, WorkTypes
<1>3. CASE Run(s)
  BY <1>3 DEF Run, Leaves, Recorded, Goes, Queue, Forgets, disk, cache, PlaceTypes, WorkTypes
<1>4. CASE Record(s)
  <2>1. made[s] # None
    BY <1>4, Ofs, NamesAssumption DEF Record, AllInHand, InHand
  <2>2. QED
    BY <1>4, <2>1, Ofs, PutStays DEF Record, Leaves, cache, Goes, StoreTypes, CacheTypes, WorkTypes
<1>5. CASE RememberRead(s)
  BY <1>5 DEF RememberRead, Leaves, Recorded, Goes, Queue, Forgets, disk, cache, PlaceTypes, WorkTypes
<1>6. CASE RememberWrite(s)
  <2> DEFINE new == [sets |-> had[s] \cup {KeyOf[s]}]
  <2>1. new # None
    BY Ofs, ManifestsName DEF WorkTypes, Manifests
  <2>2. UNCHANGED records \/ records' = [records EXCEPT ![Of(s)] = [@ EXCEPT ![Manifest] = new]]
    BY <1>6 DEF RememberWrite
  <2>3. /\ \A t \in Step \ {s} : job'[t] = job[t] /\ had'[t] = had[t]
        /\ UNCHANGED <<results, dropped, failed>>
    BY <1>6 DEF RememberWrite, Goes, Queue, Forgets, cache, PlaceTypes, WorkTypes
  <2> HIDE DEF new
  <2>4. /\ \A st \in Store \ {Of(s)} : records'[st] = records[st]
        /\ \A t \in Step : Recorded(t) => Recorded(t)'
    <3>1. CASE UNCHANGED records
      BY <3>1 DEF Recorded, Of
    <3>2. CASE records' = [records EXCEPT ![Of(s)] = [@ EXCEPT ![Manifest] = new]]
      BY <1>0, <2>1, <3>2, Ofs, PutStays
    <3>3. QED
      BY <2>2, <3>1, <3>2
  <2>5. QED
    BY <2>3, <2>4 DEF Leaves
<1>7. CASE Uploaded(s)
  BY <1>7 DEF Uploaded, Leaves, Recorded, Goes, Queue, Forgets, disk, cache, PlaceTypes, WorkTypes
<1>8. CASE Begin(s)
  BY <1>8 DEF Begin, Leaves, Recorded, Goes, Queue, Forgets, disk, cache, PlaceTypes, WorkTypes
<1>9. CASE AskNot(s)
  BY <1>9 DEF AskNot, Leaves, Recorded, Goes, Queue, Forgets, disk, cache, PlaceTypes, WorkTypes
<1>10. CASE AskNone(s)
  BY <1>10 DEF AskNone, Leaves, Recorded, Goes, Queue, Forgets, disk, cache, PlaceTypes, WorkTypes
<1>11. CASE AskFound(s)
  BY <1>11 DEF AskFound, Leaves, Recorded, Goes, Queue, Forgets, disk, cache, PlaceTypes, WorkTypes
<1>12. CASE Get(s)
  BY <1>12 DEF Get, Leaves, Recorded, Goes, Queue, Forgets, disk, cache, PlaceTypes, WorkTypes
<1>13. CASE Read(s)
  BY <1>13 DEF Read, Leaves, Recorded, Goes, Queue, Forgets, disk, cache, PlaceTypes, WorkTypes
<1>14. CASE Lost(s)
  BY <1>14 DEF Lost, Leaves, Recorded, Goes, Queue, Forgets, disk, cache, PlaceTypes, WorkTypes
<1>15. CASE StoreRecord(s)
  <2>1. got[s].record \in RecordsOf(KeyOf[s])
    BY <1>15 DEF StoreRecord, AllInHand, InHand, Holding, PlaceTypes, ResultsOf
  <2>2. got[s].record # None
    BY <2>1, Ofs, Outcomes
  <2>3. QED
    BY <1>15, <2>2, Ofs, PutStays DEF StoreRecord, Leaves, cache, Goes, Forgets, WorkTypes
<1>16. CASE MergeRead(s)
  BY <1>16 DEF MergeRead, Leaves, Recorded, Goes, Queue, Forgets, disk, cache, PlaceTypes, WorkTypes
<1>17. CASE MergeWrite(s)
  <2> DEFINE new == [sets |-> had[s] \cup got[s].record.sets]
  <2>1. new # None
    <3>1. got[s].record.sets \subseteq Key
      BY <1>17, ManifestsName DEF MergeWrite, AllInHand, InHand, Holding, ResultsOf, RecordsOf
    <3>2. QED
      BY <3>1, ManifestsName DEF WorkTypes, Manifests
  <2>2. UNCHANGED records \/ records' = [records EXCEPT ![Of(s)] = [@ EXCEPT ![Manifest] = new]]
    BY <1>17 DEF MergeWrite
  <2>3. /\ \A t \in Step \ {s} : job'[t] = job[t] /\ had'[t] = had[t]
        /\ UNCHANGED <<results, dropped, failed>>
    BY <1>17 DEF MergeWrite, Goes, Queue, Forgets, cache, PlaceTypes, WorkTypes
  <2> HIDE DEF new
  <2>4. /\ \A st \in Store \ {Of(s)} : records'[st] = records[st]
        /\ \A t \in Step : Recorded(t) => Recorded(t)'
    <3>1. CASE UNCHANGED records
      BY <3>1 DEF Recorded, Of
    <3>2. CASE records' = [records EXCEPT ![Of(s)] = [@ EXCEPT ![Manifest] = new]]
      BY <1>0, <2>1, <3>2, Ofs, PutStays
    <3>3. QED
      BY <2>2, <3>1, <3>2
  <2>5. QED
    BY <2>3, <2>4 DEF Leaves
<1>18. CASE SendNot(s)
  BY <1>18 DEF SendNot, Leaves, Recorded, Goes, Queue, Forgets, disk, cache, PlaceTypes, WorkTypes
<1>19. CASE Send(s)
  BY <1>19 DEF Send, Leaves, Recorded, Goes, Queue, Forgets, disk, cache, PlaceTypes, WorkTypes
<1>20. CASE Put(s)
  BY <1>20 DEF Put, Leaves, Recorded, Goes, Queue, Forgets, disk, cache, PlaceTypes, WorkTypes
<1>21. CASE PutResult(s)
  <2>1. got[s] # None
    <3>1. got[s] \in Results
      BY <1>21, Outcomes DEF PutResult, AllInHand, InHand, Holding, PlaceTypes
    <3>2. QED
      BY <3>1, NamesAssumption DEF Results, Value, Manifests
  <2>2. QED
    BY <1>21, <2>1 DEF PutResult, Leaves, Recorded, Goes, Forgets, disk, CacheTypes, WorkTypes
<1>22. CASE CallFails(s)
  BY <1>22, Ofs DEF CallFails, Leaves, Recorded, Goes, Forgets, disk, cache, WorkTypes
<1>23. CASE StreamFails(s)
  BY <1>23 DEF StreamFails, Leaves, Recorded, Goes, Queue, Forgets, disk, cache, PlaceTypes, WorkTypes
<1>24. QED
  BY <1>1, <1>2, <1>3, <1>4, <1>5, <1>6, <1>7, <1>8, <1>9, <1>10, <1>11, <1>12, <1>13, <1>14, <1>15, <1>16, <1>17, <1>18, <1>19, <1>20, <1>21, <1>22, <1>23 DEF Engine, Thread


\* What the others will upload they still will.
LEMMA OthersWillUpload ==
    ASSUME NEW s \in Step, NEW t \in Step \ {s}, WillUpload(t), TypeOK,
           Elsewhere(s), Grows, Leaves(s)
    PROVE  WillUpload(t)'
<1>1. BuildOf[t] \in Build /\ KeyOf[t] \in Kept
  BY Ofs
<1>2. Clean(t)' => Clean(t)
  BY <1>1 DEF Clean, Leaves
<1>3. Recorded(t) => Recorded(t)'
  BY DEF Leaves
<1>4. /\ at'[t] = at[t] /\ key'[t] = key[t] /\ got'[t] = got[t] /\ made'[t] = made[t]
      /\ job'[t] = job[t]
  BY DEF Elsewhere, Leaves
<1>5. dropped' = 0 => dropped = 0 /\ cas \subseteq cas'
  BY DEF Grows
<1>6. Clean(t)' /\ results[KeyOf[t]] # None => results'[KeyOf[t]] # None
  BY <1>1 DEF Leaves, Clean
<1>7. QED
  BY <1>2, <1>3, <1>4, <1>5, <1>6 DEF WillUpload

\* The manifest, which an upload gets, names nothing, and is in the cache that
\* has a result of it.
LEMMA UploadGetsNone ==
    ASSUME NEW s \in Step, IInv, WillUpload(s), at[s] = "getting", key[s] = Manifest
    PROVE  wanted[s] = {} /\ (dropped = 0 => got[s].record \in cas)
<1>1. got[s] \in ResultsOf(Manifest) /\ wanted[s] \subseteq Named(got[s].record)
  BY DEF IInv, AllInHand, InHand, Holding
<1>2. Named(got[s].record) = {}
  BY <1>1, ManifestsName DEF ResultsOf, RecordsOf
<1>3. QED
  BY <1>1, <1>2 DEF WillUpload

\* A step keeps to what it is to upload.
LEMMA OneUploads ==
    ASSUME NEW s \in Step, UploadInv, Engine(s) \/ Thread(s) \/ CallFails(s) \/ StreamFails(s)
    PROVE  WillUpload(s)'
<1> USE DEF UploadInv, IInv, TypeOK, PlaceTypes
<1>0. /\ Recorded(s) => Recorded(s)'
      /\ dropped' = 0 => dropped = 0 /\ cas \subseteq cas'
      /\ Clean(s)' => Clean(s)
      /\ Clean(s)' /\ results[KeyOf[s]] # None => results'[KeyOf[s]] # None
  BY LeavesOthers, OneActs, Ofs DEF Leaves, Grows, Clean
<1>00. WillUpload(s) /\ KeyOf[s] # Manifest
  BY Ofs
<1>1. CASE LookUp(s)
  BY <1>0, <1>00, <1>1 DEF LookUp, Goes, Queue, WithNone, NextOf, Forgets, WillUpload, Early, Late, OnThread, OnMain, WorkTypes
<1>2. CASE Looked(s)
  BY <1>0, <1>00, <1>2 DEF Looked, Goes, Queue, WithNone, NextOf, Forgets, WillUpload, Early, Late, OnThread, OnMain, WorkTypes
<1>3. CASE Run(s)
  BY <1>0, <1>00, <1>3 DEF Run, Goes, Queue, WithNone, NextOf, Forgets, WillUpload, Early, Late, OnThread, OnMain, WorkTypes
<1>4. CASE Record(s)
  <2>1. made[s] # None
    BY <1>4, Ofs, NamesAssumption DEF Record, AllInHand, InHand
  <2>2. Recorded(s)'
    BY <1>4, <2>1, Ofs, PutStays DEF Record
  <2>3. QED
    BY <1>0, <1>00, <1>4, <2>2 DEF Record, Goes, Queue, WithNone, NextOf, Forgets, WillUpload, Early, Late, OnThread, OnMain, WorkTypes
<1>5. CASE RememberRead(s)
  BY <1>0, <1>00, <1>5 DEF RememberRead, Goes, Queue, WithNone, NextOf, Forgets, WillUpload, Early, Late, OnThread, OnMain, WorkTypes
<1>6. CASE RememberWrite(s)
  BY <1>0, <1>00, <1>6 DEF RememberWrite, Goes, Queue, WithNone, NextOf, Forgets, WillUpload, Early, Late, OnThread, OnMain, WorkTypes
<1>7. CASE Uploaded(s)
  BY <1>0, <1>00, <1>7 DEF Uploaded, Goes, Queue, WithNone, NextOf, Forgets, WillUpload, Early, Late, OnThread, OnMain, WorkTypes
<1>8. CASE Begin(s)
  BY <1>0, <1>00, <1>8 DEF Begin, Goes, Queue, WithNone, NextOf, Forgets, WillUpload, Early, Late, OnThread, OnMain, WorkTypes
<1>9. CASE AskNot(s)
  BY <1>0, <1>00, <1>9 DEF AskNot, Goes, Queue, WithNone, NextOf, Forgets, WillUpload, Early, Late, OnThread, OnMain, WorkTypes
<1>10. CASE AskNone(s)
  BY <1>0, <1>00, <1>10 DEF AskNone, Goes, Queue, WithNone, NextOf, Forgets, WillUpload, Early, Late, OnThread, OnMain, WorkTypes
<1>11. CASE AskFound(s)
  <2>1. got'[s] = results[key[s]] /\ results[key[s]] # None /\ UNCHANGED <<cas, dropped>>
    BY <1>11 DEF AskFound, InCache, cache, WorkTypes
  <2>2. dropped' = 0 => got'[s].record \in cas'
    BY <2>1 DEF ResultsWhole
  <2>3. QED
    BY <1>0, <1>00, <1>11, <2>2 DEF AskFound, Goes, Queue, WithNone, NextOf, Forgets, WillUpload, Early, Late, OnThread, OnMain, WorkTypes
<1>12. CASE Get(s)
  BY <1>0, <1>00, <1>12 DEF Get, Goes, Queue, WithNone, NextOf, Forgets, WillUpload, Early, Late, OnThread, OnMain, WorkTypes
<1>13. CASE Read(s)
  BY <1>0, <1>00, <1>13 DEF Read, Goes, Queue, WithNone, NextOf, Forgets, WillUpload, Early, Late, OnThread, OnMain, WorkTypes
<1>14. CASE Lost(s)
  <2>1. job[s] = "upload" => dropped # 0
    BY <1>00, <1>14, UploadGetsNone DEF Lost, WillUpload, Early
  <2>2. job[s] = "upload" => ~Clean(s)'
    BY <1>14, <2>1 DEF Lost, Clean, cache
  <2>3. QED
    BY <1>0, <1>00, <1>14, <2>2 DEF Lost, Goes, Queue, WithNone, NextOf, Forgets, WillUpload, Early, Late, OnThread, OnMain, WorkTypes
<1>15. CASE StoreRecord(s)
  BY <1>0, <1>00, <1>15 DEF StoreRecord, Goes, Queue, WithNone, NextOf, Forgets, WillUpload, Early, Late, OnThread, OnMain, WorkTypes
<1>16. CASE MergeRead(s)
  BY <1>0, <1>00, <1>16 DEF MergeRead, Goes, Queue, WithNone, NextOf, Forgets, WillUpload, Early, Late, OnThread, OnMain, WorkTypes
<1>17. CASE MergeWrite(s)
  BY <1>0, <1>00, <1>17 DEF MergeWrite, Goes, Queue, WithNone, NextOf, Forgets, WillUpload, Early, Late, OnThread, OnMain, WorkTypes
<1>18. CASE SendNot(s)
  <2>1. job[s] = "upload" /\ Recorded(s)
    BY <1>00, <1>18 DEF SendNot, WillUpload
  <2>2. Clean(s)' => results'[KeyOf[s]] # None
    <3>1. CASE key[s] = Manifest
      BY <1>0, <1>00, <1>18, <2>1, <3>1 DEF SendNot, WillUpload, Late
    <3>2. CASE key[s] = KeyOf[s]
      BY <1>0, <1>18, <2>1, <3>2, Ofs DEF SendNot, Clean, Recorded, DownOnceFailed
    <3>3. QED
      BY <3>1, <3>2
  <2>3. QED
    BY <1>0, <1>00, <1>18, <2>1, <2>2 DEF SendNot, Goes, Queue, WithNone, NextOf, Forgets, WillUpload, Early, Late, OnThread, OnMain, WorkTypes
<1>19. CASE Send(s)
  BY <1>0, <1>00, <1>19 DEF Send, Goes, Queue, WithNone, NextOf, Forgets, WillUpload, Early, Late, OnThread, OnMain, WorkTypes
<1>20. CASE Put(s)
  BY <1>0, <1>00, <1>20 DEF Put, Goes, Queue, WithNone, NextOf, Forgets, WillUpload, Early, Late, OnThread, OnMain, WorkTypes
<1>21. CASE PutResult(s)
  <2>1. job[s] = "upload"
    BY <1>00, <1>21 DEF PutResult, WillUpload
  <2>2. Clean(s)' => results'[KeyOf[s]] # None
    <3>1. CASE key[s] = Manifest
      BY <1>0, <1>00, <1>21, <2>1, <3>1 DEF PutResult, WillUpload, Late
    <3>2. CASE key[s] = KeyOf[s]
      <4>1. got[s] \in Results
        BY <1>21, Outcomes DEF PutResult, AllInHand, InHand, Holding
      <4>2. got[s] # None
        BY <4>1, NamesAssumption DEF Results, Value, Manifests
      <4>3. results'[KeyOf[s]] = got[s]
        BY <1>21, <3>2, Ofs DEF PutResult, CacheTypes
      <4>4. QED
        BY <4>2, <4>3
    <3>3. QED
      BY <3>1, <3>2
  <2>3. QED
    BY <1>0, <1>00, <1>21, <2>1, <2>2 DEF PutResult, Goes, Queue, WithNone, NextOf, Forgets, WillUpload, Early, Late, OnThread, OnMain, WorkTypes
<1>22. CASE CallFails(s)
  <2>1. ~Clean(s)'
    BY <1>22, Ofs DEF CallFails, Clean, WorkTypes
  <2>2. QED
    BY <1>0, <1>00, <1>22, <2>1 DEF CallFails, Calling, Goes, Queue, WithNone, NextOf, Forgets, WillUpload, Early, Late, OnThread, OnMain, WorkTypes
<1>23. CASE StreamFails(s)
  <2>1. job[s] # "upload"
    BY <1>00, <1>23, UploadGetsNone DEF StreamFails, WillUpload, Early
  <2>2. QED
    BY <1>0, <1>00, <1>23, <2>1 DEF StreamFails, Goes, Queue, WithNone, NextOf, Forgets, WillUpload, Early, Late, OnThread, OnMain, WorkTypes
<1>24. QED
  BY <1>1, <1>2, <1>3, <1>4, <1>5, <1>6, <1>7, <1>8, <1>9, <1>10, <1>11, <1>12, <1>13, <1>14, <1>15, <1>16, <1>17, <1>18, <1>19, <1>20, <1>21, <1>22, <1>23 DEF Engine, Thread

LEMMA DownStep ==
    ASSUME IInv, DownOnceFailed, [Next]_vars
    PROVE  DownOnceFailed'
<1> USE DEF IInv, TypeOK
<1>1. CASE UNCHANGED <<down, failed>>
  BY <1>1 DEF DownOnceFailed
<1>2. ASSUME NEW s \in Step, CallFails(s)
      PROVE  DownOnceFailed'
  BY <1>2, Ofs DEF CallFails, DownOnceFailed, WorkTypes
<1>3. ASSUME NEW s \in Step, Engine(s) \/ Thread(s) \/ CallFails(s) \/ StreamFails(s)
      PROVE  DownOnceFailed'
  <2>1. UNCHANGED <<down, failed>> \/ CallFails(s)
    BY <1>3 DEF Engine, Thread, LookUp, Looked, Run, Record, RememberRead, RememberWrite, Uploaded, Begin, AskNot, AskNone, AskFound, Get, Read, Lost, StoreRecord, MergeRead, MergeWrite, SendNot, Send, Put, PutResult, StreamFails
  <2>2. QED
    BY <1>1, <1>2, <1>3, <2>1
<1>4. QED
  BY <1>1, <1>3 DEF Next, Drop, vars

LEMMA UploadStep == UploadInv /\ [Next]_vars => UploadInv'
<1> SUFFICES ASSUME UploadInv, [Next]_vars
             PROVE  UploadInv'
  OBVIOUS
<1>1. IInv' /\ DownOnceFailed'
  BY StepHolds, DownStep DEF UploadInv
<1>2. ASSUME NEW s \in Step, Engine(s) \/ Thread(s) \/ CallFails(s) \/ StreamFails(s), NEW t \in Step
      PROVE  WillUpload(t)'
  <2>1. Leaves(s) /\ Elsewhere(s) /\ Grows
    BY <1>2, LeavesOthers, OneActs DEF UploadInv, IInv
  <2>2. CASE t = s
    BY <1>2, <2>2, OneUploads
  <2>3. CASE t # s
    BY <1>2, <2>1, <2>3, OthersWillUpload DEF UploadInv, IInv
  <2>4. QED
    BY <2>2, <2>3
<1>3. ASSUME Drop, NEW t \in Step
      PROVE  WillUpload(t)'
  <2>1. /\ UNCHANGED <<records, at, job, key, got, made>>
        /\ dropped' # 0
    BY <1>3 DEF Drop, disk, work, UploadInv, IInv, TypeOK, CacheTypes
  <2>2. WillUpload(t)
    BY DEF UploadInv
  <2>3. Recorded(t)' = Recorded(t) /\ ~Clean(t)'
    BY <2>1 DEF Recorded, Of, Clean
  <2>4. QED
    BY <2>1, <2>2, <2>3 DEF WillUpload
<1>4. ASSUME UNCHANGED vars, NEW t \in Step
      PROVE  WillUpload(t)'
  <2>1. UNCHANGED <<records, cas, results, dropped, at, job, key, got, made, failed>> /\ WillUpload(t)
    BY <1>4 DEF vars, disk, cache, work, UploadInv
  <2>2. QED
    BY <2>1 DEF WillUpload, Recorded, Of, Clean
<1>5. QED
  BY <1>1, <1>2, <1>3, <1>4 DEF Next, UploadInv

LEMMA UploadInit == Init => UploadInv
<1> SUFFICES ASSUME Init PROVE UploadInv
  OBVIOUS
<1>1. DownOnceFailed
  BY DEF Init, DownOnceFailed
<1>2. ASSUME NEW s \in Step PROVE WillUpload(s)
  <2>1. at[s] = "new" /\ job[s] = None /\ made[s] = None
    BY DEF Init
  <2>2. None # "upload"
    BY NamesAssumption
  <2>3. QED
    BY <2>1, <2>2 DEF WillUpload
<1>3. QED
  BY <1>1, <1>2, InitHolds DEF UploadInv

LEMMA UploadsHold == Spec => []UploadInv
  BY UploadInit, UploadStep, PTL DEF Spec

\* A build that is over, and none of whose calls failed, has written each
\* record it made to a cache that drops nothing, whatever other builds and other
\* threads do meanwhile (Run::finish_uploads, uploaded of pool.rs).
THEOREM RecordsAreUploaded == Spec => []EndsUploaded
<1>1. UploadInv => EndsUploaded
  BY Ofs DEF UploadInv, EndsUploaded, WillUpload, Clean, Late, Early
<1>2. QED
  BY <1>1, UploadsHold, PTL

-----------------------------------------------------------------------------
(* A store that one step uses keeps its sets. *)

\* What a step of a store of its own is to write its manifest from is still the
\* store's.
HasSets(s) == Alone(Of(s)) /\ at[s] \in {"remembering", "writing"} => had[s] = Sets(Of(s))

SetsInv == IInv /\ \A s \in Step : HasSets(s)

\* Only the step itself uses such a store.
LEMMA AloneIsOne ==
    ASSUME NEW s \in Step, NEW t \in Step, Alone(Of(s)), Of(t) = Of(s)
    PROVE  t = s
  BY DEF Alone

\* A step writes its store's manifest from what it has, or not at all.
LEMMA ManifestWrites ==
    ASSUME NEW s \in Step, IInv, Engine(s) \/ Thread(s) \/ CallFails(s) \/ StreamFails(s)
    PROVE  /\ \A st \in Store \ {Of(s)} : Sets(st)' = Sets(st)
           /\ \/ Sets(Of(s))' = Sets(Of(s))
              \/ /\ at[s] \in {"remembering", "writing"}
                 /\ at'[s] \notin {"remembering", "writing"}
                 /\ had[s] \subseteq Sets(Of(s))'
<1> USE DEF IInv, TypeOK
<1>0. \A st \in Store \ {Of(s)} : Sets(st)' = Sets(st)
  BY LeavesOthers DEF Leaves, Sets
<1>1. CASE UNCHANGED records
  BY <1>0, <1>1 DEF Sets, Of
<1>2. CASE Record(s) \/ StoreRecord(s)
  <2>1. PICK v : records' = [records EXCEPT ![Of(s)] = [@ EXCEPT ![KeyOf[s]] = v]]
    BY <1>2 DEF Record, StoreRecord
  <2>2. records'[Of(s)][Manifest] = records[Of(s)][Manifest]
    BY <2>1, Ofs DEF StoreTypes, Kept
  <2>3. QED
    BY <1>0, <2>2 DEF Sets, Of
<1>3. CASE RememberWrite(s)
  <2> DEFINE new == [sets |-> had[s] \cup {KeyOf[s]}]
  <2>1. at[s] = "remembering" /\ at'[s] \notin {"remembering", "writing"}
    BY <1>3 DEF RememberWrite, Goes, Queue, PlaceTypes
  <2>2. new \in Manifests
    BY Ofs DEF WorkTypes, Manifests
  <2>3. CASE records' = [records EXCEPT ![Of(s)] = [@ EXCEPT ![Manifest] = new]]
    <3>1. records'[Of(s)][Manifest] = new /\ new # None
      BY <2>2, <2>3, Ofs, ManifestsName DEF StoreTypes, Kept
    <3>2. had[s] \subseteq Sets(Of(s))'
      BY <3>1 DEF Sets, Of
    <3>3. QED
      BY <1>0, <2>1, <3>2
  <2>4. QED
    BY <1>1, <1>3, <2>3 DEF RememberWrite
<1>4. CASE MergeWrite(s)
  <2> DEFINE new == [sets |-> had[s] \cup got[s].record.sets]
  <2>1. at[s] = "writing" /\ at'[s] \notin {"remembering", "writing"}
    BY <1>4 DEF MergeWrite, Goes, WithNone, PlaceTypes
  <2>2. new \in Manifests
    <3>1. got[s] \in ResultsOf(Manifest)
      BY <1>4 DEF MergeWrite, AllInHand, InHand, Holding
    <3>2. got[s].record.sets \subseteq Key
      BY <3>1, ManifestsName DEF ResultsOf, RecordsOf
    <3>3. QED
      BY <3>2 DEF WorkTypes, Manifests
  <2>3. CASE records' = [records EXCEPT ![Of(s)] = [@ EXCEPT ![Manifest] = new]]
    <3>1. records'[Of(s)][Manifest] = new /\ new # None
      BY <2>2, <2>3, Ofs, ManifestsName DEF StoreTypes, Kept
    <3>2. had[s] \subseteq Sets(Of(s))'
      BY <3>1 DEF Sets, Of
    <3>3. QED
      BY <1>0, <2>1, <3>2
  <2>4. QED
    BY <1>1, <1>4, <2>3 DEF MergeWrite
<1>5. \/ UNCHANGED records
      \/ Record(s) \/ RememberWrite(s) \/ StoreRecord(s) \/ MergeWrite(s)
  BY DEF Engine, Thread, disk, LookUp, Looked, Run, RememberRead, Uploaded, Begin, AskNot, AskNone, AskFound, Get, Read, Lost, MergeRead, SendNot, Send, Put, PutResult, CallFails, StreamFails
<1>6. QED
  BY <1>1, <1>2, <1>3, <1>4, <1>5

\* It comes to write once it has read its store's.
LEMMA ReadsBeforeWriting ==
    ASSUME NEW s \in Step, IInv, Engine(s) \/ Thread(s) \/ CallFails(s) \/ StreamFails(s),
           at'[s] \in {"remembering", "writing"}
    PROVE  had'[s] = Sets(Of(s)) /\ UNCHANGED records
<1> USE DEF IInv, TypeOK, PlaceTypes, WorkTypes
<1>1. CASE LookUp(s)
  BY <1>1 DEF LookUp, disk, Goes, Queue, WithNone, NextOf
<1>2. CASE Looked(s)
  BY <1>2 DEF Looked, disk, Goes, Queue, WithNone, NextOf
<1>3. CASE Run(s)
  BY <1>3 DEF Run, disk, Goes, Queue, WithNone, NextOf
<1>4. CASE Record(s)
  BY <1>4 DEF Record, disk, Goes, Queue, WithNone, NextOf
<1>5. CASE RememberRead(s)
  BY <1>5 DEF RememberRead, disk, Goes, Queue, WithNone, NextOf
<1>6. CASE RememberWrite(s)
  BY <1>6 DEF RememberWrite, disk, Goes, Queue, WithNone, NextOf
<1>7. CASE Uploaded(s)
  BY <1>7 DEF Uploaded, disk, Goes, Queue, WithNone, NextOf
<1>8. CASE Begin(s)
  BY <1>8 DEF Begin, disk, Goes, Queue, WithNone, NextOf
<1>9. CASE AskNot(s)
  BY <1>9 DEF AskNot, disk, Goes, Queue, WithNone, NextOf
<1>10. CASE AskNone(s)
  BY <1>10 DEF AskNone, disk, Goes, Queue, WithNone, NextOf
<1>11. CASE AskFound(s)
  BY <1>11 DEF AskFound, disk, Goes, Queue, WithNone, NextOf
<1>12. CASE Get(s)
  BY <1>12 DEF Get, disk, Goes, Queue, WithNone, NextOf
<1>13. CASE Read(s)
  BY <1>13 DEF Read, disk, Goes, Queue, WithNone, NextOf
<1>14. CASE Lost(s)
  BY <1>14 DEF Lost, disk, Goes, Queue, WithNone, NextOf
<1>15. CASE StoreRecord(s)
  BY <1>15 DEF StoreRecord, disk, Goes, Queue, WithNone, NextOf
<1>16. CASE MergeRead(s)
  BY <1>16 DEF MergeRead, disk, Goes, Queue, WithNone, NextOf
<1>17. CASE MergeWrite(s)
  BY <1>17 DEF MergeWrite, disk, Goes, Queue, WithNone, NextOf
<1>18. CASE SendNot(s)
  BY <1>18 DEF SendNot, disk, Goes, Queue, WithNone, NextOf
<1>19. CASE Send(s)
  BY <1>19 DEF Send, disk, Goes, Queue, WithNone, NextOf
<1>20. CASE Put(s)
  BY <1>20 DEF Put, disk, Goes, Queue, WithNone, NextOf
<1>21. CASE PutResult(s)
  BY <1>21 DEF PutResult, disk, Goes, Queue, WithNone, NextOf
<1>22. CASE CallFails(s)
  BY <1>22 DEF CallFails, disk, Goes, Queue, WithNone, NextOf
<1>23. CASE StreamFails(s)
  BY <1>23 DEF StreamFails, disk, Goes, Queue, WithNone, NextOf
<1>24. QED
  BY <1>1, <1>2, <1>3, <1>4, <1>5, <1>6, <1>7, <1>8, <1>9, <1>10, <1>11, <1>12, <1>13, <1>14, <1>15, <1>16, <1>17, <1>18, <1>19, <1>20, <1>21, <1>22, <1>23 DEF Engine, Thread

LEMMA SetsStep ==
    ASSUME SetsInv, [Next]_vars
    PROVE  (\A s \in Step : HasSets(s)') /\ (\A st \in Store : Alone(st) => Sets(st) \subseteq Sets(st)')
<1> USE DEF SetsInv
<1>1. ASSUME NEW s \in Step, Engine(s) \/ Thread(s) \/ CallFails(s) \/ StreamFails(s), NEW t \in Step
      PROVE  HasSets(t)'
  <2>1. CASE t = s
    <3>1. SUFFICES ASSUME at'[s] \in {"remembering", "writing"}
                   PROVE  had'[s] = Sets(Of(s))'
      BY <2>1 DEF HasSets, Of
    <3>2. QED
      BY <1>1, <3>1, ReadsBeforeWriting DEF Sets, Of
  <2>2. CASE t # s
    <3>1. SUFFICES ASSUME Alone(Of(t)), at'[t] \in {"remembering", "writing"}
                   PROVE  had'[t] = Sets(Of(t))'
      BY DEF HasSets, Of, Alone
    <3>2. Of(t) \in Store \ {Of(s)}
      BY <2>2, <3>1, AloneIsOne, Ofs
    <3>3. had'[t] = had[t] /\ at'[t] = at[t]
      BY <1>1, <2>2, LeavesOthers, OneActs DEF Leaves, Elsewhere, IInv
    <3>4. Sets(Of(t))' = Sets(Of(t))
      BY <1>1, <3>2, ManifestWrites DEF Of
    <3>5. QED
      BY <3>1, <3>3, <3>4 DEF HasSets
  <2>3. QED
    BY <2>1, <2>2
<1>2. ASSUME NEW s \in Step, Engine(s) \/ Thread(s) \/ CallFails(s) \/ StreamFails(s),
             NEW st \in Store, Alone(st)
      PROVE  Sets(st) \subseteq Sets(st)'
  <2>1. CASE st = Of(s)
    <3>1. HasSets(s)
      OBVIOUS
    <3>2. QED
      BY <1>2, <2>1, <3>1, ManifestWrites DEF HasSets
  <2>2. CASE st # Of(s)
    BY <1>2, <2>2, ManifestWrites
  <2>3. QED
    BY <2>1, <2>2
<1>3. CASE Drop \/ UNCHANGED vars
  <2>1. UNCHANGED <<records, at, had>>
    BY <1>3 DEF Drop, vars, disk, work
  <2>2. \A st : Sets(st)' = Sets(st)
    BY <2>1 DEF Sets
  <2>3. QED
    BY <2>1, <2>2 DEF HasSets, Of, Alone
<1>4. QED
  BY <1>1, <1>2, <1>3 DEF Next

LEMMA SetsHold == Spec => []SetsInv
<1>1. Init => SetsInv
  BY InitHolds DEF Init, SetsInv, HasSets
<1>2. SetsInv /\ [Next]_vars => SetsInv'
  BY SetsStep, StepHolds DEF SetsInv
<1>3. QED
  BY <1>1, <1>2, PTL DEF Spec

\* A store that only one step uses never loses a set of its manifest, though the
\* cache's, which it is merged with, may have lost any (merge_remote_manifest,
\* Run::remember_reads).
THEOREM AloneStoresKeep == Spec => AloneKeeps
<1>1. SetsInv /\ [Next]_vars
        => [\A st \in Store : Alone(st) => Sets(st) \subseteq Sets(st)']_vars
  BY SetsStep
<1>2. QED
  BY <1>1, SetsHold, PTL DEF Spec, AloneKeeps

-----------------------------------------------------------------------------
(* A cache that failed is not asked again. *)

\* The steps of a build its pool's threads are about, and those of them with a
\* call under way that was begun before.
Threading(b) == {s \in Step : BuildOf[s] = b /\ at[s] \in OnThread}
UnderWay(b) == {s \in Step : BuildOf[s] = b /\ at[s] \in {"getting", "putting"}}

\* No more fail than there were under way as the first did.
FailuresBounded ==
    \A b \in Build :
        /\ Cardinality(Threading(b)) <= Threads
        /\ ~down[b] => failed[b] = 0
        /\ down[b] => failed[b] + Cardinality(UnderWay(b)) <= Threads

FailsInv == TypeOK /\ FailuresBounded

LEMMA ThreadingIsFinite ==
    ASSUME NEW b
    PROVE  /\ IsFiniteSet(Threading(b)) /\ IsFiniteSet(Threading(b)')
           /\ IsFiniteSet(UnderWay(b)) /\ IsFiniteSet(UnderWay(b)')
           /\ Cardinality(Threading(b)) \in Nat /\ Cardinality(UnderWay(b)) \in Nat
           /\ Cardinality(Threading(b)') \in Nat /\ Cardinality(UnderWay(b)') \in Nat
<1>1. /\ IsFiniteSet(Threading(b)) /\ IsFiniteSet(Threading(b)')
      /\ IsFiniteSet(UnderWay(b)) /\ IsFiniteSet(UnderWay(b)')
  BY StepsAssumption, FS_Subset DEF Threading, UnderWay
<1>2. QED
  BY <1>1, FS_CardinalityType

\* A thread begins a job, and nothing else comes to be on a thread; no call is
\* begun once the cache is down.
LEMMA CallsAreBegun ==
    ASSUME NEW s \in Step, TypeOK, Engine(s) \/ Thread(s) \/ CallFails(s) \/ StreamFails(s)
    PROVE  /\ at'[s] \in OnThread => at[s] \in OnThread \/ Begin(s)
           /\ at'[s] \in {"getting", "putting"} /\ down[BuildOf[s]] => at[s] \in {"getting", "putting"}
           /\ UNCHANGED <<down, failed>> \/ CallFails(s)
<1> USE DEF TypeOK, PlaceTypes, OnThread
<1>1. CASE LookUp(s)
  BY <1>1 DEF LookUp, Goes, Queue, WithNone, NextOf
<1>2. CASE Looked(s)
  BY <1>2 DEF Looked, Goes, Queue, WithNone, NextOf
<1>3. CASE Run(s)
  BY <1>3 DEF Run, Goes, Queue, WithNone, NextOf
<1>4. CASE Record(s)
  BY <1>4 DEF Record, Goes, Queue, WithNone, NextOf
<1>5. CASE RememberRead(s)
  BY <1>5 DEF RememberRead, Goes, Queue, WithNone, NextOf
<1>6. CASE RememberWrite(s)
  BY <1>6 DEF RememberWrite, Goes, Queue, WithNone, NextOf
<1>7. CASE Uploaded(s)
  BY <1>7 DEF Uploaded, Goes, Queue, WithNone, NextOf
<1>8. CASE Begin(s)
  BY <1>8 DEF Begin, Goes, Queue, WithNone, NextOf
<1>9. CASE AskNot(s)
  BY <1>9 DEF AskNot, Goes, Queue, WithNone, NextOf
<1>10. CASE AskNone(s)
  BY <1>10 DEF AskNone, Goes, Queue, WithNone, NextOf
<1>11. CASE AskFound(s)
  BY <1>11 DEF AskFound, Goes, Queue, WithNone, NextOf
<1>12. CASE Get(s)
  BY <1>12 DEF Get, Goes, Queue, WithNone, NextOf
<1>13. CASE Read(s)
  BY <1>13 DEF Read, Goes, Queue, WithNone, NextOf
<1>14. CASE Lost(s)
  BY <1>14 DEF Lost, Goes, Queue, WithNone, NextOf
<1>15. CASE StoreRecord(s)
  BY <1>15 DEF StoreRecord, Goes, Queue, WithNone, NextOf
<1>16. CASE MergeRead(s)
  BY <1>16 DEF MergeRead, Goes, Queue, WithNone, NextOf
<1>17. CASE MergeWrite(s)
  BY <1>17 DEF MergeWrite, Goes, Queue, WithNone, NextOf
<1>18. CASE SendNot(s)
  BY <1>18 DEF SendNot, Goes, Queue, WithNone, NextOf
<1>19. CASE Send(s)
  BY <1>19 DEF Send, Goes, Queue, WithNone, NextOf
<1>20. CASE Put(s)
  BY <1>20 DEF Put, Goes, Queue, WithNone, NextOf
<1>21. CASE PutResult(s)
  BY <1>21 DEF PutResult, Goes, Queue, WithNone, NextOf
<1>22. CASE CallFails(s)
  BY <1>22 DEF CallFails, Goes, Queue, WithNone, NextOf
<1>23. CASE StreamFails(s)
  BY <1>23 DEF StreamFails, Goes, Queue, WithNone, NextOf
<1>24. QED
  BY <1>1, <1>2, <1>3, <1>4, <1>5, <1>6, <1>7, <1>8, <1>9, <1>10, <1>11, <1>12, <1>13, <1>14, <1>15, <1>16, <1>17, <1>18, <1>19, <1>20, <1>21, <1>22, <1>23 DEF Engine, Thread

\* Threads are as many as the pool has.
LEMMA ThreadsBounded ==
    ASSUME NEW s \in Step, FailsInv, Engine(s) \/ Thread(s) \/ CallFails(s) \/ StreamFails(s),
           NEW b \in Build
    PROVE  Cardinality(Threading(b)') <= Threads
<1> USE DEF FailsInv
<1>0. Threads \in Nat /\ Cardinality(Threading(b)) <= Threads
  BY NamesAssumption DEF FailuresBounded
<1>1. \A t \in Step \ {s} : at'[t] = at[t]
  BY OneActs DEF Elsewhere
<1>2. CASE Begin(s) /\ BuildOf[s] = b
  <2>1. Threading(b)' \subseteq Threading(b) \cup {s}
    BY <1>1 DEF Threading
  <2>2. Cardinality(Threading(b)) < Threads
    BY <1>2 DEF Begin, ThreadIsFree, Threading
  <2>3. /\ IsFiniteSet(Threading(b) \cup {s})
        /\ Cardinality(Threading(b) \cup {s}) <= Cardinality(Threading(b)) + 1
    <3>1. /\ IsFiniteSet(Threading(b) \cup {s})
          /\ \/ Cardinality(Threading(b) \cup {s}) = Cardinality(Threading(b)) /\ s \in Threading(b)
             \/ Cardinality(Threading(b) \cup {s}) = Cardinality(Threading(b)) + 1
      BY ThreadingIsFinite, FS_AddElement
    <3>2. QED
      BY <3>1, ThreadingIsFinite
  <2>4. Cardinality(Threading(b)') <= Cardinality(Threading(b) \cup {s})
    BY <2>1, <2>3, FS_Subset
  <2>5. QED
    BY <1>0, <2>2, <2>3, <2>4, ThreadingIsFinite, FS_CardinalityType
<1>3. CASE ~(Begin(s) /\ BuildOf[s] = b)
  <2>1. Threading(b)' \subseteq Threading(b)
    BY <1>1, <1>3, CallsAreBegun DEF Threading
  <2>2. Cardinality(Threading(b)') <= Cardinality(Threading(b))
    BY <2>1, ThreadingIsFinite, FS_Subset
  <2>3. QED
    BY <1>0, <2>2, ThreadingIsFinite
<1>4. QED
  BY <1>2, <1>3

LEMMA FailuresStep ==
    ASSUME NEW s \in Step, FailsInv, Engine(s) \/ Thread(s) \/ CallFails(s) \/ StreamFails(s),
           NEW b \in Build
    PROVE  /\ ~down'[b] => failed'[b] = 0
           /\ down'[b] => failed'[b] + Cardinality(UnderWay(b)') <= Threads
<1> USE DEF FailsInv
<1>0. /\ Threads \in Nat /\ Cardinality(Threading(b)) <= Threads
      /\ ~down[b] => failed[b] = 0
      /\ down[b] => failed[b] + Cardinality(UnderWay(b)) <= Threads
      /\ failed[b] \in Nat
  BY NamesAssumption DEF FailuresBounded, TypeOK, WorkTypes
<1>1. \A t \in Step \ {s} : at'[t] = at[t]
  BY OneActs DEF Elsewhere
<1>2. CASE CallFails(s) /\ BuildOf[s] = b
  <2>1. failed'[b] = failed[b] + 1 /\ down'[b] /\ at'[s] = "ended"
    BY <1>2 DEF CallFails, Goes, TypeOK, PlaceTypes, WorkTypes
  <2>2. UnderWay(b)' \subseteq UnderWay(b) \ {s}
    BY <1>1, <2>1 DEF UnderWay
  <2>3. CASE down[b]
    <3>1. s \in UnderWay(b)
      BY <1>2, <2>3 DEF CallFails, Calling, UnderWay
    <3>2. Cardinality(UnderWay(b)') <= Cardinality(UnderWay(b) \ {s})
      BY <2>2, ThreadingIsFinite, FS_Subset, FS_RemoveElement
    <3>3. Cardinality(UnderWay(b) \ {s}) = Cardinality(UnderWay(b)) - 1
      BY <3>1, ThreadingIsFinite, FS_RemoveElement
    <3>4. QED
      BY <1>0, <2>1, <2>3, <3>2, <3>3, ThreadingIsFinite
  <2>4. CASE ~down[b]
    <3>1. s \in Threading(b)
      BY <1>2 DEF CallFails, Calling, Threading, OnThread
    <3>2. UnderWay(b)' \subseteq Threading(b) \ {s}
      BY <2>2 DEF UnderWay, Threading, OnThread
    <3>3. Cardinality(UnderWay(b)') <= Cardinality(Threading(b) \ {s})
      BY <3>2, ThreadingIsFinite, FS_Subset, FS_RemoveElement
    <3>4. Cardinality(Threading(b) \ {s}) = Cardinality(Threading(b)) - 1
      BY <3>1, ThreadingIsFinite, FS_RemoveElement
    <3>5. QED
      BY <1>0, <2>1, <2>4, <3>3, <3>4, ThreadingIsFinite
  <2>5. QED
    BY <2>3, <2>4
<1>3. CASE ~(CallFails(s) /\ BuildOf[s] = b)
  <2>1. down'[b] = down[b] /\ failed'[b] = failed[b]
    BY <1>3, CallsAreBegun, Ofs DEF CallFails, TypeOK, WorkTypes
  <2>2. CASE down[b]
    <3>1. UnderWay(b)' \subseteq UnderWay(b)
      BY <1>1, <2>2, CallsAreBegun DEF UnderWay
    <3>2. Cardinality(UnderWay(b)') <= Cardinality(UnderWay(b))
      BY <3>1, ThreadingIsFinite, FS_Subset
    <3>3. QED
      BY <1>0, <2>1, <2>2, <3>2, ThreadingIsFinite
  <2>3. QED
    BY <1>0, <2>1, <2>2
<1>4. QED
  BY <1>2, <1>3

LEMMA FailsHold == Spec => []FailuresBounded
<1>1. Init => FailuresBounded
  <2>1. SUFFICES ASSUME Init, NEW b \in Build
                 PROVE  Threading(b) = {} /\ failed[b] = 0 /\ ~down[b]
    BY FS_EmptySet, NamesAssumption DEF FailuresBounded
  <2>2. QED
    BY <2>1 DEF Init, Threading, OnThread
<1>2. TypeOK /\ FailuresBounded /\ [Next]_vars => FailuresBounded'
  <2>1. SUFFICES ASSUME FailsInv, [Next]_vars
                 PROVE  FailuresBounded'
    BY DEF FailsInv
  <2>2. ASSUME NEW s \in Step, Engine(s) \/ Thread(s) \/ CallFails(s) \/ StreamFails(s)
        PROVE  FailuresBounded'
    BY <2>1, <2>2, ThreadsBounded, FailuresStep DEF FailuresBounded
  <2>3. CASE Drop \/ UNCHANGED vars
    <3>1. UNCHANGED <<at, down, failed>>
      BY <2>3 DEF Drop, vars, work
    <3>2. QED
      BY <2>1, <3>1 DEF FailsInv, FailuresBounded, Threading, UnderWay
  <2>4. QED
    BY <2>1, <2>2, <2>3 DEF Next
<1>3. QED
  BY <1>1, <1>2, Types, PTL DEF Spec

\* However many calls a build begins, no more fail than its pool has threads:
\* "Once a call fails ... the process asks it nothing more" (Remote::noted).
THEOREM FailuresAreFew == Spec => []FailsOnce
<1>1. TypeOK /\ FailuresBounded => FailsOnce
  <2>1. SUFFICES ASSUME TypeOK, FailuresBounded, NEW b \in Build
                 PROVE  failed[b] <= Threads
    BY DEF FailsOnce
  <2>2. failed[b] \in Nat /\ Threads \in Nat
    BY <2>1, NamesAssumption DEF TypeOK, WorkTypes
  <2>3. QED
    BY <2>1, <2>2, ThreadingIsFinite DEF FailuresBounded
<1>2. QED
  BY <1>1, FailsHold, Types, PTL
=============================================================================
