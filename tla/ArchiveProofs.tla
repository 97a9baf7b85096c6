----------------------------- MODULE ArchiveProofs -----------------------------
(* Proofs about Archive for any batches, batch size and number of crashes, *)
(* alone and with the readers of Replay.                                   *)
EXTENDS Replay, FiniteSetTheorems, TLAPS

-----------------------------------------------------------------------------
(* The topics.                                                             *)

StoreTyped == raw \in Seq(Receipt) /\ receipts \in Seq(SUBSET Receipt)

(* The records are the pairs of a topic and an offset in it.               *)
LEMMA AcceptedRecords ==
    ASSUME StoreTyped
    PROVE  /\ Accepted \subseteq Topic \X Nat
           /\ \A t \in Topic : \A n \in Nat : <<t, n>> \in Accepted <=> n \in 1..Len(Log(t))
           /\ \A t \in Topic : Len(Log(t)) \in Nat
  <1>1. \A t \in Topic : Len(Log(t)) \in Nat /\ DOMAIN Log(t) = 1..Len(Log(t))
    BY DEF Topic, Log, StoreTyped
  <1> QED
    BY <1>1 DEF Accepted, Topic

(* Topics only grow.                                                       *)
LEMMA AcceptedGrows ==
    ASSUME StoreTyped, Accepts
    PROVE  /\ StoreTyped'
           /\ \A t \in Topic : Len(Log(t)) <= Len(Log(t)')
           /\ Accepted \subseteq Accepted'
  <1> USE DEF StoreTyped
  <1> DEFINE accepted == Batches[Len(receipts) + 1]
  <1>1. Len(receipts) + 1 \in DOMAIN Batches
    BY BatchesAssumption DEF Accepts
  <1>2. accepted \in Seq(Receipt)
    BY <1>1, BatchesAssumption
  <1>3. ToSet(accepted) \subseteq Receipt
    BY <1>2 DEF ToSet
  <1>4. raw' = raw \o accepted /\ receipts' = Append(receipts, ToSet(accepted))
    BY DEF Accepts
  <1>5. raw' \in Seq(Receipt) /\ Len(raw') >= Len(raw)
    BY <1>2, <1>4
  <1>6. receipts' \in Seq(SUBSET Receipt) /\ Len(receipts') >= Len(receipts)
    BY <1>3, <1>4
  <1>7. \A t \in Topic : Len(Log(t)) <= Len(Log(t)') /\ DOMAIN Log(t) \subseteq DOMAIN Log(t)'
    BY <1>5, <1>6 DEF Topic, Log
  <1>8. Accepted \subseteq Accepted'
    BY <1>7 DEF Accepted, Topic, Log
  <1> QED
    BY <1>5, <1>6, <1>7, <1>8

-----------------------------------------------------------------------------
(* The inductive invariant.                                                *)

Typed ==
    /\ StoreTyped
    /\ position \in [Topic -> Nat] /\ committed \in [Topic -> Nat]
    /\ TypeOK

(* Whatever the worker consumed is archived or in its hands.               *)
ConsumedKept == \A t \in Topic : \A n \in 1..position[t] : <<t, n>> \in Archived \cup batch

(* The batch ends where the worker's position is.                          *)
BatchEnds == \A r \in batch : r[2] <= position[r[1]] /\ <<r[1], position[r[1]]>> \in batch

(* What the steps before this one have put there.                          *)
PutSoFar ==
    /\ step \in {"manifest", "commit"} => batch \in data
    /\ step = "commit" => batch \in manifests

Inv == Typed /\ ConsumedKept /\ BatchEnds /\ PutSoFar /\ ManifestHasData /\ CommittedArchived

-----------------------------------------------------------------------------
(* The offset to go on from is the worker's position in the topics of its  *)
(* batch.                                                                  *)
LEMMA OffsetsArePositions ==
    ASSUME Typed, BatchEnds
    PROVE  Offsets = [t \in Topic |-> IF \E r \in batch : r[1] = t THEN position[t] ELSE committed[t]]
  <1>1. SUFFICES ASSUME NEW t \in Topic, NEW r \in batch, r[1] = t
                 PROVE  (CHOOSE n \in 1..Len(Log(t)) :
                            /\ <<t, n>> \in batch
                            /\ \A s \in batch : s[1] = t => s[2] <= n) = position[t]
    BY DEF Offsets
  <1>2. <<t, position[t]>> \in batch /\ \A s \in batch : s[1] = t => s[2] <= position[t]
    BY <1>1 DEF BatchEnds
  <1>3. position[t] \in 1..Len(Log(t))
    BY <1>2, AcceptedRecords DEF Typed, TypeOK
  <1>4. ASSUME NEW n \in 1..Len(Log(t)), <<t, n>> \in batch,
               \A s \in batch : s[1] = t => s[2] <= n
        PROVE  n = position[t]
    BY <1>2, <1>3, <1>4
  <1> QED
    BY <1>2, <1>3, <1>4

-----------------------------------------------------------------------------
(* Nothing was accepted, consumed or put at the start.                     *)
LEMMA InitInv == Init => Inv
  <1> SUFFICES ASSUME Init PROVE Inv
    OBVIOUS
  <1> USE DEF Init, StoreInit
  <1>1. Typed
    <2>1. StoreTyped
      BY DEF StoreTyped
    <2>2. \A t \in Topic : position[t] = 0 /\ committed[t] = 0 /\ Len(Log(t)) = 0
      BY DEF Log
    <2>3. crashes \in 0..MaxCrashes
      BY ArchiveAssumption
    <2> QED
      BY <2>1, <2>2, <2>3 DEF Typed, TypeOK
  <1>2. ConsumedKept /\ CommittedArchived
    BY DEF ConsumedKept, CommittedArchived
  <1> QED
    BY <1>1, <1>2 DEF Inv, BatchEnds, PutSoFar, ManifestHasData

(* Type correctness is inductive once the batch is known to end where the  *)
(* position is (worker.py:51-92).                                          *)
LEMMA TypedStep == Inv /\ [Next]_vars => Typed'
  <1> SUFFICES ASSUME Inv, [Next]_vars PROVE Typed'
    OBVIOUS
  <1> USE DEF Inv, Typed, TypeOK, StoreTyped
  <1>1. CASE Accept
    <2>1. /\ StoreTyped'
          /\ \A t \in Topic : Len(Log(t)) <= Len(Log(t)')
          /\ Accepted \subseteq Accepted'
      BY <1>1, AcceptedGrows DEF Accept
    <2>2. UNCHANGED <<step, batch, position, committed, data, manifests, crashes>>
      BY <1>1 DEF Accept, Accepts
    <2>3. \A t \in Topic : Len(Log(t)) \in Nat /\ Len(Log(t)') \in Nat
      BY <2>1 DEF Topic, Log
    <2>4. \A t \in Topic : position'[t] <= Len(Log(t)')
      BY <2>1, <2>2, <2>3
    <2>5. \A t \in Topic : committed'[t] <= position'[t] /\ position'[t] <= Len(Log(t))'
      BY <2>2, <2>4 DEF Topic, Log
    <2> QED
      BY <2>1, <2>2, <2>5
  <1>2. CASE Consumes
    <2>1. PICK upto \in [Topic -> 0..(Len(raw) + Len(receipts))] : Consume(upto)
      BY <1>2 DEF Consumes
    <2> USE <2>1 DEF Consume
    <2>2. UNCHANGED <<raw, receipts, committed, data, manifests, crashes, Accepted>>
      BY DEF Accepted, Log
    <2>3. \A t \in Topic : /\ Log(t)' = Log(t) /\ upto[t] \in Nat
                          /\ position[t] <= upto[t] /\ upto[t] <= Len(Log(t))
      BY <2>2 DEF Topic, Log
    <2>4. batch' \subseteq Accepted
      <3> SUFFICES ASSUME NEW t \in Topic, NEW n \in (position[t] + 1)..upto[t]
                   PROVE  <<t, n>> \in Accepted
        OBVIOUS
      <3>1. n \in 1..Len(Log(t))
        BY <2>3, AcceptedRecords
      <3> QED
        BY <3>1, AcceptedRecords
    <2>5. batch' # {}
      <3>1. Cardinality(batch') \in 1..BatchSize
        OBVIOUS
      <3>2. Cardinality({}) \notin 1..BatchSize
        BY FS_EmptySet, ArchiveAssumption
      <3> QED
        BY <3>1, <3>2
    <2>6. \A t \in Topic : committed'[t] <= position'[t] /\ position'[t] <= Len(Log(t))'
      BY <2>2, <2>3
    <2> QED
      BY <2>2, <2>4, <2>5, <2>6
  <1>3. CASE PutData \/ PutManifest \/ PutRaises
    <2>1. UNCHANGED <<raw, receipts, batch, position, committed, crashes, Accepted>>
      BY <1>3 DEF PutData, PutManifest, PutRaises, Accepted, Log
    <2>2. manifests' \cup data' \subseteq manifests \cup data \cup {batch}
      BY <1>3 DEF PutData, PutManifest, PutRaises
    <2>3. step # "consume" /\ step' \in {"data", "manifest", "commit"}
      BY <1>3 DEF PutData, PutManifest, PutRaises
    <2>4. \A t \in Topic : committed'[t] <= position'[t] /\ position'[t] <= Len(Log(t))'
      BY <2>1 DEF Log
    <2>5. batch' \subseteq Accepted' /\ manifests' \cup data' \subseteq SUBSET Accepted'
      <3>1. manifests \cup data \cup {batch} \subseteq SUBSET Accepted
        OBVIOUS
      <3> QED
        BY ONLY <2>1, <2>2, <3>1
    <2>6. step' = "consume" <=> batch' = {}
      BY <2>1, <2>3
    <2> QED
      BY <2>1, <2>3, <2>4, <2>5, <2>6
  <1>4. CASE Commit \/ CommitRaises
    <2>1. UNCHANGED <<raw, receipts, position, data, manifests, crashes, Accepted>>
      BY <1>4 DEF Commit, CommitRaises, Accepted, Log
    <2>2. Offsets \in [Topic -> Nat] /\ \A t \in Topic : Offsets[t] <= position[t]
      <3> DEFINE ends == [t \in Topic |-> IF \E r \in batch : r[1] = t THEN position[t] ELSE committed[t]]
      <3>1. \A t \in Topic : position[t] \in Nat /\ committed[t] \in Nat /\ committed[t] <= position[t]
        OBVIOUS
      <3>2. ends \in [Topic -> Nat] /\ \A t \in Topic : ends[t] <= position[t]
        BY <3>1
      <3>3. Offsets = ends
        BY OffsetsArePositions
      <3> QED
        BY <3>2, <3>3
    <2>3. committed' \in {committed, Offsets}
      BY <1>4 DEF Commit, CommitRaises
    <2>4. committed' \in [Topic -> Nat] /\ \A t \in Topic : committed'[t] <= position'[t]
      BY <2>1, <2>2, <2>3
    <2>5. batch' \subseteq Accepted /\ (step' = "consume" <=> batch' = {})
          /\ step' \in {"consume", "data", "manifest", "commit"}
      BY <1>4 DEF Commit, CommitRaises
    <2>6. \A t \in Topic : position'[t] <= Len(Log(t))'
      BY <2>1 DEF Log
    <2> QED
      BY <2>1, <2>4, <2>5, <2>6
  <1>5. CASE Crash
    <2>1. \A t \in Topic : committed[t] <= Len(Log(t))
      BY AcceptedRecords
    <2>2. UNCHANGED <<raw, receipts, committed, data, manifests, Accepted>> /\ position' = committed
      BY <1>5 DEF Crash, Accepted, Log
    <2>3. crashes' \in 0..MaxCrashes
      BY <1>5, ArchiveAssumption DEF Crash
    <2>4. \A t \in Topic : committed'[t] <= position'[t] /\ position'[t] <= Len(Log(t))'
      BY <2>1, <2>2 DEF Log
    <2>5. batch' = {} /\ step' = "consume"
      BY <1>5 DEF Crash
    <2> QED
      BY <2>2, <2>3, <2>4, <2>5
  <1>6. CASE UNCHANGED vars
    BY <1>6 DEF vars, storeVars, Accepted, Log
  <1> QED
    BY <1>1, <1>2, <1>3, <1>4, <1>5, <1>6 DEF Next

(* What is archived, and what is put there, stays.                         *)
LEMMA PutsStay == [Next]_vars => manifests \subseteq manifests' /\ data \subseteq data'
  BY DEF Next, vars, storeVars, Accept, Accepts, Consumes, Consume, PutData, PutManifest,
         PutRaises, Commit, CommitRaises, Crash

(* Every step of the worker keeps what it consumed in the archive or in its *)
(* hands (worker.py:51-92).                                                *)
LEMMA InvStep == Inv /\ [Next]_vars => Inv'
  <1> SUFFICES ASSUME Inv, [Next]_vars PROVE Inv'
    OBVIOUS
  <1> USE DEF Inv
  <1>1. Typed'
    BY TypedStep
  <1>2. Archived \subseteq Archived'
    BY PutsStay DEF Archived
  <1> USE DEF ConsumedKept, BatchEnds, PutSoFar, ManifestHasData, CommittedArchived
  <1>3. CASE Accept \/ UNCHANGED vars
    <2>1. UNCHANGED <<step, batch, position, committed, data, manifests, Archived>>
      BY <1>3 DEF Accept, Accepts, vars, storeVars, Archived
    <2> QED
      BY <1>1, <2>1
  <1>4. CASE Consumes
    <2>1. PICK upto \in [Topic -> 0..(Len(raw) + Len(receipts))] : Consume(upto)
      BY <1>4 DEF Consumes
    <2> USE <2>1 DEF Consume
    <2>2. \A t \in Topic : /\ position[t] \in Nat /\ upto[t] \in Nat
                          /\ position[t] <= upto[t]
      BY DEF Typed
    <2>3. UNCHANGED Archived /\ batch = {}
      BY DEF Typed, TypeOK, Archived
    <2>4. ConsumedKept'
      <3> SUFFICES ASSUME NEW t \in Topic, NEW n \in 1..upto[t]
                   PROVE  <<t, n>> \in Archived \cup batch'
        BY <2>3
      <3>1. CASE n \in 1..position[t]
        BY <3>1, <2>3
      <3>2. CASE n \in (position[t] + 1)..upto[t]
        BY <3>2
      <3> QED
        BY <3>1, <3>2, <2>2
    <2>5. BatchEnds'
      <3> SUFFICES ASSUME NEW t \in Topic, NEW n \in (position[t] + 1)..upto[t]
                   PROVE  n <= upto[t] /\ <<t, upto[t]>> \in batch'
        OBVIOUS
      <3>1. n <= upto[t] /\ upto[t] \in (position[t] + 1)..upto[t]
        BY <2>2
      <3> QED
        BY <3>1
    <2>6. (PutSoFar /\ ManifestHasData /\ CommittedArchived)'
      BY <2>3
    <2> QED
      BY <1>1, <2>4, <2>5, <2>6
  <1>5. CASE PutData \/ PutManifest \/ PutRaises
    <2>1. UNCHANGED <<batch, position, committed>>
      BY <1>5 DEF PutData, PutManifest, PutRaises
    <2>2. (ConsumedKept /\ BatchEnds /\ CommittedArchived)'
      BY <1>2, <2>1
    <2>3. (PutSoFar /\ ManifestHasData)'
      BY <1>5 DEF PutData, PutManifest, PutRaises
    <2> QED
      BY <1>1, <2>2, <2>3
  <1>6. CASE Commit \/ CommitRaises
    <2>1. UNCHANGED <<position, data, manifests, Archived>>
          /\ committed' \in {committed, Offsets} /\ step = "commit"
      BY <1>6 DEF Commit, CommitRaises, Archived
    <2>2. batch \subseteq Archived
      BY <2>1 DEF Archived
    <2>3. CommittedArchived'
      <3>1. SUFFICES ASSUME NEW t \in Topic, NEW n \in 1..committed'[t]
                     PROVE  <<t, n>> \in Archived
        BY <2>1
      <3>2. committed'[t] \in {position[t], committed[t]}
        BY <2>1, OffsetsArePositions
      <3>3. CASE committed'[t] = position[t]
        BY <3>3, <2>2
      <3>4. CASE committed'[t] = committed[t]
        BY <3>4
      <3> QED
        BY <3>2, <3>3, <3>4
    <2>4. ConsumedKept'
      BY <2>1, <2>2
    <2>5. (BatchEnds /\ PutSoFar /\ ManifestHasData)'
      BY <1>6, <2>1 DEF Commit, CommitRaises
    <2> QED
      BY <1>1, <2>3, <2>4, <2>5
  <1>7. CASE Crash
    <2>1. /\ UNCHANGED <<committed, data, manifests, Archived>>
          /\ step' = "consume" /\ batch' = {} /\ position' = committed
      BY <1>7 DEF Crash, Archived
    <2> QED
      BY <1>1, <2>1
  <1> QED
    BY <1>3, <1>4, <1>5, <1>6, <1>7 DEF Next

-----------------------------------------------------------------------------
(* The worker's steps keep its own picture of what is consumed, put and    *)
(* committed.                                                              *)
THEOREM InvCorrect == Spec => []Inv
  BY InitInv, InvStep, PTL DEF Spec

(* Offsets and objects only ever speak of accepted records, and the worker *)
(* has a batch exactly while it is at work on one (worker.py:43-92).       *)
THEOREM TypeCorrect == Spec => []TypeOK
  <1>1. Inv => TypeOK
    BY DEF Inv, Typed
  <1> QED
    BY <1>1, InvCorrect, PTL

(* A manifest is never there without the data it names (archive.py:78-88). *)
THEOREM ManifestHasDataCorrect == Spec => []ManifestHasData
  <1>1. Inv => ManifestHasData
    BY DEF Inv
  <1> QED
    BY <1>1, InvCorrect, PTL

(* Nothing is behind the committed offsets that is not archived, however   *)
(* batches are cut, retried and interrupted (worker.py:60-80).             *)
THEOREM CommittedArchivedCorrect == Spec => []CommittedArchived
  <1>1. Inv => CommittedArchived
    BY DEF Inv
  <1> QED
    BY <1>1, InvCorrect, PTL

(* The worker is the archive that its readers count on: an object has      *)
(* accepted records and stays (archive.py:51-59).                          *)
THEOREM StoreCorrect == Spec => StoreImplemented
  <1>1. Init => StoreInit
    BY DEF Init
  <1>2. Inv /\ [Next]_vars => [StoreNext]_storeVars
    <2> SUFFICES ASSUME Inv, [Next]_vars PROVE StoreNext \/ UNCHANGED storeVars
      BY DEF storeVars
    <2>1. batch \in SUBSET Accepted /\ (batch # {} <=> step # "consume")
      BY DEF Inv, Typed, TypeOK
    <2>2. CASE Accept
      BY <2>2 DEF Accept, StoreNext
    <2>3. CASE PutManifest \/ PutRaises
      <3>1. UNCHANGED <<raw, receipts>> /\ step # "consume"
            /\ (manifests' = manifests \/ manifests' = manifests \cup {batch})
        BY <2>3 DEF PutManifest, PutRaises
      <3>2. CASE manifests' = manifests
        BY <3>1, <3>2 DEF storeVars
      <3>3. CASE manifests' = manifests \cup {batch}
        <4>1. Archives(batch)
          BY <2>1, <3>1, <3>3 DEF Archives
        <4> QED
          BY <2>1, <4>1 DEF StoreNext
      <3> QED
        BY <3>1, <3>2, <3>3
    <2>4. CASE Consumes \/ PutData \/ Commit \/ CommitRaises \/ Crash \/ UNCHANGED vars
      BY <2>4 DEF Consumes, Consume, PutData, Commit, CommitRaises, Crash, vars, storeVars
    <2> QED
      BY <2>2, <2>3, <2>4 DEF Next
  <1> QED
    BY <1>1, <1>2, InvCorrect, PTL DEF Spec, StoreImplemented, StoreSpec

(* The readers only read: beside them the worker does what it does alone,  *)
(* so that all of the above holds of the composition (cli.py:110-125,      *)
(* reconciliation.py:77-87).                                               *)
THEOREM ReadersOnlyRead == ReplaySpec => Spec
  <1>1. ReplayInit => Init
    BY DEF ReplayInit
  <1>2. [ReplayNext]_allVars => [Next]_vars
    BY DEF ReplayNext, allVars, Lists, ReadsArchive, ReadsReceipts, Calculates, Refuses
  <1> QED
    BY <1>1, <1>2, PTL DEF ReplaySpec, Spec

-----------------------------------------------------------------------------
(* A finite set in its order.                                              *)

StrictOrder(set, order) ==
    /\ \A x \in set : <<x, x>> \notin order
    /\ \A x, y, z \in set : <<x, y>> \in order /\ <<y, z>> \in order => <<x, z>> \in order
    /\ \A x, y \in set : x # y => <<x, y>> \in order \/ <<y, x>> \in order

Before(set, order, x) == {y \in set : <<y, x>> \in order}

(* How many come before it is a place of a member's own.                   *)
LEMMA Places ==
    ASSUME NEW set, IsFiniteSet(set), NEW order, StrictOrder(set, order)
    PROVE  /\ Cardinality(set) \in Nat
           /\ \A x \in set : Cardinality(Before(set, order, x)) \in 0..(Cardinality(set) - 1)
           /\ \A x, y \in set : <<x, y>> \in order
                 => Cardinality(Before(set, order, x)) < Cardinality(Before(set, order, y))
           /\ \A n \in 1..Cardinality(set) : \E x \in set : Cardinality(Before(set, order, x)) = n - 1
  <1> DEFINE size == Cardinality(set)
             place == [x \in set |-> Cardinality(Before(set, order, x)) + 1]
  <1>1. size \in Nat
    BY FS_CardinalityType
  <1>2. \A x \in set : /\ Before(set, order, x) \subseteq set /\ x \notin Before(set, order, x)
                       /\ IsFiniteSet(Before(set, order, x))
                       /\ Cardinality(Before(set, order, x)) \in Nat
    <2> SUFFICES ASSUME NEW x \in set
                 PROVE  /\ Before(set, order, x) \subseteq set /\ x \notin Before(set, order, x)
                        /\ IsFiniteSet(Before(set, order, x))
                        /\ Cardinality(Before(set, order, x)) \in Nat
      OBVIOUS
    <2>1. Before(set, order, x) \subseteq set /\ x \notin Before(set, order, x)
      BY DEF Before, StrictOrder
    <2>2. IsFiniteSet(Before(set, order, x))
      BY <2>1, FS_Subset
    <2> QED
      BY <2>1, <2>2, FS_CardinalityType
  <1>3. ASSUME NEW x \in set PROVE Cardinality(Before(set, order, x)) \in 0..(size - 1)
    <2>1. Before(set, order, x) # set
      BY <1>2
    <2>2. Cardinality(Before(set, order, x)) <= size /\ Cardinality(Before(set, order, x)) # size
      BY <1>2, <2>1, FS_Subset
    <2> QED
      BY <1>1, <1>2, <2>2
  <1>4. ASSUME NEW x \in set, NEW y \in set, <<x, y>> \in order
        PROVE  Cardinality(Before(set, order, x)) < Cardinality(Before(set, order, y))
    <2>1. Before(set, order, x) \subseteq Before(set, order, y) /\ x \in Before(set, order, y)
      BY <1>4 DEF Before, StrictOrder
    <2>2. Before(set, order, x) # Before(set, order, y)
      BY <1>2, <2>1
    <2>3. Cardinality(Before(set, order, x)) <= Cardinality(Before(set, order, y))
          /\ Cardinality(Before(set, order, x)) # Cardinality(Before(set, order, y))
      BY <1>2, <2>1, <2>2, FS_Subset
    <2> QED
      BY <1>2, <2>3
  <1>5. place \in [set -> 1..size]
    BY <1>1, <1>3
  <1>6. ASSUME NEW x \in set, NEW y \in set, x # y PROVE place[x] # place[y]
    <2>1. \/ Cardinality(Before(set, order, x)) < Cardinality(Before(set, order, y))
          \/ Cardinality(Before(set, order, y)) < Cardinality(Before(set, order, x))
      BY <1>4, <1>6 DEF StrictOrder
    <2>2. Cardinality(Before(set, order, x)) \in Nat /\ Cardinality(Before(set, order, y)) \in Nat
      BY <1>2
    <2> QED
      BY <2>1, <2>2
  <1>7. place \in Injection(set, 1..size)
    BY <1>5, <1>6 DEF Injection, IsInjective
  <1>8. IsFiniteSet(1..size) /\ Cardinality(1..size) = size
    BY <1>1, FS_Interval
  <1>9. place \in Surjection(set, 1..size)
    BY <1>7, <1>8, FS_Injection
  <1>10. ASSUME NEW n \in 1..size PROVE \E x \in set : Cardinality(Before(set, order, x)) = n - 1
    <2>1. PICK x \in set : place[x] = n
      BY <1>9 DEF Surjection
    <2> QED
      BY <1>1, <1>2, <2>1
  <1> QED
    BY <1>1, <1>3, <1>4, <1>10

(* Each member once, in the order.                                         *)
LEMMA ArrangedFacts ==
    ASSUME NEW set, IsFiniteSet(set), NEW order, StrictOrder(set, order)
    PROVE  /\ Cardinality(set) \in Nat
           /\ Arranged(set, order) \in [1..Cardinality(set) -> set]
           /\ \A m, n \in 1..Cardinality(set) :
                 m < n => <<Arranged(set, order)[m], Arranged(set, order)[n]>> \in order
           /\ \A x \in set : \E n \in 1..Cardinality(set) : Arranged(set, order)[n] = x
  <1> DEFINE size == Cardinality(set)
             row == Arranged(set, order)
             place(x) == Cardinality(Before(set, order, x))
  <1>1. size \in Nat
    BY Places
  <1>2. \A n \in 1..size : row[n] = CHOOSE x \in set : place(x) = n - 1
    BY DEF Arranged, Before
  <1>3. row \in [1..size -> set] /\ \A n \in 1..size : row[n] \in set /\ place(row[n]) = n - 1
    <2>1. \A n \in 1..size : \E x \in set : place(x) = n - 1
      BY Places
    <2>2. \A n \in 1..size : row[n] \in set /\ place(row[n]) = n - 1
      BY <1>2, <2>1
    <2>3. row \in [1..size -> set]
      BY <2>2 DEF Arranged
    <2> QED
      BY <2>2, <2>3
  <1>4. \A x, y \in set : <<x, y>> \in order => place(x) < place(y)
    BY Places
  <1>5. \A x \in set : place(x) \in 0..(size - 1)
    BY Places
  <1> HIDE DEF row, place, size
  <1>6. ASSUME NEW x \in set, NEW y \in set, x # y PROVE place(x) < place(y) \/ place(y) < place(x)
    BY <1>4, <1>6 DEF StrictOrder
  <1>7. ASSUME NEW m \in 1..size, NEW n \in 1..size, m < n PROVE <<row[m], row[n]>> \in order
    <2>1. place(row[m]) < place(row[n]) /\ ~(place(row[n]) < place(row[m])) /\ place(row[m]) # place(row[n])
      BY <1>1, <1>3, <1>7
    <2>2. row[m] # row[n] /\ row[m] \in set /\ row[n] \in set
      BY <1>3, <2>1
    <2> QED
      BY <1>4, <2>1, <2>2 DEF StrictOrder
  <1>8. ASSUME NEW x \in set PROVE \E n \in 1..size : row[n] = x
    <2>1. place(x) + 1 \in 1..size /\ (place(x) + 1) - 1 = place(x)
      BY <1>1, <1>5
    <2>2. row[place(x) + 1] \in set /\ place(row[place(x) + 1]) = place(x)
      BY <1>3, <2>1
    <2>3. place(x) \in Nat
      BY <1>1, <1>5
    <2>4. ~(place(x) < place(x))
      BY <2>3
    <2>5. row[place(x) + 1] = x
      BY <1>6, <2>2, <2>4
    <2> QED
      BY <2>1, <2>5
  <1> QED
    BY <1>1, <1>3, <1>7, <1>8 DEF row, size

-----------------------------------------------------------------------------
(* Records and receipts.                                                   *)

(* Each receipt is in the raw topic at most once: it is of one batch.      *)
RawOnce ==
    /\ \A m, n \in DOMAIN raw : raw[m] = raw[n] => m = n
    /\ \A n \in DOMAIN raw : \E b \in 1..Len(receipts) : \E k \in DOMAIN Batches[b] : Batches[b][k] = raw[n]
    /\ Len(receipts) <= Len(Batches)

LEMMA RawOnceStep ==
    ASSUME StoreTyped, RawOnce, Accepts
    PROVE  RawOnce' /\ \A n \in DOMAIN raw : n \in DOMAIN raw' /\ raw'[n] = raw[n]
  <1> DEFINE b == Len(receipts) + 1
             accepted == Batches[b]
  <1>1. b \in DOMAIN Batches /\ DOMAIN Batches = 1..Len(Batches) /\ Len(receipts) \in Nat /\ Len(Batches) \in Nat
    BY BatchesAssumption DEF Accepts, StoreTyped
  <1>2. accepted \in Seq(Receipt) /\ raw \in Seq(Receipt)
    BY <1>1, BatchesAssumption DEF StoreTyped
  <1>3. raw' = raw \o accepted /\ receipts' = Append(receipts, ToSet(accepted))
    BY DEF Accepts
  <1>4. Len(receipts') = b
    BY <1>3 DEF StoreTyped
  <1> HIDE DEF accepted
  <1>5. /\ DOMAIN raw' = 1..(Len(raw) + Len(accepted)) /\ DOMAIN raw = 1..Len(raw)
        /\ DOMAIN accepted = 1..Len(accepted) /\ Len(raw) \in Nat /\ Len(accepted) \in Nat
        /\ \A n \in 1..Len(raw) : raw'[n] = raw[n]
        /\ \A n \in 1..Len(accepted) : raw'[n + Len(raw)] = accepted[n]
    BY <1>2, <1>3
  <1>6. ASSUME NEW n \in DOMAIN raw'
        PROVE  \/ n \in DOMAIN raw /\ raw'[n] = raw[n]
               \/ n > Len(raw) /\ (n - Len(raw)) \in DOMAIN accepted /\ raw'[n] = accepted[n - Len(raw)]
    <2>1. CASE n <= Len(raw)
      BY <1>5, <2>1
    <2>2. CASE n > Len(raw)
      <3>1. n - Len(raw) \in 1..Len(accepted) /\ (n - Len(raw)) + Len(raw) = n
        BY <1>5, <2>2
      <3> QED
        BY <1>5, <2>2, <3>1
    <2> QED
      BY <1>5, <2>1, <2>2
  <1>7. \A n \in DOMAIN raw : \E a \in 1..Len(receipts) : \E k \in DOMAIN Batches[a] : Batches[a][k] = raw[n]
    BY DEF RawOnce
  <1>8. ASSUME NEW n \in DOMAIN raw, NEW m \in DOMAIN accepted PROVE raw[n] # accepted[m]
    <2>1. PICK a \in 1..Len(receipts) : \E k \in DOMAIN Batches[a] : Batches[a][k] = raw[n]
      BY <1>7
    <2>2. PICK k \in DOMAIN Batches[a] : Batches[a][k] = raw[n]
      BY <2>1
    <2>3. a \in DOMAIN Batches /\ a # b
      BY <1>1
    <2> QED
      BY <1>1, <2>2, <2>3, ReceivedAssumption DEF accepted
  <1>9. ASSUME NEW m \in DOMAIN accepted, NEW n \in DOMAIN accepted, accepted[m] = accepted[n] PROVE m = n
    BY <1>1, <1>9, ReceivedAssumption DEF accepted
  <1>10. ASSUME NEW m \in DOMAIN raw', NEW n \in DOMAIN raw', raw'[m] = raw'[n] PROVE m = n
    <2>1. CASE m \in DOMAIN raw /\ raw'[m] = raw[m]
      BY <1>6, <1>8, <1>10, <2>1 DEF RawOnce
    <2>2. CASE n \in DOMAIN raw /\ raw'[n] = raw[n]
      BY <1>6, <1>8, <1>10, <2>2 DEF RawOnce
    <2>3. CASE /\ m > Len(raw) /\ (m - Len(raw)) \in DOMAIN accepted /\ raw'[m] = accepted[m - Len(raw)]
               /\ n > Len(raw) /\ (n - Len(raw)) \in DOMAIN accepted /\ raw'[n] = accepted[n - Len(raw)]
      <3>1. m - Len(raw) = n - Len(raw)
        BY <1>9, <1>10, <2>3
      <3> QED
        BY <1>5, <3>1
    <2> QED
      BY <1>6, <2>1, <2>2, <2>3
  <1>11. ASSUME NEW n \in DOMAIN raw'
         PROVE  \E a \in 1..Len(receipts') : \E k \in DOMAIN Batches[a] : Batches[a][k] = raw'[n]
    <2>1. CASE n \in DOMAIN raw /\ raw'[n] = raw[n]
      <3>1. PICK a \in 1..Len(receipts) : \E k \in DOMAIN Batches[a] : Batches[a][k] = raw[n]
        BY <1>7, <2>1
      <3>2. a \in 1..Len(receipts')
        BY <1>1, <1>4
      <3> QED
        BY <2>1, <3>1, <3>2
    <2>2. CASE (n - Len(raw)) \in DOMAIN accepted /\ raw'[n] = accepted[n - Len(raw)]
      <3>1. b \in 1..Len(receipts')
        BY <1>1, <1>4
      <3> QED
        BY <2>2, <3>1 DEF accepted
    <2> QED
      BY <1>6, <2>1, <2>2
  <1>12. Len(receipts') <= Len(Batches)
    BY <1>1, <1>4
  <1> QED
    BY <1>5, <1>10, <1>11, <1>12 DEF RawOnce

(* The archive is finite.                                                  *)
LEMMA AcceptedFinite == ASSUME StoreTyped PROVE IsFiniteSet(Accepted)
  <1>1. IsFiniteSet(1..Len(raw)) /\ IsFiniteSet(1..Len(receipts))
    BY FS_Interval DEF StoreTyped
  <1>2. IsFiniteSet({"raw"}) /\ IsFiniteSet({"receipts"})
    BY FS_Singleton
  <1>3. IsFiniteSet({"raw"} \X (1..Len(raw))) /\ IsFiniteSet({"receipts"} \X (1..Len(receipts)))
    BY <1>1, <1>2, FS_Product
  <1>4. IsFiniteSet(({"raw"} \X (1..Len(raw))) \cup ({"receipts"} \X (1..Len(receipts))))
    BY <1>3, FS_Union
  <1>5. Accepted \subseteq ({"raw"} \X (1..Len(raw))) \cup ({"receipts"} \X (1..Len(receipts)))
    BY DEF Accepted, Topic, Log, StoreTyped
  <1> QED
    BY <1>4, <1>5, FS_Subset

(* Identities and times of reception are orders.                           *)
LEMMA IdentityOrder ==
    ASSUME StoreTyped, NEW records \in SUBSET Accepted
    PROVE  StrictOrder(records, {p \in records \X records : EarlierRecord(p[1], p[2])})
  <1>1. \A r \in records : /\ r[1] \in {"raw", "receipts"} /\ r[2] \in Nat /\ r = <<r[1], r[2]>>
    BY AcceptedRecords DEF Topic
  <1> DEFINE order == {p \in records \X records : EarlierRecord(p[1], p[2])}
  <1>2. \A r, s \in records : <<r, s>> \in order <=> EarlierRecord(r, s)
    OBVIOUS
  <1> HIDE DEF order
  <1>3. \A r \in records : ~EarlierRecord(r, r)
    BY <1>1 DEF EarlierRecord
  <1>4. \A r, s, t \in records : EarlierRecord(r, s) /\ EarlierRecord(s, t) => EarlierRecord(r, t)
    BY <1>1 DEF EarlierRecord
  <1>5. ASSUME NEW r \in records, NEW s \in records, r # s PROVE EarlierRecord(r, s) \/ EarlierRecord(s, r)
    <2>1. r[1] # s[1] \/ r[2] # s[2]
      BY <1>1, <1>5
    <2> QED
      BY <1>1, <2>1 DEF EarlierRecord
  <1>6. StrictOrder(records, order)
    BY <1>2, <1>3, <1>4, <1>5 DEF StrictOrder
  <1> QED
    BY <1>6 DEF order

LEMMA ReceivedOrder ==
    /\ \A r \in Receipt : ~EarlierPacket(r, r)
    /\ \A r, s, t \in Receipt : EarlierPacket(r, s) /\ EarlierPacket(s, t) => EarlierPacket(r, t)
    /\ \A r, s \in Receipt : r # s => EarlierPacket(r, s) \/ EarlierPacket(s, r)
  <1> DEFINE at(r) == CHOOSE n \in DOMAIN Received : Received[n] = r
  <1>1. \A r \in Receipt : at(r) \in DOMAIN Received /\ Received[at(r)] = r
    BY ReceivedAssumption
  <1>2. \A n \in DOMAIN Received : n \in Int
    BY ReceivedAssumption
  <1>3. \A m, n \in DOMAIN Received : Received[m] = Received[n] => m = n
    BY ReceivedAssumption
  <1> HIDE DEF at
  <1>4. \A r, s \in Receipt : EarlierPacket(r, s) <=> at(r) < at(s)
    BY <1>1, <1>3 DEF EarlierPacket
  <1>5. \A r, s \in Receipt : r # s => at(r) # at(s)
    BY <1>1
  <1>6. \A r \in Receipt : at(r) \in Int
    BY <1>1, <1>2
  <1> QED
    BY <1>4, <1>5, <1>6

-----------------------------------------------------------------------------
(* The readers.                                                            *)

(* Rows are records of the archive, each once.                             *)
RowsVerified ==
    /\ rows \in Seq(Accepted)
    /\ \A m, n \in DOMAIN rows : rows[m] = rows[n] => m = n

(* What was archived when the reader began is among what it read.          *)
Reader ==
    /\ reading = "archive" => listed \subseteq manifests /\ promised \subseteq Acknowledged(UNION listed)
    /\ reading \in {"receipts", "lineage"} => RowsVerified /\ promised \subseteq Acknowledged(ToSet(rows))
    /\ reading = "lineage" => expected \subseteq Receipt
    /\ ScopeExact /\ ReconcileComplete

ReaderInv == RawOnce /\ Reader

(* Records stand for the same receipts when topics and archive grow.       *)
LEMMA AcknowledgedKept ==
    ASSUME StoreTyped, Accepts, NEW records \in SUBSET Accepted
    PROVE  Acknowledged(records) \subseteq Acknowledged(records)'
  <1>1. \A r \in records : r[1] = "receipts" => r[2] \in DOMAIN receipts
    BY DEF Accepted, Topic, Log
  <1>2. \A n \in DOMAIN receipts : receipts'[n] = receipts[n]
    BY DEF Accepts, StoreTyped
  <1> QED
    BY <1>1, <1>2 DEF Acknowledged

LEMMA AcknowledgedMonotone ==
    ASSUME NEW small, NEW large, small \subseteq large
    PROVE  Acknowledged(small) \subseteq Acknowledged(large)
  BY DEF Acknowledged

(* What the worker committed before is archived, so a listing that begins  *)
(* now has it.                                                             *)
LEMMA CommittedAcknowledged ==
    ASSUME Inv
    PROVE  UNION {receipts[n] : n \in 1..committed["receipts"]} \subseteq Acknowledged(UNION manifests)
  <1> SUFFICES ASSUME NEW n \in 1..committed["receipts"]
               PROVE  receipts[n] \subseteq Acknowledged(UNION manifests)
    OBVIOUS
  <1>1. <<"receipts", n>> \in UNION manifests
    BY DEF Inv, CommittedArchived, Topic, Archived
  <1> QED
    BY <1>1 DEF Acknowledged

(* A listing read record by record, in the order of their identities.      *)
LEMMA RowsOfObjects ==
    ASSUME StoreTyped, NEW objects, UNION objects \subseteq Accepted, rows' = VerifiedRecords(objects),
           UNCHANGED <<raw, receipts>>
    PROVE  RowsVerified' /\ ToSet(rows') = UNION objects
  <1> DEFINE records == UNION objects
             order == {p \in records \X records : EarlierRecord(p[1], p[2])}
  <1>1. IsFiniteSet(records)
    BY AcceptedFinite, FS_Subset
  <1>2. StrictOrder(records, order)
    BY IdentityOrder
  <1>3. rows' = Arranged(records, order)
    BY DEF VerifiedRecords, ByIdentity
  <1>4. Accepted' = Accepted
    BY DEF Accepted, Log
  <1> HIDE DEF records, order
  <1> DEFINE size == Cardinality(records)
  <1>5. /\ size \in Nat /\ rows' \in [1..size -> records]
        /\ \A m, n \in 1..size : m < n => <<rows'[m], rows'[n]>> \in order
        /\ \A x \in records : \E n \in 1..size : rows'[n] = x
    BY <1>1, <1>2, <1>3, ArrangedFacts
  <1>6. rows' \in Seq(records) /\ DOMAIN rows' = 1..size /\ \A n \in 1..size : rows'[n] \in records
    BY <1>5
  <1> HIDE DEF size
  <1>7. rows' \in Seq(Accepted)
    <2>1. records \subseteq Accepted
      BY DEF records
    <2>2. rows' \in [1..size -> Accepted]
      BY <1>5, <2>1
    <2> QED
      BY <1>5, <2>2
  <1>8. ASSUME NEW m \in 1..size, NEW n \in 1..size, rows'[m] = rows'[n] PROVE m = n
    <2>1. <<rows'[m], rows'[m]>> \notin order
      BY <1>2, <1>6 DEF StrictOrder
    <2>2. ~(m < n) /\ ~(n < m)
      BY <1>5, <1>8, <2>1
    <2> QED
      BY <1>5, <2>2
  <1>9. ToSet(rows') = records
    BY <1>5, <1>6 DEF ToSet
  <1> QED
    BY <1>4, <1>6, <1>7, <1>8, <1>9 DEF RowsVerified, records

(* The calculation gets its scope once, in the order received.             *)
LEMMA PacketsFacts ==
    ASSUME StoreTyped, RawOnce, RowsVerified, NEW scope \in SUBSET Receipt,
           scope \subseteq Receipts(ToSet(rows))
    PROVE  /\ ToSet(PacketsOf(scope)) = scope
           /\ \A m, n \in DOMAIN PacketsOf(scope) :
                 m < n => EarlierPacket(PacketsOf(scope)[m], PacketsOf(scope)[n])
  <1> DEFINE found == RowsIn(scope)
             order == {p \in found \X found : EarlierRow(p[1], p[2])}
             size  == Cardinality(found)
             row   == Arranged(found, order)
  <1>1. IsFiniteSet(found) /\ found \subseteq 1..Len(rows) /\ Len(rows) \in Nat /\ DOMAIN rows = 1..Len(rows)
    <2>1. Len(rows) \in Nat /\ DOMAIN rows = 1..Len(rows)
      BY DEF RowsVerified
    <2>2. IsFiniteSet(1..Len(rows)) /\ found \subseteq 1..Len(rows)
      BY <2>1, FS_Interval DEF RowsIn
    <2> QED
      BY <2>1, <2>2, FS_Subset
  <1>2. \A n \in found : /\ Packet(n) \in scope /\ Packet(n) \in Receipt /\ n \in Int
                         /\ rows[n][1] = "raw" /\ rows[n][2] \in DOMAIN raw /\ rows[n] = <<rows[n][1], rows[n][2]>>
    <2>1. \A n \in DOMAIN rows : rows[n] \in Accepted
      BY DEF RowsVerified
    <2>2. \A r \in Accepted : r = <<r[1], r[2]>> /\ (r[1] = "raw" => r[2] \in DOMAIN raw)
      BY DEF Accepted, Topic, Log
    <2> QED
      BY <1>1, <2>1, <2>2 DEF RowsIn
  <1>3. ASSUME NEW m \in found, NEW n \in found, Packet(m) = Packet(n) PROVE m = n
    <2>1. rows[m][2] = rows[n][2]
      BY <1>2, <1>3 DEF Packet, RawOnce
    <2>2. rows[m] = rows[n] /\ m \in DOMAIN rows /\ n \in DOMAIN rows
      BY <1>1, <1>2, <2>1
    <2> QED
      BY <2>2 DEF RowsVerified
  <1>4. \A m, n \in found : <<m, n>> \in order <=> EarlierPacket(Packet(m), Packet(n))
    <2> SUFFICES ASSUME NEW m \in found, NEW n \in found
                 PROVE  <<m, n>> \in order <=> EarlierPacket(Packet(m), Packet(n))
      OBVIOUS
    <2>1. <<m, n>> \in order <=> EarlierRow(m, n)
      OBVIOUS
    <2>2. ~(Packet(m) = Packet(n) /\ m < n)
      BY <1>2, <1>3
    <2> QED
      BY <2>1, <2>2 DEF EarlierRow
  <1>5. PacketsOf(scope) = [n \in 1..size |-> Packet(row[n])]
    BY DEF PacketsOf
  <1>6. ASSUME NEW x \in scope PROVE \E n \in found : Packet(n) = x
    <2>1. PICK r \in ToSet(rows) : r[1] = "raw" /\ raw[r[2]] = x
      BY DEF Receipts
    <2>2. PICK n \in DOMAIN rows : rows[n] = r
      BY DEF ToSet
    <2> QED
      BY <2>1, <2>2 DEF RowsIn, Packet
  <1> HIDE DEF found, order
  <1>7. StrictOrder(found, order)
    <2>1. \A m \in found : ~EarlierPacket(Packet(m), Packet(m))
      BY <1>2, ReceivedOrder
    <2>2. \A k, m, n \in found : EarlierPacket(Packet(k), Packet(m)) /\ EarlierPacket(Packet(m), Packet(n))
                                    => EarlierPacket(Packet(k), Packet(n))
      BY <1>2, ReceivedOrder
    <2>3. \A m, n \in found : m # n => EarlierPacket(Packet(m), Packet(n)) \/ EarlierPacket(Packet(n), Packet(m))
      BY <1>2, <1>3, ReceivedOrder
    <2> QED
      BY <1>4, <2>1, <2>2, <2>3 DEF StrictOrder
  <1>8. /\ size \in Nat /\ row \in [1..size -> found]
        /\ \A m, n \in 1..size : m < n => <<row[m], row[n]>> \in order
        /\ \A x \in found : \E n \in 1..size : row[n] = x
    BY <1>1, <1>7, ArrangedFacts
  <1> HIDE DEF size, row
  <1>9. \A n \in 1..size : row[n] \in found
    BY <1>8
  <1>10. /\ DOMAIN PacketsOf(scope) = 1..size
         /\ \A n \in 1..size : PacketsOf(scope)[n] = Packet(row[n])
    BY <1>5
  <1>11. ToSet(PacketsOf(scope)) = scope
    <2>1. ASSUME NEW x \in ToSet(PacketsOf(scope)) PROVE x \in scope
      <3>1. PICK n \in 1..size : PacketsOf(scope)[n] = x
        BY <1>10 DEF ToSet
      <3> QED
        BY <1>2, <1>9, <1>10, <3>1
    <2>2. ASSUME NEW x \in scope PROVE x \in ToSet(PacketsOf(scope))
      <3>1. PICK m \in found : Packet(m) = x
        BY <1>6 DEF found
      <3>2. PICK n \in 1..size : row[n] = m
        BY <1>8
      <3> QED
        BY <1>10, <3>1, <3>2 DEF ToSet
    <2> QED
      BY <2>1, <2>2
  <1>12. ASSUME NEW m \in 1..size, NEW n \in 1..size, m < n
         PROVE  EarlierPacket(PacketsOf(scope)[m], PacketsOf(scope)[n])
    BY <1>4, <1>8, <1>9, <1>10, <1>12
  <1> QED
    BY <1>10, <1>11, <1>12

-----------------------------------------------------------------------------
(* Steps of the worker and of the collector, which readers only see grow.  *)
LEMMA ReaderBesideWorker ==
    ASSUME Inv, Inv', ReaderInv, [Next]_vars, UNCHANGED replayVars
    PROVE  ReaderInv'
  <1>1. /\ StoreTyped /\ manifests \subseteq SUBSET Accepted /\ manifests \subseteq manifests'
        /\ UNCHANGED <<tool, reading, listed, rows, expected, packets, promised>>
    BY PutsStay DEF Inv, Typed, TypeOK, replayVars
  <1>2. \/ Accepts
        \/ UNCHANGED <<raw, receipts>>
    BY DEF Next, Accept, Consumes, Consume, PutData, PutManifest, PutRaises, Commit, CommitRaises,
           Crash, vars, storeVars
  <1>3. RawOnce'
    BY <1>1, <1>2, RawOnceStep DEF ReaderInv, RawOnce
  <1>4. Accepted \subseteq Accepted'
    BY <1>1, <1>2, AcceptedGrows DEF Accepted, Log
  <1>5. ASSUME NEW records \in SUBSET Accepted PROVE Acknowledged(records) \subseteq Acknowledged(records)'
    BY <1>1, <1>2, AcknowledgedKept DEF Acknowledged
  <1>6. reading' = "archive" => listed' \subseteq manifests' /\ promised' \subseteq Acknowledged(UNION listed)'
    <2> SUFFICES ASSUME reading = "archive"
                 PROVE  listed' \subseteq manifests' /\ promised' \subseteq Acknowledged(UNION listed)'
      BY <1>1
    <2>1. listed \subseteq manifests /\ promised \subseteq Acknowledged(UNION listed)
      BY DEF ReaderInv, Reader
    <2>2. UNION listed \subseteq Accepted
      BY <1>1, <2>1
    <2>3. Acknowledged(UNION listed) \subseteq Acknowledged(UNION listed)'
      BY <1>1, <1>5, <2>2
    <2> QED
      BY <1>1, <2>1, <2>3
  <1>7. ASSUME reading \in {"receipts", "lineage"}
        PROVE  RowsVerified' /\ promised' \subseteq Acknowledged(ToSet(rows))'
    <2>1. RowsVerified /\ promised \subseteq Acknowledged(ToSet(rows))
      BY <1>7 DEF ReaderInv, Reader
    <2>2. RowsVerified'
      <3>1. rows' \in Seq(Accepted')
        BY <1>1, <1>4, <2>1 DEF RowsVerified
      <3> QED
        BY <1>1, <2>1, <3>1 DEF RowsVerified
    <2>3. ToSet(rows) \subseteq Accepted
      BY <2>1 DEF RowsVerified, ToSet
    <2>4. ToSet(rows)' = ToSet(rows)
      BY <1>1
    <2>5. Acknowledged(ToSet(rows)) \subseteq Acknowledged(ToSet(rows))'
      BY <1>1, <1>5, <2>3, <2>4
    <2> QED
      BY <1>1, <2>1, <2>2, <2>5
  <1>8. (ScopeExact /\ ReconcileComplete)'
    BY <1>1 DEF ReaderInv, Reader, ScopeExact, ReconcileComplete, ToSet
  <1> QED
    BY <1>1, <1>3, <1>6, <1>7, <1>8 DEF ReaderInv, Reader

(* What a reader calculates is its scope, and a reconciliation's scope has *)
(* all that was promised.                                                  *)
LEMMA CalculatesStep == ASSUME Inv, ReaderInv, Calculates PROVE ReaderInv'
  <1>1. /\ reading = "lineage" /\ reading' = "calculated"
        /\ UNCHANGED <<vars, tool, listed, promised>>
        /\ expected' = Scope /\ packets' = PacketsOf(Scope)
    BY DEF Calculates
  <1>2. PICK classified \in SUBSET ToSet(raw) : Complete(classified)
    BY DEF Calculates
  <1>3. RowsVerified /\ promised \subseteq Acknowledged(ToSet(rows)) /\ expected \subseteq Receipt
    BY <1>1 DEF ReaderInv, Reader
  <1>4. StoreTyped /\ RawOnce
    BY DEF Inv, Typed, ReaderInv
  <1>5. expected \cup Acknowledged(ToSet(rows)) \subseteq Receipts(ToSet(rows))
    BY <1>2 DEF Complete
  <1>6. Receipts(ToSet(rows)) \subseteq Receipt
    <2>1. \A r \in ToSet(rows) : r[1] = "raw" => r[2] \in DOMAIN raw
      BY <1>3 DEF RowsVerified, ToSet, Accepted, Topic, Log
    <2>2. \A n \in DOMAIN raw : raw[n] \in Receipt
      BY <1>4 DEF StoreTyped
    <2> QED
      BY <2>1, <2>2 DEF Receipts
  <1>7. Scope \subseteq expected \cup Acknowledged(ToSet(rows))
    BY DEF Scope
  <1>8. Scope \in SUBSET Receipt /\ Scope \subseteq Receipts(ToSet(rows))
    BY <1>5, <1>6, <1>7
  <1>9. /\ ToSet(packets') = Scope
        /\ \A m, n \in DOMAIN packets' : m < n => EarlierPacket(packets'[m], packets'[n])
    BY <1>1, <1>3, <1>4, <1>8, PacketsFacts
  <1>10. ScopeExact'
    BY <1>1, <1>9 DEF ScopeExact, EarlierPacket
  <1>11. ReconcileComplete'
    BY <1>1, <1>3, <1>9 DEF ReconcileComplete, Scope
  <1>12. RawOnce'
    BY <1>1, <1>4 DEF RawOnce, vars, storeVars
  <1> QED
    BY <1>1, <1>10, <1>11, <1>12 DEF ReaderInv, Reader

(* Every step keeps what a reader knows.                                   *)
LEMMA ReaderStep == Inv /\ Inv' /\ ReaderInv /\ [ReplayNext]_allVars => ReaderInv'
  <1> SUFFICES ASSUME Inv, Inv', ReaderInv, [ReplayNext]_allVars PROVE ReaderInv'
    OBVIOUS
  <1>1. CASE (Next /\ UNCHANGED replayVars) \/ UNCHANGED allVars
    BY <1>1, ReaderBesideWorker DEF allVars
  <1>2. ASSUME UNCHANGED vars PROVE RawOnce' /\ UNCHANGED <<raw, receipts, manifests, Accepted>>
    BY <1>2 DEF vars, storeVars, RawOnce, ReaderInv, Accepted, Log
  <1>3. CASE Lists
    <2>1. reading' = "archive" /\ listed' = manifests /\ promised' = UNION {receipts[n] : n \in 1..committed["receipts"]}
          /\ UNCHANGED <<vars, rows, expected, packets>>
      BY <1>3 DEF Lists
    <2>2. promised' \subseteq Acknowledged(UNION manifests)
      BY <2>1, CommittedAcknowledged
    <2>3. promised' \subseteq Acknowledged(UNION listed)'
      BY <1>2, <2>1, <2>2 DEF Acknowledged
    <2> QED
      BY <1>2, <2>1, <2>3 DEF ReaderInv, Reader, ScopeExact, ReconcileComplete
  <1>4. CASE ReadsArchive
    <2>1. reading = "archive" /\ reading' = "receipts" /\ UNCHANGED <<vars, tool, expected, packets, promised>>
      BY <1>4 DEF ReadsArchive
    <2>2. PICK objects \in SUBSET manifests : listed \subseteq objects /\ rows' = VerifiedRecords(objects)
      BY <1>4 DEF ReadsArchive
    <2>3. StoreTyped /\ UNION objects \subseteq Accepted
      BY DEF Inv, Typed, TypeOK
    <2>4. RowsVerified' /\ ToSet(rows') = UNION objects
      BY <1>2, <2>1, <2>2, <2>3, RowsOfObjects
    <2>5. promised \subseteq Acknowledged(UNION listed) /\ UNION listed \subseteq UNION objects
      BY <2>1, <2>2 DEF ReaderInv, Reader
    <2>6. promised \subseteq Acknowledged(ToSet(rows'))
      BY <2>4, <2>5, AcknowledgedMonotone
    <2>7. promised' \subseteq Acknowledged(ToSet(rows))'
      BY <1>2, <2>1, <2>6 DEF Acknowledged, ToSet
    <2> QED
      BY <1>2, <2>1, <2>4, <2>7 DEF ReaderInv, Reader, ScopeExact, ReconcileComplete
  <1>5. CASE ReadsReceipts
    <2>1. reading = "receipts" /\ reading' = "lineage" /\ UNCHANGED <<vars, tool, listed, rows, packets, promised>>
      BY <1>5 DEF ReadsReceipts
    <2>2. expected' \subseteq Receipt
      BY <1>5 DEF ReadsReceipts, Inv, Typed, StoreTyped
    <2>3. RowsVerified' /\ promised' \subseteq Acknowledged(ToSet(rows))'
      BY <1>2, <2>1 DEF ReaderInv, Reader, RowsVerified, Acknowledged, ToSet
    <2> QED
      BY <1>2, <2>1, <2>2, <2>3 DEF ReaderInv, Reader, ScopeExact, ReconcileComplete
  <1>6. CASE Calculates
    BY <1>6, CalculatesStep
  <1>7. CASE Refuses
    BY <1>2, <1>7 DEF Refuses, ReaderInv, Reader, ScopeExact, ReconcileComplete
  <1> QED
    BY <1>1, <1>3, <1>4, <1>5, <1>6, <1>7 DEF ReplayNext

(* A reader's rows are the archive's records, each once, and what was      *)
(* committed when it began is among them (archive.py:91-108,               *)
(* archive_index.py:68-147).                                               *)
THEOREM ReaderCorrect == ReplaySpec => []ReaderInv
  <1>1. ReplayInit => ReaderInv
    BY BatchesAssumption DEF ReplayInit, Init, StoreInit, ReaderInv, RawOnce, Reader, ScopeExact, ReconcileComplete
  <1>2. ReplaySpec => []Inv
    BY ReadersOnlyRead, InvCorrect, PTL
  <1> QED
    BY <1>1, <1>2, ReaderStep, PTL DEF ReplaySpec

(* The calculation gets exactly the receipts of its scope, once each and   *)
(* in the order received, however objects overlap and whatever appeared    *)
(* while archive and ClickHouse were read (archive.py:91-108,              *)
(* cli.py:112-122, archive_index.py:180-183).                              *)
THEOREM ScopeExactCorrect == ReplaySpec => []ScopeExact
  <1>1. ReaderInv => ScopeExact
    BY DEF ReaderInv, Reader
  <1> QED
    BY <1>1, ReaderCorrect, PTL

(* A reconciliation covers all that the archive worker had committed       *)
(* before it began (archive_index.py:139-147).                             *)
THEOREM ReconcileCompleteCorrect == ReplaySpec => []ReconcileComplete
  <1>1. ReaderInv => ReconcileComplete
    BY DEF ReaderInv, Reader
  <1> QED
    BY <1>1, ReaderCorrect, PTL
=============================================================================
