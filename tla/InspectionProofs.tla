---------------------------- MODULE InspectionProofs ----------------------------
(* Proofs about Inspection for any batches, number of inspectors, of       *)
(* inspections and of receipts asked for.                                  *)
EXTENDS Inspection, TLAPS

-----------------------------------------------------------------------------
(* The topics.                                                             *)

StoreTyped == raw \in Seq(Receipt) /\ receipts \in Seq(SUBSET Receipt)

(* The records are the pairs of a topic and an offset in it.               *)
LEMMA AcceptedRecords ==
    ASSUME StoreTyped
    PROVE  /\ Accepted \subseteq Topic \X Nat
           /\ \A t \in Topic : \A n \in Nat : <<t, n>> \in Accepted <=> n \in 1..Len(Log(t))
           /\ \A t \in Topic : Len(Log(t)) \in Nat
  <1>1. \A t \in Topic : Len(Log(t)) \in Nat /\ DOMAIN Log(t) = 1..Len(Log(t))
    BY DEF Topic, Log, StoreTyped
  <1> QED
    BY <1>1 DEF Accepted, Topic

(* Topics only grow.                                                       *)
LEMMA AcceptedGrows ==
    ASSUME StoreTyped, Accepts
    PROVE  /\ StoreTyped'
           /\ \A t \in Topic : Len(Log(t)) <= Len(Log(t)')
           /\ Accepted \subseteq Accepted'
  <1> USE DEF StoreTyped
  <1> DEFINE accepted == Batches[Len(receipts) + 1]
  <1>1. Len(receipts) + 1 \in DOMAIN Batches
    BY BatchesAssumption DEF Accepts
  <1>2. accepted \in Seq(Receipt)
    BY <1>1, BatchesAssumption
  <1>3. ToSet(accepted) \subseteq Receipt
    BY <1>2 DEF ToSet
  <1>4. raw' = raw \o accepted /\ receipts' = Append(receipts, ToSet(accepted))
    BY DEF Accepts
  <1>5. raw' \in Seq(Receipt) /\ Len(raw') >= Len(raw)
    BY <1>2, <1>4
  <1>6. receipts' \in Seq(SUBSET Receipt) /\ Len(receipts') >= Len(receipts)
    BY <1>3, <1>4
  <1>7. \A t \in Topic : Len(Log(t)) <= Len(Log(t)') /\ DOMAIN Log(t) \subseteq DOMAIN Log(t)'
    BY <1>5, <1>6 DEF Topic, Log
  <1>8. Accepted \subseteq Accepted'
    BY <1>7 DEF Accepted, Topic, Log
  <1> QED
    BY <1>5, <1>6, <1>7, <1>8

(* A record keeps its content when topics grow.                            *)
LEMMA ContentStays ==
    ASSUME StoreTyped, Accepts
    PROVE  \A S \in SUBSET Accepted :
              /\ Acknowledged(S)' = Acknowledged(S)
              /\ Receipts(S)' = Receipts(S)
  <1> DEFINE accepted == Batches[Len(receipts) + 1]
  <1>1. Len(receipts) + 1 \in DOMAIN Batches
    BY BatchesAssumption DEF Accepts, StoreTyped
  <1>2. accepted \in Seq(Receipt)
    BY <1>1, BatchesAssumption
  <1>3. raw' = raw \o accepted /\ receipts' = Append(receipts, ToSet(accepted))
    BY DEF Accepts
  <1>4. /\ \A n \in DOMAIN raw : raw'[n] = raw[n]
        /\ \A n \in DOMAIN receipts : receipts'[n] = receipts[n]
    BY <1>2, <1>3 DEF StoreTyped
  <1>5. \A r \in Accepted : /\ r[1] = "raw" => r[2] \in DOMAIN raw
                            /\ r[1] = "receipts" => r[2] \in DOMAIN receipts
    BY DEF Accepted, Topic, Log
  <1> QED
    BY <1>4, <1>5 DEF Acknowledged, Receipts

-----------------------------------------------------------------------------
(* The inductive invariant.                                                *)

Scan ==
    [started : Nat, listed : SUBSET SUBSET (Topic \X Nat),
     expected : SUBSET Receipt, coverage : Coverage \cup {None}]

Typed ==
    /\ StoreTyped /\ manifests \subseteq SUBSET Accepted
    /\ \A n \in DOMAIN receipts : receipts[n] \subseteq ToSet(raw)
    /\ stage \in [Inspector -> {"idle", "refresh", "lineage", "publish"}]
    /\ scan \in [Inspector -> Scan]
    /\ clock \in Nat
    /\ TypeOK

(* What a coverage says of the objects listed before it.                   *)
Claims(coverage, objects) ==
    coverage.archiveComplete /\ coverage.lineageComplete =>
        Acknowledged(UNION objects) \subseteq classified \cap Receipts(Archived)

(* What it says of the index.                                              *)
LineageKept(coverage) == coverage.lineageComplete => coverage.expected \subseteq lineage

Sound(coverage, objects) ==
    coverage \in Coverage /\ Claims(coverage, objects) /\ LineageKept(coverage)

(* An inspection at work is the newest, and keeps what it has read.        *)
ScanSound(p) ==
    /\ stage[p] # "idle" =>
         /\ scan[p].started <= clock /\ scan[p].listed \subseteq manifests
         /\ snapshot # None => snapshot.started <= scan[p].started
    /\ stage[p] \in {"lineage", "publish"} => scan[p].listed \subseteq indexed
    /\ stage[p] = "publish" => Sound(scan[p].coverage, scan[p].listed)

SnapshotSound(s) ==
    /\ s \in Snapshot /\ s.started <= clock /\ s.listed \subseteq manifests /\ s.rows \subseteq rows
    /\ s.status = "ok" => Sound(s.coverage, s.listed)

TraceSound ==
    /\ trace \in [receipt : Traced, snapshot : Snapshot,
                 answer : [found : BOOLEAN, classified : BOOLEAN] \cup {None}]
    /\ SnapshotSound(trace.snapshot) /\ trace.snapshot.status = "ok"

Inv ==
    /\ Typed
    /\ \A p \in Inspector : ScanSound(p)
    /\ snapshot # None => SnapshotSound(snapshot)
    /\ trace # None => TraceSound
    /\ TraceAgrees

-----------------------------------------------------------------------------
(* Nothing is indexed, published or asked for at the start.                *)
LEMMA InitInv == Init => Inv
  <1> SUFFICES ASSUME Init PROVE Inv
    OBVIOUS
  <1> USE DEF Init, StoreInit
  <1>1. StoreTyped /\ manifests \subseteq SUBSET Accepted
    BY DEF StoreTyped
  <1>2. scan \in [Inspector -> Scan]
    BY DEF Empty, NewScan, Scan
  <1>3. TypeOK
    BY InspectionAssumption DEF TypeOK
  <1>4. Typed
    BY <1>1, <1>2, <1>3 DEF Typed
  <1>5. \A p \in Inspector : ScanSound(p)
    BY DEF ScanSound
  <1> QED
    BY <1>4, <1>5 DEF Inv, TraceAgrees

(* The topics, the archive, ClickHouse and the index only grow, and what   *)
(* records say does not change.                                            *)
LEMMA AllGrow ==
    ASSUME Inv, [Next]_vars
    PROVE  /\ StoreTyped' /\ (manifests \subseteq SUBSET Accepted)'
           /\ (\A n \in DOMAIN receipts : receipts[n] \subseteq ToSet(raw))'
           /\ ToSet(raw) \subseteq ToSet(raw)'
           /\ manifests \subseteq manifests' /\ indexed \subseteq indexed'
           /\ classified \subseteq classified'
           /\ clock' \in Nat /\ clock <= clock'
           /\ \A S \in SUBSET Accepted : /\ Acknowledged(S)' = Acknowledged(S)
                                        /\ Receipts(S)' = Receipts(S)
  <1> USE DEF Inv, Typed
  <1>1. CASE Accepts /\ UNCHANGED <<stored, classified, inspectionVars>>
    <2>1. StoreTyped' /\ Accepted \subseteq Accepted' /\ UNCHANGED manifests
      BY <1>1, AcceptedGrows DEF Accepts
    <2>2. \A S \in SUBSET Accepted : /\ Acknowledged(S)' = Acknowledged(S)
                                   /\ Receipts(S)' = Receipts(S)
      BY <1>1, ContentStays
    <2>3. UNCHANGED <<indexed, classified, clock>>
      BY <1>1 DEF inspectionVars
    <2> DEFINE accepted == Batches[Len(receipts) + 1]
    <2>4. accepted \in Seq(Receipt)
      BY <1>1, BatchesAssumption DEF Accepts, StoreTyped
    <2>5. raw' = raw \o accepted /\ receipts' = Append(receipts, ToSet(accepted))
      BY <1>1 DEF Accepts
    <2>6. ToSet(raw) \subseteq ToSet(raw)' /\ ToSet(accepted) \subseteq ToSet(raw)'
      <3>1. \A n \in DOMAIN raw : n \in DOMAIN raw' /\ raw'[n] = raw[n]
        BY <2>4, <2>5 DEF StoreTyped
      <3>2. \A n \in DOMAIN accepted :
               Len(raw) + n \in DOMAIN raw' /\ raw'[Len(raw) + n] = accepted[n]
        BY <2>4, <2>5 DEF StoreTyped
      <3> QED
        BY <3>1, <3>2 DEF ToSet
    <2>7. \A n \in DOMAIN receipts' : receipts'[n] \subseteq ToSet(raw)'
      BY <2>4, <2>5, <2>6 DEF StoreTyped
    <2> QED
      BY <2>1, <2>2, <2>3, <2>6, <2>7
  <1>2. CASE UNCHANGED <<raw, receipts>>
    <2>1. /\ UNCHANGED Accepted /\ StoreTyped' /\ UNCHANGED ToSet(raw)
          /\ \A S \in SUBSET Accepted : /\ Acknowledged(S)' = Acknowledged(S)
                                      /\ Receipts(S)' = Receipts(S)
      BY <1>2 DEF Accepted, Log, StoreTyped, ToSet, Acknowledged, Receipts
    <2>2. /\ manifests \subseteq manifests' /\ manifests' \subseteq SUBSET Accepted
          /\ indexed \subseteq indexed' /\ classified \subseteq classified'
          /\ clock' \in Nat /\ clock <= clock'
      BY <1>2 DEF Next, vars, storeVars, inspectionVars, Accepts, Archives, StoresReceipts, StoresQuality,
                  Inspects, Start, Begins, Index, ReadReceipts, Covers, Publish, Writes, Fails, Dies,
                  TraceReadsSnapshot, TraceAnswers
    <2> QED
      BY <1>2, <2>1, <2>2
  <1>3. CASE ~UNCHANGED <<raw, receipts>>
    BY <1>1, <1>3 DEF Next, vars, storeVars, inspectionVars, Archives, StoresReceipts, StoresQuality,
                Inspects, Start, Begins, Index, ReadReceipts, Covers, Publish, Writes, Fails, Dies,
                TraceReadsSnapshot, TraceAnswers
  <1> QED
    BY <1>2, <1>3

(* A sound coverage stays sound.                                           *)
LEMMA SoundStays ==
    ASSUME Inv, [Next]_vars, rows \subseteq rows', lineage \subseteq lineage'
    PROVE  \A objects \in SUBSET manifests :
              \A c \in Coverage : Sound(c, objects) => Sound(c, objects)'
  <1> SUFFICES ASSUME NEW objects \in SUBSET manifests, NEW c \in Coverage, Sound(c, objects)
               PROVE  Sound(c, objects)'
    OBVIOUS
  <1>1. /\ classified \subseteq classified' /\ manifests \subseteq manifests'
        /\ \A S \in SUBSET Accepted : /\ Acknowledged(S)' = Acknowledged(S)
                                    /\ Receipts(S)' = Receipts(S)
    BY AllGrow
  <1>2. UNION objects \in SUBSET Accepted /\ Archived \in SUBSET Accepted
    BY DEF Inv, Typed, Archived
  <1>3. Acknowledged(UNION objects)' = Acknowledged(UNION objects)
    BY <1>1, <1>2
  <1>4. Receipts(Archived) \subseteq Receipts(Archived)'
    BY <1>1, <1>2 DEF Receipts, Archived
  <1> QED
    BY <1>1, <1>3, <1>4 DEF Sound, Claims, LineageKept

(* The rows of the index are those of the manifests it has.                *)
LEMMA RowsGrow ==
    ASSUME Inv, [Next]_vars
    PROVE  rows \subseteq rows' /\ lineage \subseteq lineage' /\ (rows = UNION indexed)'
           /\ (indexed \subseteq manifests)' /\ (lineage \subseteq classified)'
  <1>1. rows = UNION indexed /\ indexed \subseteq manifests /\ lineage \subseteq classified
    BY DEF Inv, Typed, TypeOK
  <1>2. manifests \subseteq manifests' /\ classified \subseteq classified'
    BY AllGrow
  <1>3. CASE \E p \in Inspector, m \in manifests : Index(p, m)
    BY <1>1, <1>3 DEF Index, storeVars
  <1>4. CASE \E p \in Inspector : Covers(p)
    BY <1>1, <1>4 DEF Covers, storeVars
  <1>5. CASE UNCHANGED <<indexed, rows, lineage>>
    BY <1>1, <1>2, <1>5
  <1>6. CASE \/ \E p \in Inspector : \/ Start(p) \/ ReadReceipts(p) \/ Publish(p)
                                    \/ Fails(p) \/ Dies(p)
             \/ (\E r \in Traced : TraceReadsSnapshot(r)) \/ TraceAnswers
             \/ UNCHANGED vars
    BY <1>5, <1>6 DEF Start, Begins, ReadReceipts, Publish, Writes, Fails, Dies,
                      TraceReadsSnapshot, TraceAnswers, vars, inspectionVars
  <1>7. CASE \/ UNCHANGED <<stored, classified, inspectionVars>>
             \/ (\E n \in DOMAIN receipts : StoresReceipts(n)) \/ (\E n \in DOMAIN raw : StoresQuality(n))
    BY <1>5, <1>7 DEF StoresReceipts, StoresQuality, inspectionVars
  <1> QED
    BY <1>3, <1>4, <1>6, <1>7 DEF Next, Inspects

-----------------------------------------------------------------------------
(* Types. Each kind of step disturbs some of them.                         *)
Outside ==
    \/ /\ Accepts \/ \E object \in Object : Archives(object)
       /\ UNCHANGED <<stored, classified, inspectionVars>>
    \/ (\E n \in DOMAIN receipts : StoresReceipts(n)) \/ (\E n \in DOMAIN raw : StoresQuality(n))

Traces == (\E r \in Traced : TraceReadsSnapshot(r)) \/ TraceAnswers

(* The index holds whole manifests, and ClickHouse only what was accepted. *)
LEMMA StoredStep ==
    ASSUME Inv, [Next]_vars
    PROVE  (stored \subseteq ToSet(raw) /\ classified \subseteq ToSet(raw))'
  <1>1. /\ stored \subseteq ToSet(raw) /\ classified \subseteq ToSet(raw)
        /\ \A n \in DOMAIN receipts : receipts[n] \subseteq ToSet(raw)
        /\ \A n \in DOMAIN raw : raw[n] \in ToSet(raw)
    BY DEF Inv, Typed, TypeOK, ToSet
  <1>2. ToSet(raw) \subseteq ToSet(raw)'
    BY AllGrow
  <1>3. CASE (\E n \in DOMAIN receipts : StoresReceipts(n)) \/ (\E n \in DOMAIN raw : StoresQuality(n))
    BY <1>1, <1>2, <1>3 DEF StoresReceipts, StoresQuality
  <1>4. CASE UNCHANGED <<stored, classified>>
    BY <1>1, <1>2, <1>4
  <1> QED
    BY <1>3, <1>4 DEF Next, vars, Inspects, Start, Begins, Index, ReadReceipts, Covers, Publish, Writes,
                      Fails, Dies, TraceReadsSnapshot, TraceAnswers

(* The process at work holds the lock, and what it reads has its type.     *)
LEMMA ScanStep ==
    ASSUME Inv, [Next]_vars
    PROVE  /\ stage' \in [Inspector -> {"idle", "refresh", "lineage", "publish"}]
           /\ scan' \in [Inspector -> Scan]
           /\ \A p \in Inspector : stage'[p] # "idle" <=> lock' = p
  <1> USE DEF Inv, Typed, TypeOK
  <1>1. ASSUME NEW p \in Inspector, Start(p)
        PROVE  /\ stage' \in [Inspector -> {"idle", "refresh", "lineage", "publish"}]
               /\ scan' \in [Inspector -> Scan]
               /\ \A q \in Inspector : stage'[q] # "idle" <=> lock' = q
    <2>1. clock' \in Nat /\ manifests \in SUBSET SUBSET (Topic \X Nat)
      BY AllGrow, AcceptedRecords
    <2>2. NewScan(clock', manifests) \in Scan
      BY <2>1 DEF NewScan, Scan
    <2> QED
      BY <1>1, <2>2, InspectionAssumption DEF Start, Begins
  <1>2. ASSUME NEW p \in Inspector, ReadReceipts(p)
        PROVE  /\ stage' \in [Inspector -> {"idle", "refresh", "lineage", "publish"}]
               /\ scan' \in [Inspector -> Scan]
               /\ \A q \in Inspector : stage'[q] # "idle" <=> lock' = q
    <2>1. stored \in SUBSET Receipt
      BY DEF StoreTyped, ToSet
    <2>2. [scan[p] EXCEPT !.expected = stored] \in Scan
      BY <2>1 DEF Scan
    <2> QED
      BY <1>2, <2>2 DEF ReadReceipts
  <1>3. ASSUME NEW p \in Inspector, Covers(p)
        PROVE  /\ stage' \in [Inspector -> {"idle", "refresh", "lineage", "publish"}]
               /\ scan' \in [Inspector -> Scan]
               /\ \A q \in Inspector : stage'[q] # "idle" <=> lock' = q
    <2> DEFINE coverage == [expected |-> ExpectedOf(p),
                archiveComplete |-> ExpectedOf(p) # {} /\ ExpectedOf(p) \subseteq Receipts(rows),
                lineageComplete |-> ExpectedOf(p) # {} /\ ExpectedOf(p) \subseteq classified]
    <2>1. \A r \in rows : r[1] = "receipts" => receipts[r[2]] \in SUBSET Receipt
      BY DEF Accepted, Topic, Log, StoreTyped
    <2>2. ExpectedOf(p) \in SUBSET Receipt
      BY <2>1 DEF ExpectedOf, AckRefs, Acknowledged, Scan
    <2>3. coverage \in Coverage
      BY <2>2 DEF Coverage
    <2>4. [scan[p] EXCEPT !.coverage = coverage] \in Scan
      <3>1. ASSUME NEW s \in Scan, NEW c \in Coverage PROVE [s EXCEPT !.coverage = c] \in Scan
        BY DEF Scan
      <3> QED
        BY <2>3, <3>1
    <2>5. scan' = [scan EXCEPT ![p] = [scan[p] EXCEPT !.coverage = coverage]]
      BY <1>3 DEF Covers
    <2> QED
      BY <1>3, <2>4, <2>5 DEF Covers
  <1>4. ASSUME NEW p \in Inspector, Publish(p) \/ Fails(p) \/ Dies(p)
        PROVE  /\ stage' \in [Inspector -> {"idle", "refresh", "lineage", "publish"}]
               /\ scan' \in [Inspector -> Scan]
               /\ \A q \in Inspector : stage'[q] # "idle" <=> lock' = q
    <2>1. Empty \in Scan
      BY DEF Empty, NewScan, Scan
    <2> QED
      BY <1>4, <2>1, InspectionAssumption DEF Publish, Fails, Dies, Writes
  <1>5. CASE UNCHANGED <<stage, scan, lock>>
    BY <1>5
  <1>6. CASE Outside \/ Traces \/ UNCHANGED vars \/ \E p \in Inspector, m \in manifests : Index(p, m)
    BY <1>5, <1>6 DEF Outside, Traces, StoresReceipts, StoresQuality, TraceReadsSnapshot, TraceAnswers,
                      Index, inspectionVars, vars
  <1> QED
    BY <1>1, <1>2, <1>3, <1>4, <1>6 DEF Next, Inspects, Outside, Traces

(* What is written is a snapshot.                                          *)
LEMMA WritesSnapshot ==
    ASSUME Inv, NEW p \in Inspector, NEW status \in {"ok", "error"}, Writes(p, status)
    PROVE  snapshot' \in Snapshot
  <1>1. scan[p] \in Scan
    BY DEF Inv, Typed
  <1>2. rows \in SUBSET (Topic \X Nat)
    BY AcceptedRecords DEF Inv, Typed, TypeOK
  <1> DEFINE coverage == IF status = "ok" THEN scan[p].coverage ELSE None
  <1>3. coverage \in Coverage \cup {None}
    BY <1>1 DEF Scan
  <1>4. scan[p].started \in Nat /\ scan[p].listed \in SUBSET SUBSET (Topic \X Nat)
    BY <1>1 DEF Scan
  <1> HIDE DEF coverage
  <1>5. [status |-> status, started |-> scan[p].started, listed |-> scan[p].listed,
         coverage |-> coverage, rows |-> rows] \in Snapshot
    BY <1>2, <1>3, <1>4 DEF Snapshot
  <1> QED
    BY <1>5 DEF Writes, coverage

(* The snapshot file is absent or whole (inspection.py:63-82).             *)
LEMMA SnapshotStep ==
    ASSUME Inv, [Next]_vars
    PROVE  (snapshot \in Snapshot \cup {None})'
  <1>1. snapshot \in Snapshot \cup {None}
    BY DEF Inv, Typed, TypeOK
  <1>2. ASSUME NEW p \in Inspector, Publish(p) \/ Fails(p)
        PROVE  snapshot' \in Snapshot
    BY <1>2, WritesSnapshot DEF Publish, Fails
  <1>3. CASE UNCHANGED snapshot
    BY <1>1, <1>3
  <1>4. CASE \/ Outside \/ Traces \/ UNCHANGED vars
             \/ \E p \in Inspector : \/ Start(p) \/ ReadReceipts(p) \/ Covers(p) \/ Dies(p)
                                   \/ \E m \in manifests : Index(p, m)
    BY <1>3, <1>4 DEF Outside, Traces, StoresReceipts, StoresQuality, TraceReadsSnapshot, TraceAnswers,
                      Start, Begins, ReadReceipts, Covers, Dies, Index, inspectionVars, vars
  <1> QED
    BY <1>2, <1>4 DEF Next, Inspects, Outside, Traces

(* Type correctness, from the lemmas above.                                *)
LEMMA TypedStep == Inv /\ [Next]_vars => Typed'
  <1> SUFFICES ASSUME Inv, [Next]_vars PROVE Typed'
    OBVIOUS
  <1> QED
    BY AllGrow, RowsGrow, StoredStep, ScanStep, SnapshotStep DEF Typed, TypeOK

-----------------------------------------------------------------------------
(* What inspections, the snapshot and the trace say stays sound.           *)
LEMMA ScanSoundStep ==
    ASSUME Inv, [Next]_vars, NEW p \in Inspector
    PROVE  ScanSound(p)'
  <1>1. /\ scan[p] \in Scan /\ clock \in Nat /\ clock' \in Nat /\ clock <= clock'
        /\ manifests \subseteq manifests' /\ indexed \subseteq indexed'
        /\ \A q \in Inspector : stage[q] # "idle" <=> lock = q
        /\ \A q \in Inspector : stage'[q] # "idle" <=> lock' = q
        /\ stage \in [Inspector -> {"idle", "refresh", "lineage", "publish"}]
        /\ scan \in [Inspector -> Scan]
    BY AllGrow, ScanStep DEF Inv, Typed, TypeOK
  <1>2. ScanSound(p)
    BY DEF Inv
  <1>3. \A objects \in SUBSET manifests :
           \A c \in Coverage : Sound(c, objects) => Sound(c, objects)'
    BY RowsGrow, SoundStays
  <1>4. CASE UNCHANGED <<stage, scan, snapshot>>
    <2>1. stage[p] = "publish" => Sound(scan[p].coverage, scan[p].listed)'
      BY <1>2, <1>3, <1>4 DEF ScanSound, Sound
    <2> QED
      BY <1>1, <1>2, <1>4, <2>1 DEF ScanSound, Scan
  <1>5. CASE stage'[p] = "idle"
    BY <1>5 DEF ScanSound
  <1>6. CASE Start(p)
    <2>1. snapshot # None => snapshot.started <= clock
      BY DEF Inv, SnapshotSound
    <2>2. /\ stage'[p] = "refresh" /\ scan'[p] = NewScan(clock', manifests)
          /\ UNCHANGED <<snapshot, manifests>> /\ clock' = clock + 1
      BY <1>1, <1>6 DEF Start, Begins, storeVars
    <2>3. scan'[p].started = clock' /\ scan'[p].listed = manifests
      BY <2>2 DEF NewScan
    <2>4. snapshot # None => snapshot.started \in Nat
      BY DEF Inv, SnapshotSound, Snapshot
    <2>5. snapshot' # None => snapshot'.started <= scan'[p].started
      BY <1>1, <2>1, <2>2, <2>3, <2>4
    <2> QED
      BY <1>1, <2>2, <2>3, <2>5 DEF ScanSound
  <1>7. CASE ReadReceipts(p)
    <2>1. /\ stage[p] = "refresh" /\ stage'[p] = "lineage" /\ scan[p].listed \subseteq indexed
          /\ scan'[p] = [scan[p] EXCEPT !.expected = stored]
          /\ UNCHANGED <<snapshot, manifests, clock, indexed>>
      BY <1>1, <1>7 DEF ReadReceipts, Refreshed, storeVars
    <2>2. scan'[p].started = scan[p].started /\ scan'[p].listed = scan[p].listed
      BY <1>1, <2>1 DEF Scan
    <2> QED
      BY <1>2, <2>1, <2>2 DEF ScanSound
  <1>8. CASE Covers(p)
    <2> DEFINE coverage == [expected |-> ExpectedOf(p),
                archiveComplete |-> ExpectedOf(p) # {} /\ ExpectedOf(p) \subseteq Receipts(rows),
                lineageComplete |-> ExpectedOf(p) # {} /\ ExpectedOf(p) \subseteq classified]
    <2>1. /\ stage[p] = "lineage" /\ stage'[p] = "publish" /\ lineage' = classified
          /\ scan'[p] = [scan[p] EXCEPT !.coverage = coverage]
          /\ UNCHANGED <<snapshot, raw, receipts, manifests, clock, indexed, classified, rows>>
      BY <1>1, <1>8 DEF Covers, storeVars
    <2>2. /\ scan'[p].started = scan[p].started /\ scan'[p].listed = scan[p].listed
          /\ scan'[p].coverage = coverage
      BY <1>1, <2>1 DEF Scan
    <2>3. coverage \in Coverage
      <3>1. scan'[p].coverage \in Coverage \cup {None}
        BY ScanStep DEF Scan
      <3>2. coverage.expected \in SUBSET Receipt
        BY DEF Inv, Typed, TypeOK, StoreTyped, Accepted, Topic, Log, ExpectedOf, AckRefs,
               Acknowledged, Scan
      <3> HIDE DEF ExpectedOf
      <3> QED
        BY <3>2 DEF Coverage
    <2>4. /\ coverage.expected = ExpectedOf(p)
          /\ coverage.archiveComplete => ExpectedOf(p) \subseteq Receipts(rows)
          /\ coverage.lineageComplete => ExpectedOf(p) \subseteq classified
      OBVIOUS
    <2> HIDE DEF coverage
    <2>5. /\ scan[p].listed \subseteq indexed
          /\ rows = UNION indexed /\ rows \subseteq Archived
      BY <1>2, <2>1 DEF ScanSound, Inv, Typed, TypeOK, Archived
    <2>6. /\ Acknowledged(UNION scan[p].listed) \subseteq ExpectedOf(p)
          /\ Receipts(rows) \subseteq Receipts(Archived)
      BY <2>5 DEF Acknowledged, Receipts, ExpectedOf, AckRefs
    <2>7. Claims(scan[p].coverage, scan[p].listed)'
      <3>1. /\ Acknowledged(UNION scan[p].listed)' = Acknowledged(UNION scan[p].listed)
            /\ Receipts(Archived)' = Receipts(Archived)
        BY <2>1, <2>2 DEF Acknowledged, Receipts, Archived
      <3>2. coverage.archiveComplete /\ coverage.lineageComplete =>
               Acknowledged(UNION scan[p].listed) \subseteq classified \cap Receipts(Archived)
        BY <2>4, <2>6
      <3> QED
        BY <2>1, <3>1, <3>2, <2>2 DEF Claims
    <2>8. LineageKept(scan[p].coverage)'
      BY <2>1, <2>2, <2>4 DEF LineageKept
    <2> QED
      BY <1>2, <2>1, <2>2, <2>3, <2>7, <2>8 DEF ScanSound, Sound
  <1>9. ASSUME NEW q \in Inspector, Start(q) \/ ReadReceipts(q) \/ Covers(q) \/ Publish(q) \/ Fails(q) \/ Dies(q),
               q # p
        PROVE  stage'[p] = "idle"
    <2>1. lock \in {None, q}
      BY <1>1, <1>9 DEF Start, ReadReceipts, Covers, Publish, Fails, Dies
    <2>2. stage[p] = "idle" /\ stage'[p] = stage[p]
      BY <1>1, <1>9, <2>1, InspectionAssumption
         DEF Start, Begins, ReadReceipts, Covers, Publish, Fails, Dies, Writes
    <2> QED
      BY <2>2
  <1>10. CASE Publish(p) \/ Fails(p) \/ Dies(p)
    BY <1>1, <1>5, <1>10 DEF Publish, Fails, Dies, Writes
  <1>11. CASE \/ Outside \/ Traces \/ UNCHANGED vars
              \/ \E q \in Inspector, m \in manifests : Index(q, m)
    BY <1>4, <1>11 DEF Outside, Traces, StoresReceipts, StoresQuality, TraceReadsSnapshot, TraceAnswers,
                       Index, inspectionVars, vars
  <1> QED
    BY <1>5, <1>6, <1>7, <1>8, <1>9, <1>10, <1>11 DEF Next, Inspects, Outside, Traces

(* A sound snapshot stays sound.                                           *)
LEMMA SnapshotSoundStays ==
    ASSUME Inv, [Next]_vars
    PROVE  \A s \in Snapshot : SnapshotSound(s) => SnapshotSound(s)'
  <1>1. /\ clock \in Nat /\ clock' \in Nat /\ clock <= clock'
        /\ manifests \subseteq manifests' /\ rows \subseteq rows'
        /\ \A objects \in SUBSET manifests :
              \A c \in Coverage : Sound(c, objects) => Sound(c, objects)'
    BY AllGrow, RowsGrow, SoundStays DEF Inv, Typed
  <1> SUFFICES ASSUME NEW s \in Snapshot, SnapshotSound(s) PROVE SnapshotSound(s)'
    OBVIOUS
  <1>2. s.status = "ok" => Sound(s.coverage, s.listed)'
    BY <1>1 DEF SnapshotSound, Sound
  <1>3. s.started \in Nat
    BY DEF Snapshot
  <1> QED
    BY <1>1, <1>2, <1>3 DEF SnapshotSound

(* What is published says what the inspection found, or nothing.           *)
LEMMA SnapshotSoundStep ==
    ASSUME Inv, [Next]_vars
    PROVE  snapshot' # None => SnapshotSound(snapshot)'
  <1>1. snapshot # None => snapshot \in Snapshot /\ SnapshotSound(snapshot)
    BY DEF Inv, SnapshotSound
  <1>2. ASSUME NEW p \in Inspector, NEW status \in {"ok", "error"}, Writes(p, status), stage[p] # "idle",
               status = "ok" => stage[p] = "publish"
        PROVE  SnapshotSound(snapshot)'
    <2>1. /\ snapshot'.status = status /\ snapshot'.started = scan[p].started
          /\ snapshot'.listed = scan[p].listed /\ snapshot'.rows = rows
          /\ status = "ok" => snapshot'.coverage = scan[p].coverage
          /\ UNCHANGED <<raw, receipts, manifests, classified, clock, rows, lineage>>
      BY <1>2 DEF Writes, storeVars
    <2>2. /\ scan[p].started <= clock /\ scan[p].listed \subseteq manifests
          /\ status = "ok" => Sound(scan[p].coverage, scan[p].listed)
      BY <1>2 DEF Inv, ScanSound
    <2>3. snapshot' \in Snapshot
      BY <1>2, WritesSnapshot
    <2>4. status = "ok" => Sound(snapshot.coverage, snapshot.listed)'
      BY <2>1, <2>2 DEF Sound, Claims, LineageKept, Acknowledged, Receipts, Archived
    <2> QED
      BY <2>1, <2>2, <2>3, <2>4 DEF SnapshotSound
  <1>3. CASE UNCHANGED snapshot
    BY <1>1, <1>3, SnapshotSoundStays
  <1>4. CASE \/ Outside \/ Traces \/ UNCHANGED vars
             \/ \E p \in Inspector : \/ Start(p) \/ ReadReceipts(p) \/ Covers(p) \/ Dies(p)
                                   \/ \E m \in manifests : Index(p, m)
    BY <1>3, <1>4 DEF Outside, Traces, StoresReceipts, StoresQuality, TraceReadsSnapshot, TraceAnswers,
                      Start, Begins, ReadReceipts, Covers, Dies, Index, inspectionVars, vars
  <1> QED
    BY <1>2, <1>4 DEF Next, Inspects, Outside, Traces, Publish, Fails

(* A trace keeps its snapshot, and answers from an index that is newer.    *)
LEMMA TraceStep ==
    ASSUME Inv, [Next]_vars
    PROVE  (trace' # None => TraceSound') /\ TraceAgrees'
  <1> USE DEF Inv
  <1>1. CASE UNCHANGED trace
    <2>1. CASE trace = None
      BY <1>1, <2>1 DEF TraceAgrees
    <2>2. CASE trace # None
      <3>1. SnapshotSound(trace.snapshot)' /\ TraceSound'
        BY <1>1, <2>2, SnapshotSoundStays DEF TraceSound
      <3>2. trace.snapshot.rows \in SUBSET Accepted
        BY <2>2 DEF TraceSound, SnapshotSound, Typed, TypeOK
      <3>3. Receipts(trace.snapshot.rows)' = Receipts(trace.snapshot.rows)
        BY <1>1, <3>2, AllGrow DEF Receipts
      <3> QED
        BY <1>1, <3>1, <3>3 DEF TraceAgrees
    <2> QED
      BY <2>1, <2>2
  <1>2. ASSUME NEW r \in Traced, TraceReadsSnapshot(r)
        PROVE  TraceSound' /\ TraceAgrees'
    <2>1. /\ trace' = [receipt |-> r, snapshot |-> snapshot, answer |-> None]
          /\ SnapshotSound(snapshot) /\ snapshot \in Snapshot /\ snapshot.status = "ok"
      BY <1>2 DEF TraceReadsSnapshot, Usable, SnapshotSound
    <2>2. trace'.snapshot = snapshot /\ trace'.answer = None
      BY <2>1
    <2>3. SnapshotSound(trace.snapshot)'
      BY <2>1, <2>2, SnapshotSoundStays, <1>2 DEF TraceReadsSnapshot
    <2> QED
      BY <2>1, <2>2, <2>3 DEF TraceSound, TraceAgrees
  <1>3. ASSUME TraceAnswers
        PROVE  TraceSound' /\ TraceAgrees'
    <2> DEFINE answer == [found |-> trace.receipt \in Receipts(rows), classified |-> trace.receipt \in lineage]
    <2>1. /\ TraceSound /\ trace' = [trace EXCEPT !.answer = answer]
          /\ UNCHANGED <<raw, receipts, manifests, classified, clock, rows, lineage>>
      BY <1>3 DEF TraceAnswers, storeVars
    <2>2. answer \in [found : BOOLEAN, classified : BOOLEAN]
      OBVIOUS
    <2>3. /\ answer.found = (trace.receipt \in Receipts(rows))
          /\ answer.classified = (trace.receipt \in lineage)
      OBVIOUS
    <2> HIDE DEF answer
    <2>4. /\ trace'.receipt = trace.receipt /\ trace'.snapshot = trace.snapshot
          /\ trace'.answer = answer
          /\ trace' \in [receipt : Traced, snapshot : Snapshot,
                         answer : [found : BOOLEAN, classified : BOOLEAN] \cup {None}]
      BY <2>1, <2>2 DEF TraceSound
    <2>5. TraceSound'
      BY <2>1, <2>4, SnapshotSoundStays DEF TraceSound
    <2>6. /\ Receipts(trace.snapshot.rows) \subseteq Receipts(rows)
          /\ trace.snapshot.coverage.lineageComplete => trace.snapshot.coverage.expected \subseteq lineage
      BY <2>1 DEF TraceSound, SnapshotSound, Sound, LineageKept, Receipts
    <2>7. Receipts(trace.snapshot.rows)' = Receipts(trace.snapshot.rows)
      BY <2>1, <2>4 DEF Receipts
    <2>8. TraceAgrees'
      BY <2>3, <2>4, <2>6, <2>7 DEF TraceAgrees
    <2> QED
      BY <2>5, <2>8
  <1> QED
    BY <1>1, <1>2, <1>3 DEF Next, vars, inspectionVars, StoresReceipts, StoresQuality, Inspects, Start, Begins,
       Index, ReadReceipts, Covers, Publish, Writes, Fails, Dies

(* Every step keeps the invariant.                                         *)
LEMMA InvStep == Inv /\ [Next]_vars => Inv'
  BY TypedStep, ScanSoundStep, SnapshotSoundStep, TraceStep DEF Inv

-----------------------------------------------------------------------------
(* Inspections, their snapshots and the traces they serve keep the index's *)
(* picture of the archive.                                                 *)
THEOREM InvCorrect == Spec => []Inv
  BY InitInv, InvStep, PTL DEF Spec

(* One inspection is at work at a time, and the index never shows a        *)
(* manifest in part (inspection.py:149-165, archive_index.py:91-118).      *)
THEOREM TypeCorrect == Spec => []TypeOK
  <1>1. Inv => TypeOK
    BY DEF Inv, Typed
  <1> QED
    BY <1>1, InvCorrect, PTL

(* A snapshot that claims completeness is right about all that was         *)
(* acknowledged in the archive when its inspection began                   *)
(* (archive_index.py:139-178).                                             *)
THEOREM ClaimHoldsCorrect == Spec => []ClaimHolds
  <1>1. Inv => ClaimHolds
    BY DEF Inv, ClaimHolds, SnapshotSound, Sound, Claims
  <1> QED
    BY <1>1, InvCorrect, PTL

(* The answer of a trace is no older than the snapshot it comes with       *)
(* (api.py:161-173).                                                       *)
THEOREM TraceAgreesCorrect == Spec => []TraceAgrees
  <1>1. Inv => TraceAgrees
    BY DEF Inv
  <1> QED
    BY <1>1, InvCorrect, PTL

(* The snapshot file never goes back to an earlier inspection              *)
(* (inspection.py:149-165).                                                *)
THEOREM SnapshotForwardCorrect == Spec => SnapshotForward
  <1>1. Inv /\ [Next]_vars => [snapshot # None => (snapshot' # None /\ snapshot'.started >= snapshot.started)]_vars
    <2> SUFFICES ASSUME Inv, [Next]_vars, snapshot # None
                 PROVE  snapshot' # None /\ snapshot'.started >= snapshot.started
      OBVIOUS
    <2>1. snapshot \in Snapshot /\ snapshot.started \in Nat
      BY DEF Inv, SnapshotSound, Snapshot
    <2>2. CASE UNCHANGED snapshot
      BY <2>1, <2>2
    <2>3. ASSUME NEW p \in Inspector, Publish(p) \/ Fails(p)
          PROVE  snapshot' # None /\ snapshot'.started >= snapshot.started
      <3>1. snapshot' # None
        BY <2>3, WritesSnapshot, InspectionAssumption DEF Publish, Fails
      <3>2. snapshot'.started = scan[p].started /\ snapshot.started <= scan[p].started
        BY <2>3 DEF Publish, Fails, Writes, Inv, ScanSound
      <3>3. scan[p].started \in Nat
        BY DEF Inv, Typed, Scan
      <3> QED
        BY <2>1, <3>1, <3>2, <3>3
    <2>4. CASE \/ Outside \/ Traces \/ UNCHANGED vars
               \/ \E p \in Inspector : \/ Start(p) \/ ReadReceipts(p) \/ Covers(p) \/ Dies(p)
                                     \/ \E m \in manifests : Index(p, m)
      BY <2>2, <2>4 DEF Outside, Traces, StoresReceipts, StoresQuality, TraceReadsSnapshot, TraceAnswers,
                        Start, Begins, ReadReceipts, Covers, Dies, Index, inspectionVars, vars
    <2> QED
      BY <2>3, <2>4 DEF Next, Inspects, Outside, Traces
  <1> QED
    BY <1>1, InvCorrect, PTL DEF Spec, SnapshotForward
=============================================================================
