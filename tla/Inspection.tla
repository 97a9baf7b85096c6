------------------------------ MODULE Inspection ------------------------------
(***************************************************************************)
(* inspection.py with archive_index.py, and the trace endpoint of api.py.  *)
(* An inspection holds the lock of its kind. It indexes the manifests that *)
(* are not indexed yet, each in a transaction of its own; reads the        *)
(* receipts and then the quality rows of ClickHouse, which change between  *)
(* the two; computes the coverage in one more transaction; and replaces    *)
(* the snapshot file. If anything raises, a snapshot with status error     *)
(* takes the place of the last good one. A trace reads the snapshot and    *)
(* then the index, which inspections may change in between.                *)
(***************************************************************************)
EXTENDS ArchiveStore

CONSTANTS
    Object,          \* sets of records that become objects
    Inspector,       \* processes: the service, a manual --once
    Traced,          \* receipts that are asked for
    MaxInspections,  \* bound: inspections begun
    None

Coverage == [expected : SUBSET Receipt, archiveComplete : BOOLEAN, lineageComplete : BOOLEAN]

Snapshot ==
    [status : {"ok", "error"}, started : Nat, listed : SUBSET SUBSET (Topic \X Nat),
     coverage : Coverage \cup {None}, rows : SUBSET (Topic \X Nat)]

ASSUME InspectionAssumption ==
    None \notin Inspector \cup Snapshot /\ MaxInspections \in Nat

VARIABLES
    stored,     \* receipts in table receipts of ClickHouse
    classified, \* receipts in table quality
    lock,       \* the process that holds .coverage.lock
    stage,      \* of each inspector: "idle", "refresh", "lineage", "publish"
    scan,       \* what it has: [started, listed, expected, coverage]
    clock,      \* inspections begun so far
    indexed,    \* table manifests of archive.sqlite
    rows,       \* tables records and ack_refs: the records of the index
    lineage,    \* tables lineage and trace_quality
    snapshot,   \* coverage.json
    trace       \* a trace request: [receipt, snapshot, answer], or None

inspectionVars == <<lock, stage, scan, clock, indexed, rows, lineage, snapshot, trace>>
vars == <<storeVars, stored, classified, inspectionVars>>

NewScan(started, objects) ==
    [started |-> started, listed |-> objects, expected |-> {}, coverage |-> None]
Empty == NewScan(0, {})

Init ==
    /\ StoreInit /\ stored = {} /\ classified = {}
    /\ lock = None /\ stage = [p \in Inspector |-> "idle"] /\ scan = [p \in Inspector |-> Empty]
    /\ clock = 0 /\ indexed = {} /\ rows = {} /\ lineage = {}
    /\ snapshot = None /\ trace = None

-----------------------------------------------------------------------------
(* The sink writes receipts and quality in any order (Sink.tla).           *)

StoresReceipts(n) ==
    /\ ~(receipts[n] \subseteq stored)
    /\ stored' = stored \cup receipts[n]
    /\ UNCHANGED <<storeVars, classified, inspectionVars>>

StoresQuality(n) ==
    /\ raw[n] \notin classified
    /\ classified' = classified \cup {raw[n]}
    /\ UNCHANGED <<storeVars, stored, inspectionVars>>

-----------------------------------------------------------------------------
(* run_once and inspect_archive.                                           *)

Begins(p) ==
    /\ stage[p] = "idle" /\ clock < MaxInspections
    /\ clock' = clock + 1
    /\ stage' = [stage EXCEPT ![p] = "refresh"]
    /\ scan' = [scan EXCEPT ![p] = NewScan(clock', manifests)]
    /\ UNCHANGED <<storeVars, stored, classified, indexed, rows, lineage, snapshot, trace>>

(* Wrong variant: nobody takes the lock.                                   *)
StartUnlocked(p) == Begins(p) /\ UNCHANGED lock

(* Wrong variant: the index is emptied first, as the cache it is.          *)
StartRebuilding(p) ==
    /\ stage[p] = "idle" /\ lock = None /\ clock < MaxInspections
    /\ lock' = p /\ clock' = clock + 1
    /\ stage' = [stage EXCEPT ![p] = "refresh"]
    /\ scan' = [scan EXCEPT ![p] = NewScan(clock', manifests)]
    /\ indexed' = {} /\ rows' = {}
    /\ UNCHANGED <<storeVars, stored, classified, lineage, snapshot, trace>>

Start(p) == lock = None /\ lock' = p /\ Begins(p)

(* A manifest listed and read with its data, in one transaction.           *)
Index(p, m) ==
    /\ stage[p] = "refresh"
    /\ m \in manifests \ indexed
    /\ indexed' = indexed \cup {m}
    /\ rows' = rows \cup m
    /\ UNCHANGED <<storeVars, stored, classified, lock, stage, scan, clock, lineage, snapshot, trace>>

(* Every manifest listed is indexed and none that was indexed is missing.  *)
Refreshed(p) == scan[p].listed \subseteq indexed /\ indexed \subseteq manifests

ReadReceipts(p) ==
    /\ stage[p] = "refresh" /\ Refreshed(p)
    /\ scan' = [scan EXCEPT ![p].expected = stored]
    /\ stage' = [stage EXCEPT ![p] = "lineage"]
    /\ UNCHANGED <<storeVars, stored, classified, lock, clock, indexed, rows, lineage, snapshot, trace>>

(* Table ack_refs: the manifests among the records of the index.           *)
AckRefs == Acknowledged(rows)

(* Wrong variant: the acknowledgements of the archive are not added.       *)
ExpectedStored(p) == scan[p].expected

(* coverage(): what ClickHouse acknowledged and what the archive did.      *)
ExpectedOf(p) == scan[p].expected \cup AckRefs

Covers(p) ==
    /\ stage[p] = "lineage"
    /\ lineage' = classified
    /\ LET expected == ExpectedOf(p)
       IN  scan' = [scan EXCEPT ![p].coverage =
               [expected |-> expected,
                archiveComplete |-> expected # {} /\ expected \subseteq Receipts(rows),
                lineageComplete |-> expected # {} /\ expected \subseteq classified]]
    /\ stage' = [stage EXCEPT ![p] = "publish"]
    /\ UNCHANGED <<storeVars, stored, classified, lock, clock, indexed, rows, snapshot, trace>>

(* publish() and the release of the lock; rows is what the index then had. *)
Writes(p, status) ==
    /\ snapshot' = [status |-> status, started |-> scan[p].started, listed |-> scan[p].listed,
                    coverage |-> IF status = "ok" THEN scan[p].coverage ELSE None, rows |-> rows]
    /\ stage' = [stage EXCEPT ![p] = "idle"] /\ scan' = [scan EXCEPT ![p] = Empty]
    /\ lock' = IF lock = p THEN None ELSE lock
    /\ UNCHANGED <<storeVars, stored, classified, clock, indexed, rows, lineage, trace>>

Publish(p) == stage[p] = "publish" /\ Writes(p, "ok")

(* Wrong variant: rows of a manifest that failed halfway stay.             *)
FailsHalfway(p) ==
    /\ stage[p] # "idle"
    /\ \E m \in manifests \ indexed : \E r \in m : rows' = rows \cup {r}
    /\ stage' = [stage EXCEPT ![p] = "idle"] /\ scan' = [scan EXCEPT ![p] = Empty]
    /\ lock' = None
    /\ UNCHANGED <<storeVars, stored, classified, clock, indexed, lineage, snapshot, trace>>

(* Anything raises; the open transaction is rolled back.                   *)
Fails(p) == stage[p] # "idle" /\ Writes(p, "error")

(* The process dies: the operating system releases the lock.               *)
Dies(p) ==
    /\ stage[p] # "idle"
    /\ stage' = [stage EXCEPT ![p] = "idle"] /\ scan' = [scan EXCEPT ![p] = Empty]
    /\ lock' = IF lock = p THEN None ELSE lock
    /\ UNCHANGED <<storeVars, stored, classified, clock, indexed, rows, lineage, snapshot, trace>>

-----------------------------------------------------------------------------
(* GET /v1/trace/{receipt}.                                                *)

(* Fresh enough, that is: it may stop being usable at any time.            *)
Usable == snapshot # None /\ snapshot.status = "ok"

TraceReadsSnapshot(receipt) ==
    /\ trace = None /\ Usable
    /\ trace' = [receipt |-> receipt, snapshot |-> snapshot, answer |-> None]
    /\ UNCHANGED <<storeVars, stored, classified, lock, stage, scan, clock, indexed, rows, lineage, snapshot>>

(* One read transaction; a receipt without raw rows is answered 404.       *)
TraceAnswers ==
    /\ trace # None /\ trace.answer = None
    /\ trace' = [trace EXCEPT !.answer = [found      |-> trace.receipt \in Receipts(rows),
                                         classified |-> trace.receipt \in lineage]]
    /\ UNCHANGED <<storeVars, stored, classified, lock, stage, scan, clock, indexed, rows, lineage, snapshot>>

Inspects(p) ==
    \/ Start(p) \/ (\E m \in manifests : Index(p, m))
    \/ ReadReceipts(p) \/ Covers(p) \/ Publish(p)

Next ==
    \/ /\ Accepts \/ \E object \in Object : Archives(object)
       /\ UNCHANGED <<stored, classified, inspectionVars>>
    \/ (\E n \in DOMAIN receipts : StoresReceipts(n)) \/ (\E n \in DOMAIN raw : StoresQuality(n))
    \/ \E p \in Inspector : Inspects(p) \/ Fails(p) \/ Dies(p)
    \/ (\E r \in Traced : TraceReadsSnapshot(r)) \/ TraceAnswers

Spec == Init /\ [][Next]_vars

-----------------------------------------------------------------------------
(* The types; the process that holds the lock is the one at work, and the  *)
(* index holds whole manifests and nothing else.                           *)
TypeOK ==
    /\ stored \subseteq ToSet(raw) /\ classified \subseteq ToSet(raw) /\ lineage \subseteq classified
    /\ \A p \in Inspector : stage[p] # "idle" <=> lock = p
    /\ rows = UNION indexed /\ indexed \subseteq manifests
    /\ snapshot \in Snapshot \cup {None}

(* A snapshot that claims completeness covers whatever was acknowledged in *)
(* the archive when its inspection started: those receipts are archived    *)
(* and classified, although ClickHouse was read at two other moments and   *)
(* may hold their manifests later (archive_index.py:139-178).              *)
ClaimHolds ==
    (/\ snapshot # None /\ snapshot.status = "ok"
     /\ snapshot.coverage.archiveComplete /\ snapshot.coverage.lineageComplete) =>
        Acknowledged(UNION snapshot.listed) \subseteq classified \cap Receipts(Archived)

(* The snapshot file never goes back to an earlier inspection              *)
(* (inspection.py:149-165).                                                *)
SnapshotForward ==
    [][snapshot # None => (snapshot' # None /\ snapshot'.started >= snapshot.started)]_vars

(* An answer of trace says no less than the snapshot whose time it carries:*)
(* a receipt is absent only if it was not in the index then, and one that  *)
(* the snapshot counts as classified has quality rows (api.py:161-173).    *)
TraceAgrees ==
    (trace # None /\ trace.answer # None) =>
        /\ trace.receipt \in Receipts(trace.snapshot.rows) => trace.answer.found
        /\ (/\ trace.snapshot.coverage.lineageComplete
            /\ trace.receipt \in trace.snapshot.coverage.expected) => trace.answer.classified
=============================================================================
