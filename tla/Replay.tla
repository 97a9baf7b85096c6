--------------------------------- MODULE Replay ---------------------------------
(***************************************************************************)
(* The two readers that recompute results from the archive, composed with  *)
(* the worker that writes it: "replay --from-s3" of cli.py, and            *)
(* reconciliation.py with its index. Either reads the manifests and what   *)
(* they name, then the receipts in ClickHouse, then the quality rows, and  *)
(* calculates only if archive and lineage are complete for the receipts it *)
(* knows of. Meanwhile batches are accepted, archived and stored: every    *)
(* read sees a later moment than the one before.                           *)
(***************************************************************************)
EXTENDS Archive

(* All receipts in the order of received_at, batch_id and index. It need   *)
(* not be that of the topic: the clock is read before the lock is taken.   *)
CONSTANT Received

(* A receipt id names a batch and a place in it.                           *)
ASSUME ReceivedAssumption ==
    /\ Received \in Seq(Receipt) /\ \A r \in Receipt : \E n \in DOMAIN Received : Received[n] = r
    /\ \A m, n \in DOMAIN Received : Received[m] = Received[n] => m = n
    /\ \A a, b \in DOMAIN Batches : \A m \in DOMAIN Batches[a], n \in DOMAIN Batches[b] :
          Batches[a][m] = Batches[b][n] => a = b /\ m = n

VARIABLES
    tool,      \* "none", or the one at work: "replay" or "reconcile"
    reading,   \* "idle", "archive", "receipts", "lineage" or "calculated"
    listed,    \* objects that were there when the listing began
    rows,      \* records read
    expected,  \* receipts whose results are calculated
    packets,   \* input of the calculation
    promised   \* history: receipts behind the worker's offsets at the start

replayVars == <<tool, reading, listed, rows, expected, packets, promised>>
allVars == <<vars, replayVars>>

ReplayInit ==
    /\ Init /\ tool = "none" /\ reading = "idle"
    /\ listed = {} /\ rows = <<>> /\ expected = {} /\ packets = <<>> /\ promised = {}

-----------------------------------------------------------------------------
(* A finite set in its order: the n-th member has n - 1 before it.         *)
Arranged(set, order) ==
    [n \in 1..Cardinality(set) |-> CHOOSE x \in set : Cardinality({y \in set : <<y, x>> \in order}) = n - 1]

EarlierRecord(r, s) == (r[1] = "raw" /\ s[1] # "raw") \/ (r[1] = s[1] /\ r[2] < s[2])

(* Records in the order of their identities.                               *)
ByIdentity(records) == Arranged(records, {p \in records \X records : EarlierRecord(p[1], p[2])})

(* Wrong variant: the rows of one object after those of another.           *)
EveryRow(objects) == FlattenSeq(SetToSeq({ByIdentity(m) : m \in objects}))

VerifiedRecords(objects) == ByIdentity(UNION objects)

(* Wrong variant: only the receipts that ClickHouse has.                   *)
ScopeStored == expected

(* The index adds the acknowledgements of the archive; the command of the  *)
(* cli counts them, but does not replay what ClickHouse does not have.     *)
Scope == IF tool = "replay" THEN expected ELSE expected \cup Acknowledged(ToSet(rows))

EarlierPacket(r, s) ==
    \E m, n \in DOMAIN Received : m < n /\ Received[m] = r /\ Received[n] = s

Packet(n) == raw[rows[n][2]]
EarlierRow(m, n) == EarlierPacket(Packet(m), Packet(n)) \/ (Packet(m) = Packet(n) /\ m < n)
RowsIn(scope) == {n \in DOMAIN rows : rows[n][1] = "raw" /\ Packet(n) \in scope}

(* The packets of raw rows in scope, in the order received.                *)
PacketsOf(scope) ==
    LET found == RowsIn(scope)
    IN  [n \in 1..Cardinality(found) |->
            Packet(Arranged(found, {p \in found \X found : EarlierRow(p[1], p[2])})[n])]

-----------------------------------------------------------------------------
(* A request for the list of manifests; it may take several pages.         *)
Lists ==
    /\ reading = "idle" /\ reading' = "archive"
    /\ tool' \in {"replay", "reconcile"}
    /\ listed' = manifests
    /\ promised' = UNION {receipts[n] : n \in 1..committed["receipts"]}
    /\ UNCHANGED <<vars, rows, expected, packets>>

(* Manifests that appear meanwhile may be on a page still to come.         *)
ReadsArchive ==
    /\ reading = "archive" /\ reading' = "receipts"
    /\ \E objects \in SUBSET manifests :
          listed \subseteq objects /\ rows' = VerifiedRecords(objects)
    /\ listed' = {}
    /\ UNCHANGED <<vars, tool, expected, packets, promised>>

(* ClickHouse has those of the manifests that the sink has stored.         *)
ReadsReceipts ==
    /\ reading = "receipts" /\ reading' = "lineage"
    /\ \E stored \in SUBSET DOMAIN receipts : expected' = UNION {receipts[n] : n \in stored}
    /\ UNCHANGED <<vars, tool, listed, rows, packets, promised>>

(* reconcile() and coverage() are about all acknowledgements; the command  *)
(* of the cli does without none in ClickHouse.                             *)
Complete(classified) ==
    LET acknowledged == expected \cup Acknowledged(ToSet(rows))
    IN  /\ IF tool = "replay" THEN expected # {} ELSE acknowledged # {}
        /\ acknowledged \subseteq Receipts(ToSet(rows)) /\ acknowledged \subseteq classified

Calculates ==
    /\ reading = "lineage" /\ reading' = "calculated"
    /\ \E classified \in SUBSET ToSet(raw) : Complete(classified)
    /\ expected' = Scope /\ packets' = PacketsOf(Scope)
    /\ rows' = <<>>
    /\ UNCHANGED <<vars, tool, listed, promised>>

(* It is run again later.                                                  *)
Refuses ==
    /\ reading = "lineage" /\ reading' = "idle" /\ tool' = "none"
    /\ \E classified \in SUBSET ToSet(raw) : ~Complete(classified)
    /\ expected' = {} /\ rows' = <<>> /\ promised' = {}
    /\ UNCHANGED <<vars, listed, packets>>

ReplayNext ==
    \/ Next /\ UNCHANGED replayVars
    \/ Lists \/ ReadsArchive \/ ReadsReceipts \/ Calculates \/ Refuses

(* The fairness is the worker's: a reader is run by hand.                  *)
ReplaySpec ==
    /\ ReplayInit /\ [][ReplayNext]_allVars
    /\ WF_vars(Consumes) /\ WF_vars(PutData) /\ SF_vars(PutManifest) /\ SF_vars(Commit)

-----------------------------------------------------------------------------
(* The calculation gets every receipt of its scope, once and in the order  *)
(* received, however objects overlap and whatever appeared while the       *)
(* archive and ClickHouse were read (archive.py:91-108, cli.py:112-121,    *)
(* archive_index.py:180-183).                                              *)
ScopeExact ==
    reading = "calculated" =>
        /\ ToSet(packets) = expected
        /\ \A m, n \in DOMAIN packets : m < n => EarlierPacket(packets[m], packets[n])

(* A reconciliation covers all that the worker had committed before it     *)
(* began, what the sink has not stored yet included: nothing acknowledged  *)
(* long ago escapes the comparison (archive_index.py:139-147).             *)
ReconcileComplete ==
    (reading = "calculated" /\ tool = "reconcile") => promised \subseteq ToSet(packets)
=============================================================================
