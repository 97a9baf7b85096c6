-------------------------------- MODULE Archive --------------------------------
(***************************************************************************)
(* The archive role of worker.py with archive.py: records of the raw and   *)
(* receipts topics become immutable S3 objects, first the data and then a  *)
(* manifest that names it, and only then are the consumption offsets       *)
(* committed. A batch is retried until it is done; a restarted worker gets *)
(* the records again, in batches cut differently. (The worker archives     *)
(* quality, quarantine and CDC topics alike.)                              *)
(***************************************************************************)
EXTENDS ArchiveStore

CONSTANTS
    BatchSize,   \* messages consumed at once
    MaxCrashes   \* bound: restarts of the worker

ASSUME ArchiveAssumption == BatchSize \in Nat \ {0} /\ MaxCrashes \in Nat

VARIABLES
    step,        \* "consume", "data", "manifest" or "commit"
    batch,       \* records the worker holds
    position,    \* records it consumed, by topic
    committed,   \* its committed offsets
    data,        \* data objects
    crashes

vars == <<storeVars, step, batch, position, committed, data, crashes>>

Init ==
    /\ StoreInit
    /\ step = "consume" /\ batch = {}
    /\ position = [t \in Topic |-> 0] /\ committed = position
    /\ data = {} /\ crashes = 0

Consume(upto) ==
    /\ step = "consume"
    /\ \A t \in Topic : upto[t] \in position[t]..Len(Log(t))
    /\ batch' = UNION {{<<t, n>> : n \in (position[t] + 1)..upto[t]} : t \in Topic}
    /\ Cardinality(batch') \in 1..BatchSize
    /\ position' = upto /\ step' = "data"
    /\ UNCHANGED <<raw, receipts, committed, data, manifests, crashes>>

(* Wrong variant: the manifest is there before the data it names.          *)
PutManifestFirst ==
    /\ step = "data" /\ step' = "manifest"
    /\ manifests' = manifests \cup {batch}
    /\ UNCHANGED <<raw, receipts, batch, position, committed, data, crashes>>

(* put() with If-None-Match: an object that is there must be the same.     *)
PutData ==
    /\ step = "data" /\ step' = "manifest"
    /\ data' = data \cup {batch}
    /\ UNCHANGED <<raw, receipts, batch, position, committed, manifests, crashes>>

(* Wrong variant: manifests of an earlier delivery are cleaned up.         *)
PutManifestReplaces ==
    /\ step = "manifest" /\ step' = "commit"
    /\ manifests' = {m \in manifests : m \cap batch = {}} \cup {batch}
    /\ UNCHANGED <<raw, receipts, batch, position, committed, data, crashes>>

PutManifest ==
    /\ step = "manifest" /\ step' = "commit"
    /\ manifests' = manifests \cup {batch}
    /\ UNCHANGED <<raw, receipts, batch, position, committed, data, crashes>>

(* Wrong variant: a batch that could not be archived is left behind.       *)
SkipBatch ==
    /\ step \in {"data", "manifest"} /\ step' = "consume" /\ batch' = {}
    /\ UNCHANGED <<raw, receipts, position, committed, data, manifests, crashes>>

(* A put that raises, carried out or not: from the start again.            *)
PutRaises ==
    /\ \/ step = "data"     /\ data' \in {data, data \cup {batch}} /\ UNCHANGED manifests
       \/ step = "manifest" /\ manifests' \in {manifests, manifests \cup {batch}} /\ UNCHANGED data
    /\ step' = "data"
    /\ UNCHANGED <<raw, receipts, batch, position, committed, crashes>>

(* Wrong variant: one past the offset to go on from.                       *)
OffsetsPast == [t \in Topic |->
    IF \E r \in batch : r[1] = t THEN position[t] + 1 ELSE committed[t]]

Offsets == [t \in Topic |->
    IF \E r \in batch : r[1] = t THEN CHOOSE n \in 1..Len(Log(t)) :
        /\ <<t, n>> \in batch
        /\ \A r \in batch : r[1] = t => r[2] <= n
    ELSE committed[t]]

Commit ==
    /\ step = "commit" /\ step' = "consume"
    /\ committed' = Offsets /\ batch' = {}
    /\ UNCHANGED <<raw, receipts, position, data, manifests, crashes>>

(* Commit raised, carried out or not: the batch is archived once more.     *)
CommitRaises ==
    /\ step = "commit" /\ step' = "data"
    /\ committed' \in {committed, Offsets}
    /\ UNCHANGED <<raw, receipts, batch, position, data, manifests, crashes>>

(* Wrong variant: the next process goes on where this one was.             *)
CrashKeepsPosition ==
    /\ crashes < MaxCrashes /\ crashes' = crashes + 1
    /\ step' = "consume" /\ batch' = {}
    /\ UNCHANGED <<raw, receipts, position, committed, data, manifests>>

(* A process that goes back to its committed offsets.                      *)
Crash ==
    /\ crashes < MaxCrashes /\ crashes' = crashes + 1
    /\ step' = "consume" /\ batch' = {} /\ position' = committed
    /\ UNCHANGED <<raw, receipts, committed, data, manifests>>

Consumes == \E upto \in [Topic -> 0..(Len(raw) + Len(receipts))] : Consume(upto)

Accept == Accepts /\ UNCHANGED <<step, batch, position, committed, data, crashes>>

Next ==
    \/ Accept \/ Consumes \/ PutData \/ PutManifest \/ PutRaises
    \/ Commit \/ CommitRaises \/ Crash

Spec == Init /\ [][Next]_vars

(* The worker's loop goes on, and S3 and Kafka do not fail every request.  *)
FairSpec == Spec /\ WF_vars(Consumes) /\ WF_vars(PutData) /\ SF_vars(PutManifest) /\ SF_vars(Commit)

-----------------------------------------------------------------------------
(* The types; the worker holds the records between its committed offsets   *)
(* and its position while it is at work on a batch.                        *)
TypeOK ==
    /\ step \in {"consume", "data", "manifest", "commit"}
    /\ batch \subseteq Accepted /\ manifests \cup data \subseteq SUBSET Accepted
    /\ step = "consume" <=> batch = {}
    /\ \A t \in Topic : committed[t] <= position[t] /\ position[t] <= Len(Log(t))
    /\ crashes \in 0..MaxCrashes

(* The worker is the archive that readers count on: an object has accepted *)
(* records, and is never taken back when they are delivered again.         *)
StoreImplemented == StoreSpec

(* A manifest names data that is there, so that whoever lists manifests    *)
(* can read all they name, at any moment (archive.py:78-88).               *)
ManifestHasData == manifests \subseteq data

(* What is behind the committed offsets is archived, however batches were  *)
(* cut, repeated and interrupted (worker.py:60-80).                        *)
CommittedArchived == \A t \in Topic : \A n \in 1..committed[t] : <<t, n>> \in Archived

(* Once no more is accepted every record is archived in the end: retries   *)
(* and redeliveries leave none behind (worker.py:59-92).                   *)
EverythingArchived == Len(receipts) = Len(Batches) ~> Accepted \subseteq Archived
=============================================================================
