------------------------------ MODULE ArchiveStore ------------------------------
(***************************************************************************)
(* What the archive promises those who read it: objects of records that    *)
(* were accepted appear one after the other, and none is ever taken back.  *)
(*                                                                         *)
(* A record is <<topic, offset>>, and an object is the set of its records, *)
(* which also stands for its content-addressed key. The collector appends  *)
(* the raw records of a batch and its receipt manifest in one transaction  *)
(* (Collector.tla).                                                        *)
(***************************************************************************)
EXTENDS Naturals, FiniteSets, SequencesExt

CONSTANT Batches  \* sequence of the batches of receipts that are accepted

Receipt == UNION {ToSet(Batches[n]) : n \in DOMAIN Batches}

ASSUME BatchesAssumption == Batches \in Seq(Seq(Receipt))

VARIABLES
    raw, receipts,  \* the topics: receipts, and sets of receipts
    manifests       \* objects whose manifest is there

storeVars == <<raw, receipts, manifests>>

Topic == {"raw", "receipts"}
Log(topic) == IF topic = "raw" THEN raw ELSE receipts
Accepted == UNION {{t} \X DOMAIN Log(t) : t \in Topic}
Archived == UNION manifests

Receipts(records)     == {raw[r[2]] : r \in {s \in records : s[1] = "raw"}}
Acknowledged(records) == UNION {receipts[r[2]] : r \in {s \in records : s[1] = "receipts"}}

StoreInit == raw = <<>> /\ receipts = <<>> /\ manifests = {}

Accepts ==
    /\ Len(receipts) < Len(Batches)
    /\ LET accepted == Batches[Len(receipts) + 1]
       IN  /\ raw' = raw \o accepted
           /\ receipts' = Append(receipts, ToSet(accepted))
    /\ UNCHANGED manifests

Archives(object) ==
    /\ object # {} /\ object \subseteq Accepted
    /\ manifests' = manifests \cup {object}
    /\ UNCHANGED <<raw, receipts>>

StoreNext == Accepts \/ \E object \in SUBSET Accepted : Archives(object)

StoreSpec == StoreInit /\ [][StoreNext]_storeVars
=============================================================================
