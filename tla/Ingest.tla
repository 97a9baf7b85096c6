--------------------------------- MODULE Ingest ---------------------------------
(***************************************************************************)
(* The collector and the cleaning job, joined by the raw topic.            *)
(***************************************************************************)
EXTENDS CleanJob, Functions

CONSTANTS Client, Sends, MaxBatches, MaxCrashes

VARIABLES sender, phase, answer, lock, producer, pending, manifests, crashes

INSTANCE Collector

ASSUME IngestAssumption ==
    /\ MaxBatches \in Nat /\ MaxCrashes \in Nat
    /\ \A c \in Client : Sends[c] \in Seq(Event) \ {<<>>}

collectorOnly == <<sender, phase, answer, lock, producer, pending, manifests, crashes>>
vars == <<collectorOnly, raw, cleanVars>>

Init == CollectorInit /\ CleanInit

Next ==
    \/ CollectorNext /\ UNCHANGED cleanVars
    \/ CleanNext /\ UNCHANGED collectorOnly

Spec == Init /\ [][Next]_vars

(* Flink goes on reading what is committed.                                *)
FairSpec == Spec /\ WF_vars(CleanSteps /\ UNCHANGED collectorOnly)

-----------------------------------------------------------------------------
(* normalize() of oracle.py over records in an order: it never forgets.    *)
Rejections == {"SCHEMA_INVALID", "SCHEMA_VERSION_DISABLED", "RULE_FILTERED"}

CodeOf(packets, code, n) ==
    LET event   == packets[n].event
        earlier == 1..(n - 1)
    IN  IF event.verdict # "OK" THEN event.verdict
        ELSE IF \E m \in earlier : code[m] \notin Rejections /\ packets[m].event.id = event.id
             THEN "DUPLICATE_EVENT_ID"
        ELSE IF \E m \in earlier : code[m] = "OK" /\ packets[m].event.key = event.key
             THEN "DUPLICATE_BUSINESS_KEY"
        ELSE "OK"

Normalized(packets) ==
    LET code[n \in DOMAIN packets] == CodeOf(packets, code, n)
    IN  {[receipt |-> packets[n].receipt, code |-> code[n]] : n \in DOMAIN packets}

-----------------------------------------------------------------------------
TypeOK == CollectorTypeOK /\ CleanTypeOK

(* When everything is classified within one Dedup, the quality rows are    *)
(* those of the oracle for the records in some order that keeps that of    *)
(* each event id (oracle.py:16-55): two layers of deduplication, one after *)
(* the other and in parallel, are as good as one pass.                     *)
AgreesWithNormalize ==
    (read = DOMAIN raw /\ (\A i \in Id : between[i] = <<>>) /\ clock < Dedup) =>
        \E order \in Bijection(DOMAIN raw, DOMAIN raw) :
            /\ \A p, q \in DOMAIN raw :
                  (order[p] < order[q] /\ raw[order[p]].event.id = raw[order[q]].event.id) => p < q
            /\ Normalized([p \in DOMAIN raw |-> raw[order[p]]]) = quality

(* Every event of an acknowledged batch gets its quality row: nothing the  *)
(* collector answered for is dropped on the way (collector.py:114,         *)
(* CleanJob.java:78-91).                                                   *)
AcknowledgedClassified ==
    \A b \in 1..MaxBatches :
        (b \in Batch /\ answer[b] = "202") ~> (b \in Batch /\ \A r \in Receipts(b) : \E q \in quality : q.receipt = r)
=============================================================================
