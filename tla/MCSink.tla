-------------------------------- MODULE MCSink --------------------------------
(* Small instances of Sink: one key per partition and kind of record.      *)
EXTENDS Sink, TLC

CONSTANTS k1, k2, q1, q2
MCKey       == {k1, k2}
MCPartition == {q1, q2}
MCKindOf    == k1 :> "metric" @@ k2 :> "receipt"
MCMetrics   == k1 :> "metric" @@ k2 :> "association"
MCHomeOf    == k1 :> q1 @@ k2 :> q2
MCOneHome   == k1 :> q1
MCOneKind   == k1 :> "metric"
=============================================================================
