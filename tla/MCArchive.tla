-------------------------------- MODULE MCArchive --------------------------------
(* Two batches of a receipt each; the second was received first.           *)
EXTENDS Replay

MCBatches  == <<<<"r1">>, <<"r2">>>>
MCReceived == <<"r2", "r1">>
=============================================================================
