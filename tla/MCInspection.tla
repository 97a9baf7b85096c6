------------------------------ MODULE MCInspection ------------------------------
(* Two batches of one receipt. One is archived whole, the other as its raw *)
(* record and its manifest apart, in either order.                         *)
EXTENDS Inspection

MCBatches == <<<<"r1">>, <<"r2">>>>
MCObject  == {{<<"raw", 1>>, <<"receipts", 1>>}, {<<"raw", 2>>}, {<<"receipts", 2>>}}
=============================================================================
