--------------------------------- MODULE MCPages ---------------------------------
(* A live release whose rows change, and a replay with a row that had      *)
(* another field before.                                                   *)
EXTENDS Pages

MCStored == [r \in Release |->
    IF r = Live THEN <<<<"x">>, <<"y">>, <<"x">>>> ELSE <<<<"x">>, <<"x", "y">>, <<"x">>>>]
MCSymmetry == Permutations(Client)
=============================================================================
