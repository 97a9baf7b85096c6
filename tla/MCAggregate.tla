------------------------------ MODULE MCAggregate ------------------------------
(* Two contributions of one window; a version that ends                     *)
(* in the middle of the first window, its successor, and a correction.     *)
EXTENDS Aggregate

Of(id, time, value) == [id |-> id, time |-> time, value |-> value]
MCContribution == {Of("a", 0, 1), Of("b", 1, 2)}

Version(from, to, version, channel) ==
    [from |-> from, to |-> to, version |-> version, channel |-> channel]
MCDimension == {Version(0, 1, 1, "search"), Version(0, None, 2, "video"), Version(1, None, 2, "deleted")}

OneContribution == {Of("a", 0, 2), Of("b", 1, 1)}
=============================================================================
