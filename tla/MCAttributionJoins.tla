-------------------------- MODULE MCAttributionJoins --------------------------
(* One impression, one click and conversions of it, with the times at which*)
(* the joins could go wrong: before the click, at the far edge of the      *)
(* attribution window, beyond it; and a campaign of their own.             *)
EXTENDS AttributionJoins

Make(type, key, time, dims) ==
    [type |-> type, key |-> key, time |-> time, user |-> "u", campaign |-> "c", dims |-> dims]

Impression == Make("impression", "i", 1, "d")
Click      == Make("click", "k", 2, "d")
Edge       == Make("conversion", "v", 3, "d")
Beyond     == Make("conversion", "v", 4, "d")
Second     == Make("conversion", "w", 3, "d")

MCEvent == {Impression, Click, Edge, Beyond, Second,
            [Edge EXCEPT !.campaign = "y"], [Click EXCEPT !.campaign = "y", !.time = 4]}

(* A conversion dated before the click arrives after one that timed out.   *)
EventsOfLateClick == {Click, Make("conversion", "v", 2, "d"), Make("conversion", "w", 1, "d")}
=============================================================================
