------------------------------- MODULE MetricRow -------------------------------
(***************************************************************************)
(* What the metric rows of a release promise their readers: a row shows    *)
(* the sum of the contributions that were counted in it, each of them once,*)
(* and after its window is closed nothing is counted in it any more, until *)
(* a restart forgets how far event time had come.                          *)
(***************************************************************************)
EXTENDS Integers, FiniteSetsExt

CONSTANTS Row, Contribution, None

VARIABLES
    counted,  \* contributions in each open row
    shown,    \* what readers see of each row, None before the first time
    frozen    \* rows whose window is closed

vars == <<counted, shown, frozen>>

Value(c)  == c.value
Total(cs) == MapThenSumSet(Value, cs)

Init ==
    /\ counted = [r \in Row |-> {}]
    /\ shown = [r \in Row |-> None]
    /\ frozen = {}

Count(r, c) ==
    /\ r \notin frozen
    /\ counted' = [counted EXCEPT ![r] = @ \cup {c}]
    /\ UNCHANGED <<shown, frozen>>

Shows(r) ==
    /\ counted[r] # {}
    /\ shown' = [shown EXCEPT ![r] = Total(counted[r])]

Show(r) == Shows(r) /\ UNCHANGED <<counted, frozen>>

(* The row is shown a last time.                                           *)
Close(r) ==
    /\ Shows(r)
    /\ counted' = [counted EXCEPT ![r] = {}]
    /\ frozen' = frozen \cup {r}

(* Windows pass in which nothing was counted.                              *)
Pass(rs) ==
    /\ \A r \in rs : counted[r] = {}
    /\ frozen' = frozen \cup rs
    /\ UNCHANGED <<counted, shown>>

Restart == frozen' = {} /\ UNCHANGED <<counted, shown>>

Next ==
    \/ \E r \in Row : Show(r) \/ Close(r) \/ \E c \in Contribution : Count(r, c)
    \/ \E rs \in SUBSET Row : Pass(rs)
    \/ Restart

Spec == Init /\ [][Next]_vars
=============================================================================
