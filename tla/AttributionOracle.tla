--------------------------- MODULE AttributionOracle ---------------------------
(***************************************************************************)
(* The reference calculation of oracle.py for the events of one click:     *)
(* what associations and counters a complete set of clean events calls for,*)
(* whatever order and delay they had. It shares no definition with the     *)
(* streaming operators, as the Python oracle shares none with the jobs.    *)
(*                                                                         *)
(* An event is [type, key, time, user, campaign, dims]: its business key,  *)
(* its event time, and the metric dimensions it would be counted under. All*)
(* events here carry the same impression_id and click_id.                  *)
(***************************************************************************)
EXTENDS Integers, FiniteSets

CONSTANTS
    Window,      \* attribution_window_ms
    Nobody       \* no event

(* clicks.get(key), impressions.get(key): the one event of a business key. *)
TheEvent(events, type) ==
    LET found == {e \in events : e.type = type}
    IN  IF found = {} THEN Nobody ELSE CHOOSE e \in found : TRUE

Unlinked(earlier, later) ==
    \/ earlier = Nobody
    \/ earlier.user # later.user
    \/ earlier.campaign # later.campaign
    \/ earlier.time > later.time
    \/ later.time - earlier.time > Window

(* joined[key]: the impression a click is attributed to.                   *)
JoinedImpression(events) ==
    LET impression == TheEvent(events, "impression")
        click      == TheEvent(events, "click")
    IN  IF click = Nobody \/ Unlinked(impression, click) THEN Nobody ELSE impression

IsMatched(events, conversion) == ~Unlinked(TheEvent(events, "click"), conversion)

ExpectedStatus(events, conversion) ==
    IF IsMatched(events, conversion) THEN "matched" ELSE "unmatched"

(* add(): one unit for a counter of the row that key_for selects.          *)
Unit(e, impression, time, cohort, counter) ==
    [cohort |-> cohort, time |-> time, counter |-> counter,
     dims |-> IF impression = Nobody THEN e.dims ELSE impression.dims,
     grouped |-> impression # Nobody,
     id |-> e.key]

ImpressionUnits(e) ==
    {Unit(e, e, e.time, cohort, "impressions") : cohort \in {"occurrence", "impression"}}

ClickUnits(events, e) ==
    LET impression == JoinedImpression(events)
    IN  {Unit(e, impression, e.time, cohort, "clicks") : cohort \in {"occurrence", "click"}}
          \cup IF impression = Nobody THEN {}
               ELSE {Unit(e, impression, impression.time, "impression", "clicks")}

ConversionUnits(events, e) ==
    LET click      == TheEvent(events, "click")
        impression == JoinedImpression(events)
    IN  IF ~IsMatched(events, e)
          THEN {Unit(e, Nobody, e.time, "occurrence", "unmatched_conversions")}
          ELSE {Unit(e, impression, e.time, "occurrence", "matched_conversions"),
                Unit(e, impression, click.time, "click", "matched_conversions"),
                Unit(e, impression, click.time, "conversion_value", "matched_conversions"),
                Unit(e, impression, click.time, "conversion_value", "value_minor")}

(* Every unit calculate() counts, but for converted_clicks.                *)
ExpectedUnits(events) ==
    UNION {CASE e.type = "impression" -> ImpressionUnits(e)
             [] e.type = "click"      -> ClickUnits(events, e)
             [] OTHER                 -> ConversionUnits(events, e) : e \in events}

(* converted_clicks: the click counts once, however often it converted.    *)
ExpectedConvertedClicks(events) ==
    IF \E e \in events : e.type = "conversion" /\ IsMatched(events, e) THEN 1 ELSE 0
=============================================================================
