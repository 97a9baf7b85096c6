--------------------------- MODULE AttributionJoins ---------------------------
(***************************************************************************)
(* The two event-time joins of AttributionJob.java, for one impression_id  *)
(* and one click_id: ExposureJoin holds a click until its impression comes,*)
(* ConversionJoin holds conversions until their click comes, and both give *)
(* up when the watermark passes the join wait.                             *)
(*                                                                         *)
(* The source delivers events in any order, more than once when the repeats*)
(* are further apart than the ten minutes of deduplication. Conversions go *)
(* straight to ConversionJoin, clicks through ExposureJoin: two FIFO       *)
(* channels, each with its own progress, carry events and watermarks, and  *)
(* ConversionJoin's watermark is the smaller of the two, of those that are *)
(* not idle. A source that is idle says so in both channels, and is active *)
(* again with its next watermark. An operator fires all timers a watermark *)
(* makes due, in order of time, before it takes another element and before *)
(* it forwards the watermark.                                              *)
(*                                                                         *)
(* Results are sets: Aggregate replaces a contribution with the same       *)
(* contribution_id in the same metric row, so repeating one adds nothing.  *)
(* Quality signals are sets too. Event identity is one user and campaign.  *)
(***************************************************************************)
EXTENDS Integers, Sequences, FiniteSets

CONSTANTS
    Event,        \* events [type, key, time, user, campaign, dims]
    Attribution,  \* rules.attribution
    Wait,         \* rules.wait
    Retention,    \* rules.retention
    MaxFaults,    \* bound: repeats of events and silences of the source, together
    MaxChannel,   \* bound: the source pauses while a channel holds this much
    MaxTime,      \* bound: last watermark
    None          \* no event

(* The constructor of Rules.java refuses other values.                     *)
ASSUME RulesAssumption ==
    /\ Attribution \in Nat \ {0} /\ Wait \in Nat \ {0} /\ Retention \in Nat
    /\ Retention >= Attribution + Wait

ASSUME BoundAssumption == MaxFaults \in Nat /\ MaxChannel \in Nat /\ MaxTime \in Nat

(* The last watermark is past every wait.                                  *)
ASSUME EventAssumption ==
    /\ IsFiniteSet(Event) /\ None \notin Event
    /\ \A e \in Event : /\ DOMAIN e = {"type", "key", "time", "user", "campaign", "dims"}
                        /\ e.type \in {"impression", "click", "conversion"}
                        /\ e.time \in Nat /\ e.time + Wait <= MaxTime

(* What Measurement.java gives as reasons, and the associations with them. *)
ExposureReasons ==
    {"IMPRESSION_NOT_FOUND", "IMPRESSION_IDENTITY_MISMATCH", "IMPRESSION_CAMPAIGN_MISMATCH",
     "CLICK_BEFORE_IMPRESSION", "IMPRESSION_WINDOW_EXCEEDED", "OK"}

ConversionReasons ==
    {"CLICK_NOT_FOUND", "IDENTITY_MISMATCH", "CAMPAIGN_MISMATCH", "CLICK_AFTER_CONVERSION",
     "ATTRIBUTION_WINDOW_EXCEEDED", "MATCHED"}

Associations ==
    [status : {"pending", "matched", "unmatched"}, reason : ConversionReasons \cup {"AWAITING_CLICK"}]

(* None is no enriched click and no association.                           *)
ASSUME NoneAssumption ==
    /\ None \notin [event : Event, reason : ExposureReasons, impression : Event \cup {None}]
    /\ None \notin Associations

(* Business keys say the type; impression and click have one each.         *)
ASSUME KeyAssumption ==
    \A e, f \in Event :
        /\ e.key = f.key => e.type = f.type
        /\ e.type = f.type => e.key = f.key \/ e.type = "conversion"

VARIABLES
    arrivals,       \* how often each event has reached the jobs
    punctual,       \* no event so far was later than the join wait
    quiet,          \* the source has been idle since its last watermark
    idles,          \* times it became idle
    watermark,      \* watermark of the source, and of ExposureJoin
    forwarded,      \* watermark ExposureJoin has passed on
    impression,     \* ExposureJoin: impression-json-v1
    pendingClick,   \* ExposureJoin: pending-click-json-v1, one key per click_id
    exposureTimers, \* ExposureJoin: registered event-time timers
    clicks,         \* channel of enriched clicks and watermarks
    conversions,    \* channel of conversions and watermarks
    progress,       \* ConversionJoin: last watermark of each channel
    active,         \* ConversionJoin: channels that are not idle
    current,        \* ConversionJoin: its watermark
    click,          \* ConversionJoin: click-json-v1
    waiting,        \* ConversionJoin: pending-conversion-json-v1
    expired,        \* ConversionJoin: needs-replay-v1
    expiredUntil,   \* ConversionJoin: needs-replay-until-v1, 0 when unset
    conversionTimers,
    associations,   \* latest association of each conversion key
    contributions,  \* METRICS output of both operators
    signals         \* SIGNALS output of both operators

exposure   == <<impression, pendingClick, exposureTimers>>
conversion == <<click, waiting, expired, expiredUntil, conversionTimers>>
channels   == <<clicks, conversions>>
outputs    == <<associations, contributions, signals>>
source     == <<arrivals, punctual, quiet, idles>>
valve      == <<progress, active, current>>
vars == <<source, watermark, forwarded, exposure, channels, valve, conversion, outputs>>

Oracle == INSTANCE AttributionOracle WITH Window <- Attribution, Nobody <- None

ConversionKey == {e.key : e \in {f \in Event : f.type = "conversion"}}
Channel       == {"clicks", "conversions"}
Arrived       == {e \in Event : arrivals[e] > 0}
Repeats       == Cardinality({p \in Event \X (2..(MaxFaults + 1)) : p[2] <= arrivals[p[1]]})

Init ==
    /\ arrivals = [e \in Event |-> 0] /\ punctual = TRUE
    /\ quiet = FALSE /\ idles = 0
    /\ watermark = 0 /\ forwarded = 0
    /\ impression = None /\ pendingClick = None /\ exposureTimers = {}
    /\ clicks = <<>> /\ conversions = <<>>
    /\ progress = [c \in Channel |-> 0] /\ active = Channel /\ current = 0
    /\ click = None /\ waiting = {} /\ expired = FALSE /\ expiredUntil = 0
    /\ conversionTimers = {}
    /\ associations = [k \in ConversionKey |-> None]
    /\ contributions = {} /\ signals = {}

-----------------------------------------------------------------------------
(* Measurement.java. Identity mismatches come before time relations.       *)

ExposureReason(i, c) ==
    IF i = None                         THEN "IMPRESSION_NOT_FOUND"
    ELSE IF i.user # c.user             THEN "IMPRESSION_IDENTITY_MISMATCH"
    ELSE IF i.campaign # c.campaign     THEN "IMPRESSION_CAMPAIGN_MISMATCH"
    ELSE IF c.time < i.time             THEN "CLICK_BEFORE_IMPRESSION"
    ELSE IF c.time - i.time > Attribution THEN "IMPRESSION_WINDOW_EXCEEDED"
    ELSE "OK"

(* A wrong variant: the attribution window is not checked.                 *)
ReasonWithoutWindow(c, v) ==
    IF c = None                         THEN "CLICK_NOT_FOUND"
    ELSE IF c.event.user # v.user       THEN "IDENTITY_MISMATCH"
    ELSE IF c.event.campaign # v.campaign THEN "CAMPAIGN_MISMATCH"
    ELSE IF v.time < c.event.time       THEN "CLICK_AFTER_CONVERSION"
    ELSE "MATCHED"

(* A click in ConversionJoin carries _link_reason and _impression.         *)
ConversionReason(c, v) ==
    IF c = None                         THEN "CLICK_NOT_FOUND"
    ELSE IF c.event.user # v.user       THEN "IDENTITY_MISMATCH"
    ELSE IF c.event.campaign # v.campaign THEN "CAMPAIGN_MISMATCH"
    ELSE IF v.time < c.event.time       THEN "CLICK_AFTER_CONVERSION"
    ELSE IF v.time - c.event.time > Attribution THEN "ATTRIBUTION_WINDOW_EXCEEDED"
    ELSE "MATCHED"

Contribution(e, i, time, cohort, counter) ==
    [cohort |-> cohort, time |-> time, counter |-> counter,
     dims |-> IF i = None THEN e.dims ELSE i.dims, grouped |-> i # None,
     id |-> IF counter = "converted_clicks" THEN "click" ELSE e.key]

ImpressionMetrics(i) ==
    {Contribution(i, i, i.time, cohort, "impressions") : cohort \in {"occurrence", "impression"}}

ClickMetrics(c) ==
    {Contribution(c.event, c.impression, c.event.time, cohort, "clicks") :
        cohort \in {"occurrence", "click"}}
      \cup IF c.impression = None THEN {}
           ELSE {Contribution(c.event, c.impression, c.impression.time, "impression", "clicks")}

ConversionMetrics(v, c, reason) ==
    IF reason # "MATCHED"
      THEN {Contribution(v, None, v.time, "occurrence", "unmatched_conversions")}
      ELSE {Contribution(v, c.impression, v.time, "occurrence", "matched_conversions")}
             \cup {Contribution(v, c.impression, c.event.time, "click", counter) :
                     counter \in {"matched_conversions", "converted_clicks"}}
             \cup {Contribution(v, c.impression, c.event.time, "conversion_value", counter) :
                     counter \in {"matched_conversions", "value_minor"}}

Association(reason) ==
    [status |-> CASE reason = "AWAITING_CLICK" -> "pending"
                  [] reason = "MATCHED"        -> "matched"
                  [] OTHER                     -> "unmatched",
     reason |-> reason]

Signal(e, reason) == [key |-> e.key, reason |-> reason]

(* enrich: the click as ConversionJoin receives it.                        *)
Enriched(c, i) ==
    LET reason == ExposureReason(i, c)
    IN  [event |-> c, reason |-> reason, impression |-> IF reason = "OK" THEN i ELSE None]

(* A watermark, which also ends idleness; Idleness is its beginning.       *)
Mark(t)      == [mark |-> t]
Idleness     == Mark(0)
IsMark(item) == DOMAIN item = {"mark"}

-----------------------------------------------------------------------------
(* The source and ExposureJoin.                                            *)

Due(timers, t) == \E s \in timers : s <= t

(* ExposureJoin has finished with the watermark.                           *)
ExposureIdle == forwarded = watermark

(* Buffers are bounded: a full channel stops the source.                   *)
Flowing == Len(clicks) < MaxChannel /\ Len(conversions) < MaxChannel

(* One business key names one event, which may come again.                 *)
Arrives(e) ==
    /\ ExposureIdle /\ Flowing
    /\ \A f \in Arrived : f.key = e.key => f = e
    /\ e \in Arrived => Repeats + idles < MaxFaults
    /\ arrivals' = [arrivals EXCEPT ![e] = @ + 1]
    /\ punctual' = (punctual /\ watermark < e.time + Wait)
    /\ UNCHANGED <<quiet, idles>>

(* The head of a channel, once all timers due have fired.                  *)
Takes(channel) == channel # <<>> /\ ~Due(conversionTimers, current)

(* Wrong variants of steps below: each property is checked to notice one.  *)

(* The impression registers no timer of its own.                           *)
ImpressionWithoutTimer(e) ==
    /\ e.type = "impression"
    /\ Arrives(e)
    /\ e.time + Retention > watermark
    /\ impression' = IF impression = None THEN e ELSE impression
    /\ contributions' = IF impression = None THEN contributions \cup ImpressionMetrics(e)
                                             ELSE contributions
    /\ clicks' = IF pendingClick = None THEN clicks
                 ELSE Append(clicks, Enriched(pendingClick, impression'))
    /\ pendingClick' = None
    /\ UNCHANGED <<watermark, forwarded, exposureTimers, conversions, valve, conversion,
                   associations, signals>>

(* The watermark overtakes the clicks that it releases.                    *)
WatermarkBeforeTimers ==
    /\ forwarded < watermark
    /\ clicks' = Append(clicks, Mark(watermark))
    /\ forwarded' = watermark
    /\ UNCHANGED <<source, watermark, exposure, conversions, valve, conversion, outputs>>

(* The operator's watermark is not the smaller one of its channels.        *)
HearsForBoth(channel, mark) ==
    /\ progress' = [c \in Channel |-> IF mark = 0 THEN progress[c] ELSE mark]
    /\ active'   = IF mark = 0 THEN active \ {channel} ELSE active \cup {channel}
    /\ current'  = IF mark = 0 THEN current ELSE mark

LateAtExposure(e) ==
    /\ e.type # "conversion"
    /\ Arrives(e)
    /\ e.time + Retention <= watermark
    /\ signals' = signals \cup {Signal(e, "LATE_REPLAY_REQUIRED")}
    /\ UNCHANGED <<watermark, forwarded, exposure, channels, valve, conversion,
                   associations, contributions>>

(* The first impression counts; pending clicks are enriched and released.  *)
ImpressionArrives(e) ==
    /\ e.type = "impression"
    /\ Arrives(e)
    /\ e.time + Retention > watermark
    /\ impression' = IF impression = None THEN e ELSE impression
    /\ contributions' = IF impression = None THEN contributions \cup ImpressionMetrics(e)
                                             ELSE contributions
    /\ clicks' = IF pendingClick = None THEN clicks
                 ELSE Append(clicks, Enriched(pendingClick, impression'))
    /\ pendingClick' = None
    /\ exposureTimers' = exposureTimers \cup {e.time + Retention}
    /\ UNCHANGED <<watermark, forwarded, conversions, valve, conversion,
                   associations, signals>>

(* The click finds its impression, or has no time left to wait for it.     *)
ClickPasses(e) ==
    /\ e.type = "click"
    /\ Arrives(e)
    /\ e.time + Retention > watermark
    /\ impression # None \/ e.time + Wait <= watermark
    /\ clicks' = Append(clicks, Enriched(e, impression))
    /\ UNCHANGED <<watermark, forwarded, exposure, conversions, valve, conversion, outputs>>

ClickWaits(e) ==
    /\ e.type = "click"
    /\ Arrives(e)
    /\ e.time + Retention > watermark
    /\ impression = None /\ e.time + Wait > watermark
    /\ pendingClick' = IF pendingClick = None THEN e ELSE pendingClick
    /\ exposureTimers' = exposureTimers \cup {e.time + Wait}
    /\ UNCHANGED <<watermark, forwarded, impression, channels, valve, conversion, outputs>>

ConversionArrives(e) ==
    /\ e.type = "conversion"
    /\ Arrives(e)
    /\ conversions' = Append(conversions, e)
    /\ UNCHANGED <<watermark, forwarded, exposure, clicks, valve, conversion, outputs>>

(* Other keys' events move event time.                                     *)
WatermarkAdvances(t) ==
    /\ ExposureIdle /\ Flowing
    /\ watermark < t
    /\ watermark' = t
    /\ quiet' = FALSE
    /\ conversions' = Append(conversions, Mark(t))
    /\ UNCHANGED <<arrivals, punctual, idles, forwarded, exposure, clicks, valve, conversion, outputs>>

(* withIdleness: no partition had a record for idle_timeout_ms. The record *)
(* that ends the silence precedes the watermark that says so.              *)
SourceIdles ==
    /\ ExposureIdle /\ Flowing
    /\ ~quiet /\ Repeats + idles < MaxFaults
    /\ quiet' = TRUE
    /\ idles' = idles + 1
    /\ clicks' = Append(clicks, Idleness)
    /\ conversions' = Append(conversions, Idleness)
    /\ UNCHANGED <<arrivals, punctual, watermark, forwarded, exposure, valve, conversion, outputs>>

(* onTimer: a click whose wait is over goes on without an impression, an   *)
(* impression past its retention is forgotten.                             *)
ExposureTimer(t) ==
    /\ t \in exposureTimers /\ t <= watermark
    /\ \A s \in exposureTimers : t <= s
    /\ exposureTimers' = exposureTimers \ {t}
    /\ IF pendingClick # None /\ pendingClick.time + Wait <= t
         THEN /\ clicks' = Append(clicks, Enriched(pendingClick, None))
              /\ pendingClick' = None
         ELSE UNCHANGED <<clicks, pendingClick>>
    /\ impression' = IF impression # None /\ impression.time + Retention <= t
                       THEN None ELSE impression
    /\ UNCHANGED <<source, watermark, forwarded, conversions, valve, conversion, outputs>>

WatermarkForwarded ==
    /\ forwarded < watermark
    /\ ~Due(exposureTimers, watermark)
    /\ clicks' = Append(clicks, Mark(watermark))
    /\ forwarded' = watermark
    /\ UNCHANGED <<source, watermark, exposure, conversions, valve, conversion, outputs>>

-----------------------------------------------------------------------------
(* ConversionJoin.                                                         *)

(* The union has one valve for both channels: of those that are active and *)
(* not behind its watermark, the smallest counts; when all are idle, the   *)
(* largest of all.                                                         *)
Hears(channel, mark) ==
    LET heard   == [progress EXCEPT ![channel] = IF mark = 0 THEN @ ELSE mark]
        aligned == {heard[c] : c \in {d \in active' : heard[d] >= current}}
        all     == {heard[c] : c \in Channel}
        next    == IF active' = {} THEN {t \in all : \A u \in all : u <= t}
                                   ELSE {t \in aligned : \A u \in aligned : t <= u}
    IN  /\ active'   = IF mark = 0 THEN active \ {channel} ELSE active \cup {channel}
        /\ progress' = heard
        /\ current'  = IF next = {} THEN current ELSE CHOOSE t \in next : TRUE

ClickMark ==
    /\ Takes(clicks) /\ IsMark(Head(clicks))
    /\ Hears("clicks", Head(clicks).mark)
    /\ clicks' = Tail(clicks)
    /\ UNCHANGED <<source, watermark, forwarded, exposure, conversions, conversion, outputs>>

ConversionMark ==
    /\ Takes(conversions) /\ IsMark(Head(conversions))
    /\ Hears("conversions", Head(conversions).mark)
    /\ conversions' = Tail(conversions)
    /\ UNCHANGED <<source, watermark, forwarded, exposure, clicks, conversion, outputs>>

(* What the operator emits for conversions joined to click c.              *)
Emits(vs, c) ==
    /\ associations' = [k \in ConversionKey |->
                          IF \E v \in vs : v.key = k
                            THEN Association(ConversionReason(c, CHOOSE v \in vs : v.key = k))
                            ELSE associations[k]]
    /\ contributions' = contributions
          \cup (UNION {ConversionMetrics(v, c, ConversionReason(c, v)) : v \in vs})
          \cup (IF c # None /\ click = None THEN ClickMetrics(c) ELSE {})

(* The first click counts and releases the conversions that wait for it.   *)
ClickJoins ==
    LET c == Head(clicks)
    IN  /\ Takes(clicks) /\ ~IsMark(c)
        /\ c.event.time + Retention > current
        /\ click' = IF click = None THEN c ELSE click
        /\ Emits(waiting, click')
        /\ signals' = signals
              \cup {Signal(c.event, r) : r \in IF click = None THEN {c.reason} \ {"OK"} ELSE {}}
              \cup {Signal(c.event, r) : r \in IF expired THEN {"LATE_CLICK_REPLAY_REQUIRED"} ELSE {}}
        /\ waiting' = {}
        /\ conversionTimers' = conversionTimers \cup {c.event.time + Retention}
        /\ clicks' = Tail(clicks)
        /\ UNCHANGED <<source, watermark, forwarded, exposure, conversions, valve,
                       expired, expiredUntil>>

LateClick ==
    LET c == Head(clicks)
    IN  /\ Takes(clicks) /\ ~IsMark(c)
        /\ c.event.time + Retention <= current
        /\ signals' = signals \cup {Signal(c.event, "LATE_REPLAY_REQUIRED")}
        /\ clicks' = Tail(clicks)
        /\ UNCHANGED <<source, watermark, forwarded, exposure, conversions, valve,
                       conversion, associations, contributions>>

(* The click is known, or the conversion has no time left to wait for it.  *)
ConversionJoins ==
    LET v == Head(conversions)
    IN  /\ Takes(conversions) /\ ~IsMark(v)
        /\ v.time + Retention > current
        /\ click # None \/ v.time + Wait <= current
        /\ Emits({v}, click)
        /\ IF click = None
             THEN /\ expired' = TRUE
                  /\ expiredUntil' = v.time + Retention
                  /\ conversionTimers' = conversionTimers \cup {v.time + Retention}
             ELSE UNCHANGED <<expired, expiredUntil, conversionTimers>>
        /\ conversions' = Tail(conversions)
        /\ UNCHANGED <<source, watermark, forwarded, exposure, clicks, valve,
                       click, waiting, signals>>

ConversionWaits ==
    LET v     == Head(conversions)
        known == \E u \in waiting : u.key = v.key
    IN  /\ Takes(conversions) /\ ~IsMark(v)
        /\ v.time + Retention > current
        /\ click = None /\ v.time + Wait > current
        /\ waiting' = IF known THEN waiting ELSE waiting \cup {v}
        /\ associations' = IF known THEN associations
                           ELSE [associations EXCEPT ![v.key] = Association("AWAITING_CLICK")]
        /\ conversionTimers' = conversionTimers \cup {v.time + Wait}
        /\ conversions' = Tail(conversions)
        /\ UNCHANGED <<source, watermark, forwarded, exposure, clicks, valve, click,
                       expired, expiredUntil, contributions, signals>>

LateConversion ==
    LET v == Head(conversions)
    IN  /\ Takes(conversions) /\ ~IsMark(v)
        /\ v.time + Retention <= current
        /\ signals' = signals \cup {Signal(v, "LATE_REPLAY_REQUIRED")}
        /\ conversions' = Tail(conversions)
        /\ UNCHANGED <<source, watermark, forwarded, exposure, clicks, valve,
                       conversion, associations, contributions>>

(* onTimer: conversions whose wait is over are unmatched, with a signal,   *)
(* and a click past its retention is forgotten.                            *)
ConversionTimer(t) ==
    LET timedOut == {v \in waiting : v.time + Wait <= t}
        forget   == click # None /\ click.event.time + Retention <= t
        until    == IF timedOut = {} THEN expiredUntil
                    ELSE (CHOOSE v \in timedOut : TRUE).time + Retention
        over     == until # 0 /\ t >= until
    IN  /\ t \in conversionTimers /\ t <= current
        /\ \A s \in conversionTimers : t <= s
        /\ Emits(timedOut, None)
        /\ signals' = signals \cup {Signal(v, "CLICK_NOT_FOUND") : v \in timedOut}
        /\ waiting' = waiting \ timedOut
        /\ click' = IF forget THEN None ELSE click
        /\ expired' = (~forget /\ ~over /\ (expired \/ timedOut # {}))
        /\ expiredUntil' = IF over THEN 0 ELSE until
        /\ conversionTimers' = (conversionTimers \ {t}) \cup {v.time + Retention : v \in timedOut}
        /\ UNCHANGED <<source, watermark, forwarded, exposure, channels, valve>>

-----------------------------------------------------------------------------
ExposureStep ==
    \/ \E e \in Event : \/ LateAtExposure(e) \/ ImpressionArrives(e)
                        \/ ClickPasses(e) \/ ClickWaits(e) \/ ConversionArrives(e)
    \/ \E t \in 1..MaxTime : WatermarkAdvances(t)
    \/ \E t \in exposureTimers : ExposureTimer(t)
    \/ WatermarkForwarded
    \/ SourceIdles

ConversionStep ==
    \/ ClickMark \/ ConversionMark
    \/ ClickJoins \/ LateClick
    \/ ConversionJoins \/ ConversionWaits \/ LateConversion
    \/ \E t \in conversionTimers : ConversionTimer(t)

Next == ExposureStep \/ ConversionStep

Spec == Init /\ [][Next]_vars

-----------------------------------------------------------------------------
(* Event time is over and every operator has caught up.                    *)
Drained ==
    /\ watermark = MaxTime /\ forwarded = MaxTime
    /\ clicks = <<>> /\ conversions = <<>>
    /\ ~Due(conversionTimers, current)

StatusAgrees ==
    \A v \in {e \in Arrived : e.type = "conversion"} :
        /\ associations[v.key] # None
        /\ associations[v.key].status = Oracle!ExpectedStatus(Arrived, v)

CountsAgree ==
    /\ {u \in contributions : u.counter # "converted_clicks"} = Oracle!ExpectedUnits(Arrived)
    /\ Cardinality({u \in contributions : u.counter = "converted_clicks"})
         = Oracle!ExpectedConvertedClicks(Arrived)

(* Types of the variables TLC can bound without enumerating them.          *)
TypeOK ==
    /\ arrivals \in [Event -> 0..(MaxFaults + 1)]
    /\ punctual \in BOOLEAN /\ quiet \in BOOLEAN /\ idles \in 0..MaxFaults
    /\ watermark \in 0..MaxTime /\ forwarded \in 0..watermark
    /\ impression \in {e \in Event : e.type = "impression"} \cup {None}
    /\ pendingClick \in {e \in Event : e.type = "click"} \cup {None}
    /\ waiting \subseteq {e \in Event : e.type = "conversion"}
    /\ expired \in BOOLEAN
    /\ progress.clicks \in 0..forwarded /\ progress.conversions \in 0..watermark
    /\ active \subseteq Channel /\ current \in 0..watermark

(* When no event was later than the join wait and the source was never     *)
(* silent, the two staged joins end with the statuses and the counters the *)
(* oracle computes from the same events, for every arrival order, repeat,  *)
(* timer race and skew between the channels. After a silence the first     *)
(* channel that is active again moves ConversionJoin's watermark alone,    *)
(* and punctual events of the other channel may be refused.                *)
OnTimeAgreement == Drained /\ punctual /\ idles = 0 => StatusAgrees /\ CountsAgree

(* However late events are, a conversion is never matched to a click that  *)
(* the oracle would refuse, and none is left pending when event time is    *)
(* over: every wait ends (AttributionJob.java:126-139).                    *)
MatchesAreReal ==
    \A v \in {e \in Arrived : e.type = "conversion"} :
        associations[v.key] # None =>
            /\ associations[v.key].status = "matched" => Oracle!IsMatched(Arrived, v)
            /\ Drained => associations[v.key].status # "pending"

(* State is bounded: nothing stays in an operator beyond the time the      *)
(* rules keep it, whatever the order of arrivals, timers and repeats. A    *)
(* forgotten timer would leak one key's state for good.                    *)
StateExpires ==
    /\ ~Due(exposureTimers, watermark) =>
         /\ impression # None => watermark < impression.time + Retention
         /\ pendingClick # None => watermark < pendingClick.time + Wait
    /\ ~Due(conversionTimers, current) =>
         /\ click # None => current < click.event.time + Retention
         /\ \A v \in waiting : current < v.time + Wait
         /\ expired => current < expiredUntil

(* docs/architecture.md:54: a click that comes after a conversion it would *)
(* have matched timed out does not rewrite the result, it is announced by  *)
(* a signal that asks for a replay.                                        *)
LateClickSignalled ==
    [][\A v \in {e \in Arrived : e.type = "conversion"} :
         /\ associations[v.key] = Association("CLICK_NOT_FOUND")
         /\ click = None /\ click' # None
         /\ ConversionReason(click', v) = "MATCHED"
         => Signal(click'.event, "LATE_CLICK_REPLAY_REQUIRED") \in signals']_vars

(* docs/architecture.md:67: a click that converts several times adds to    *)
(* converted_clicks once. There is one click here.                         *)
ClickConvertsOnce == Cardinality({u \in contributions : u.counter = "converted_clicks"}) <= 1
=============================================================================
