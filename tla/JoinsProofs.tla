------------------------------ MODULE JoinsProofs ------------------------------
(* Proofs about AttributionJoins for any rules, events and delays.         *)
EXTENDS AttributionJoins, FiniteSetTheorems, TLAPS

-----------------------------------------------------------------------------
(* The inductive invariant.                                                *)

ArrivedOf(type) == {e \in Arrived : e.type = type}

(* What a channel carries: watermarks its sender has reached, and events   *)
(* that arrived.                                                           *)
ClickItem ==
    {Mark(t) : t \in 0..forwarded}
      \cup [event : ArrivedOf("click"), reason : ExposureReasons, impression : Event \cup {None}]
ConversionItem == {Mark(t) : t \in 0..watermark} \cup ArrivedOf("conversion")

(* One event of each business key, repeated as often as the bound allows.  *)
Counted ==
    /\ arrivals \in [Event -> 0..(MaxFaults + 1)] /\ idles \in 0..MaxFaults
    /\ \A e, f \in Arrived : e.key = f.key => e = f

(* Types: all that operators and channels hold has arrived.                *)
Clocks ==
    /\ punctual \in BOOLEAN /\ quiet \in BOOLEAN
    /\ watermark \in 0..MaxTime /\ forwarded \in 0..watermark
    /\ progress \in [Channel -> 0..watermark] /\ progress["clicks"] <= forwarded
    /\ active \subseteq Channel /\ current \in 0..watermark

Held ==
    /\ impression \in ArrivedOf("impression") \cup {None}
    /\ pendingClick \in ArrivedOf("click") \cup {None}
    /\ clicks \in Seq(ClickItem) /\ conversions \in Seq(ConversionItem)
    /\ click # None => click \in ClickItem /\ ~IsMark(click)
    /\ waiting \subseteq ArrivedOf("conversion")
    /\ expired \in BOOLEAN /\ expiredUntil \in Nat
    /\ exposureTimers \subseteq Nat /\ conversionTimers \subseteq Nat

(* Whatever is held has the timer that will end it.                        *)
TimersKept ==
    /\ impression # None => impression.time + Retention \in exposureTimers
    /\ pendingClick # None => pendingClick.time + Wait \in exposureTimers
    /\ click # None => click.event.time + Retention \in conversionTimers
    /\ \A v \in waiting : v.time + Wait \in conversionTimers
    /\ expired => expiredUntil # 0 /\ expiredUntil \in conversionTimers

(* The last watermark said in a channel is that of its sender, and when    *)
(* both channels have said the last one ConversionJoin has it.             *)
Said(channel, heard, mark) ==
    \E n \in 0..Len(channel) :
        /\ IF n = 0 THEN heard = mark ELSE channel[n] = Mark(mark) /\ mark # 0
        /\ \A m \in (n + 1)..Len(channel) : IsMark(channel[m]) => channel[m] = Idleness

Caught ==
    /\ Said(clicks, progress["clicks"], forwarded)
    /\ Said(conversions, progress["conversions"], watermark)
    /\ (\A c \in Channel : progress[c] = watermark) => current = watermark

(* Associations are of conversions that arrived: one that is pending waits,*)
(* one that is matched has its click.                                      *)
Linked ==
    /\ associations \in [ConversionKey -> {None} \cup Associations]
    /\ \A k \in ConversionKey : associations[k] # None =>
          /\ associations[k].status = "pending" => \E v \in waiting : v.key = k
          /\ associations[k].status = "matched" =>
                \E v \in ArrivedOf("conversion") : v.key = k /\ Oracle!IsMatched(Arrived, v)

Inv == Counted /\ Clocks /\ Held /\ TimersKept /\ Caught /\ Linked

-----------------------------------------------------------------------------
(* Events.                                                                 *)

(* An event is not a watermark.                                            *)
LEMMA EventFacts ==
    ASSUME NEW e \in Event
    PROVE  /\ ~IsMark(e) /\ e # None /\ e.time \in Nat
           /\ e.time + Wait <= MaxTime /\ e.type \in {"impression", "click", "conversion"}
  BY EventAssumption DEF IsMark

(* What has arrived stays; a repeat is counted against the bound.          *)
LEMMA ArrivalStep ==
    ASSUME Counted, NEW e \in Event, Arrives(e)
    PROVE  Counted' /\ Arrived' = Arrived \cup {e}
  <1> DEFINE Counter == {p \in Event \X (2..(MaxFaults + 1)) : p[2] <= arrivals[p[1]]}
  <1>1. arrivals' = [arrivals EXCEPT ![e] = @ + 1] /\ arrivals[e] \in 0..(MaxFaults + 1) /\ idles' = idles
    BY DEF Arrives, Counted
  <1> DEFINE more == 2..(MaxFaults + 1)
  <1>0. IsFiniteSet(more) /\ Cardinality(more) = MaxFaults
    BY FS_Interval, BoundAssumption
  <1>2. IsFiniteSet(Event \X more)
    <2> HIDE DEF more
    <2> QED
      BY <1>0, FS_Product, EventAssumption
  <1>3. IsFiniteSet(Counter) /\ Cardinality(Counter) \in Nat
    BY <1>2, FS_Subset, FS_CardinalityType
  <1>4. ASSUME e \in Arrived, arrivals[e] = MaxFaults + 1 PROVE FALSE
    <2> DEFINE repeats == {e} \X more
    <2>1. repeats \subseteq Counter
      BY <1>4
    <2>2. Cardinality(repeats) = MaxFaults
      <3> HIDE DEF more
      <3>1. IsFiniteSet({e}) /\ Cardinality({e}) = 1
        BY FS_Singleton
      <3>2. Cardinality({e} \X more) = 1 * MaxFaults
        BY <1>0, <3>1, FS_Product
      <3> QED
        BY <3>2, BoundAssumption
    <2>3. MaxFaults <= Cardinality(Counter)
      BY <1>3, <2>1, <2>2, FS_Subset
    <2>4. Cardinality(Counter) + idles < MaxFaults
      BY <1>4 DEF Arrives, Repeats
    <2> QED
      BY <1>3, <2>3, <2>4, BoundAssumption DEF Counted
  <1>5. arrivals[e] + 1 \in 0..(MaxFaults + 1)
    BY <1>1, <1>4, BoundAssumption DEF Arrived
  <1>6. arrivals' \in [Event -> 0..(MaxFaults + 1)]
    BY <1>1, <1>5 DEF Counted
  <1>7. Arrived' = Arrived \cup {e}
    BY <1>1, <1>6, BoundAssumption DEF Arrived, Counted
  <1>8. \A f \in Arrived : f.key = e.key => f = e
    BY DEF Arrives
  <1> QED
    BY <1>1, <1>6, <1>7, <1>8 DEF Counted

(* A longer list of what may be carried carries as much.                   *)
LEMMA CarriesOn ==
    ASSUME NEW S, NEW T, S \subseteq T
    PROVE  Seq(S) \subseteq Seq(T)
  OBVIOUS

(* What could be held can still be.                                        *)
LEMMA ItemsGrow ==
    ASSUME Clocks, Clocks', Arrived \subseteq Arrived', forwarded <= forwarded', watermark <= watermark'
    PROVE  /\ ClickItem \subseteq ClickItem' /\ ConversionItem \subseteq ConversionItem'
           /\ Seq(ClickItem) \subseteq Seq(ClickItem)' /\ Seq(ConversionItem) \subseteq Seq(ConversionItem)'
           /\ ArrivedOf("impression") \subseteq ArrivedOf("impression")'
           /\ ArrivedOf("click") \subseteq ArrivedOf("click")'
           /\ ArrivedOf("conversion") \subseteq ArrivedOf("conversion")'
  <1>1. /\ ArrivedOf("impression") \subseteq ArrivedOf("impression")'
        /\ ArrivedOf("click") \subseteq ArrivedOf("click")'
        /\ ArrivedOf("conversion") \subseteq ArrivedOf("conversion")'
    BY DEF ArrivedOf
  <1>2. 0..forwarded \subseteq 0..forwarded' /\ 0..watermark \subseteq 0..watermark'
    BY DEF Clocks
  <1>3. ClickItem \subseteq ClickItem'
    <2>1. {Mark(t) : t \in 0..forwarded} \subseteq {Mark(t) : t \in 0..forwarded'}
      BY <1>2
    <2> QED
      BY <1>1, <2>1 DEF ClickItem
  <1>4. ConversionItem \subseteq ConversionItem'
    <2>1. {Mark(t) : t \in 0..watermark} \subseteq {Mark(t) : t \in 0..watermark'}
      BY <1>2
    <2> QED
      BY <1>1, <2>1 DEF ConversionItem
  <1> QED
    BY <1>1, <1>3, <1>4, CarriesOn

(* What is at the head of a channel.                                       *)
LEMMA ItemFacts ==
    /\ \A item \in ClickItem :
          IF IsMark(item) THEN item = Mark(item.mark) /\ item.mark \in 0..forwarded
          ELSE item \in [event : ArrivedOf("click"), reason : ExposureReasons, impression : Event \cup {None}]
    /\ \A item \in ConversionItem :
          IF IsMark(item) THEN item = Mark(item.mark) /\ item.mark \in 0..watermark
          ELSE item \in ArrivedOf("conversion")
  <1>1. \A t : IsMark(Mark(t)) /\ Mark(t).mark = t
    BY DEF IsMark, Mark
  <1>2. \A item \in [event : ArrivedOf("click"), reason : ExposureReasons, impression : Event \cup {None}] :
            ~IsMark(item)
    <2> SUFFICES ASSUME NEW item \in [event : ArrivedOf("click"), reason : ExposureReasons, impression : Event \cup {None}]
                 PROVE  DOMAIN item # {"mark"}
      BY DEF IsMark
    <2>1. "event" \in DOMAIN item
      OBVIOUS
    <2> QED
      BY <2>1
  <1>3. \A item \in ArrivedOf("conversion") : ~IsMark(item)
    BY EventFacts DEF ArrivedOf, Arrived
  <1> QED
    BY <1>1, <1>2, <1>3 DEF ClickItem, ConversionItem

(* Taking the head of a sequence.                                          *)
LEMMA HeadAndTail ==
    ASSUME NEW S, NEW s \in Seq(S), s # <<>>
    PROVE  /\ Head(s) \in S /\ Tail(s) \in Seq(S)
           /\ Head(s) = s[1] /\ Len(Tail(s)) = Len(s) - 1 /\ Len(s) \in Nat \ {0}
           /\ \A n \in 1..Len(Tail(s)) : Tail(s)[n] = s[n + 1]
  OBVIOUS

-----------------------------------------------------------------------------
(* Watermarks.                                                             *)

(* The watermark of the union is one that a channel has said; when both    *)
(* said the last one it is that.                                           *)
LEMMA ValveStep ==
    ASSUME Clocks, NEW channel \in Channel, NEW mark \in 0..watermark,
           channel = "clicks" => mark <= forwarded,
           Hears(channel, mark), UNCHANGED <<watermark, forwarded>>
    PROVE  /\ progress' = [progress EXCEPT ![channel] = IF mark = 0 THEN @ ELSE mark]
           /\ progress' \in [Channel -> 0..watermark] /\ progress'["clicks"] <= forwarded
           /\ active' \subseteq Channel /\ current' \in 0..watermark
           /\ (\A c \in Channel : progress'[c] = watermark)
                /\ ((\A c \in Channel : progress[c] = watermark) => current = watermark)
                => current' = watermark
  <1> DEFINE heard   == [progress EXCEPT ![channel] = IF mark = 0 THEN @ ELSE mark]
             aligned == {heard[c] : c \in {d \in active' : heard[d] >= current}}
             all     == {heard[c] : c \in Channel}
             next    == IF active' = {} THEN {t \in all : \A u \in all : u <= t}
                                        ELSE {t \in aligned : \A u \in aligned : t <= u}
  <1>1. /\ active' = IF mark = 0 THEN active \ {channel} ELSE active \cup {channel}
        /\ progress' = heard
        /\ current' = IF next = {} THEN current ELSE CHOOSE t \in next : TRUE
    BY DEF Hears
  <1>2. heard \in [Channel -> 0..watermark] /\ heard["clicks"] <= forwarded
    BY DEF Clocks, Channel
  <1>3. active' \subseteq Channel
    BY <1>1 DEF Clocks
  <1>4. next \subseteq all /\ all \subseteq 0..watermark
    BY <1>2, <1>3
  <1>5. current' \in next \/ (current' = current /\ next = {})
    BY <1>1
  <1>6. current' \in 0..watermark
    BY <1>4, <1>5 DEF Clocks
  <1>7. ASSUME \A c \in Channel : heard[c] = watermark,
               (\A c \in Channel : progress[c] = watermark) => current = watermark
        PROVE  current' = watermark
    <2>1. all \subseteq {watermark}
      BY <1>7
    <2>2. CASE next # {}
      BY <1>4, <1>5, <2>1, <2>2
    <2>3. CASE next = {} /\ mark = 0
      <3>1. heard = progress
        BY <2>3 DEF Clocks
      <3> QED
        BY <1>5, <1>7, <2>3, <3>1
    <2>4. CASE next = {} /\ mark # 0
      <3>1. channel \in active' /\ heard[channel] = watermark /\ watermark >= current
        BY <1>1, <1>7, <2>4 DEF Clocks
      <3>2. watermark \in aligned
        BY <3>1
      <3>3. \A u \in aligned : watermark <= u
        BY <1>3, <1>7 DEF Clocks
      <3>4. watermark \in next
        BY <3>1, <3>2, <3>3
      <3> QED
        BY <2>4, <3>4
    <2> QED
      BY <2>2, <2>3, <2>4
  <1> QED
    BY <1>1, <1>2, <1>3, <1>6, <1>7

(* What ConversionJoin does with a watermark.                              *)
LEMMA MarkStep ==
    ASSUME Clocks, Held, ClickMark \/ ConversionMark
    PROVE  /\ UNCHANGED <<watermark, forwarded, source>> /\ active' \subseteq Channel
           /\ progress' \in [Channel -> 0..watermark] /\ progress'["clicks"] <= forwarded
           /\ current' \in 0..watermark
           /\ (\A c \in Channel : progress'[c] = watermark)
                /\ ((\A c \in Channel : progress[c] = watermark) => current = watermark)
                => current' = watermark
  <1>1. CASE ClickMark
    <2>1. Head(clicks).mark \in 0..watermark /\ Head(clicks).mark <= forwarded
      BY <1>1, HeadAndTail, ItemFacts DEF ClickMark, Takes, Held, Clocks
    <2>2. "clicks" \in Channel /\ Hears("clicks", Head(clicks).mark)
      BY <1>1 DEF ClickMark, Channel
    <2>3. UNCHANGED <<watermark, forwarded, source>>
      BY <1>1 DEF ClickMark
    <2> QED
      BY <2>1, <2>2, <2>3, ValveStep
  <1>2. CASE ConversionMark
    <2>1. Head(conversions).mark \in 0..watermark
      BY <1>2, HeadAndTail, ItemFacts DEF ConversionMark, Takes, Held
    <2>2. "conversions" \in Channel /\ Hears("conversions", Head(conversions).mark)
      BY <1>2 DEF ConversionMark, Channel
    <2>3. UNCHANGED <<watermark, forwarded, source>>
      BY <1>2 DEF ConversionMark
    <2> QED
      BY <2>1, <2>2, <2>3, ValveStep
  <1> QED
    BY <1>1, <1>2

(* What arrived stays arrived, and no bound is exceeded.                   *)
LEMMA CountedStep ==
    ASSUME Counted, [Next]_vars
    PROVE  Counted' /\ Arrived \subseteq Arrived'
  <1>1. ASSUME NEW e \in Event, Arrives(e)
        PROVE  Counted' /\ Arrived \subseteq Arrived'
    BY <1>1, ArrivalStep
  <1>2. ASSUME UNCHANGED arrivals, idles' \in 0..MaxFaults
        PROVE  Counted' /\ Arrived \subseteq Arrived'
    BY <1>2 DEF Counted, Arrived
  <1>3. CASE SourceIdles
    <2> DEFINE Counter == {p \in Event \X (2..(MaxFaults + 1)) : p[2] <= arrivals[p[1]]}
               more    == 2..(MaxFaults + 1)
    <2>1. IsFiniteSet(Event \X more)
      <3>1. IsFiniteSet(more)
        BY FS_Interval, BoundAssumption
      <3> HIDE DEF more
      <3> QED
        BY <3>1, FS_Product, EventAssumption
    <2>2. Repeats \in Nat
      BY <2>1, FS_Subset, FS_CardinalityType DEF Repeats
    <2>3. idles' = idles + 1 /\ Repeats + idles < MaxFaults /\ UNCHANGED arrivals
      BY <1>3 DEF SourceIdles
    <2>4. idles' \in 0..MaxFaults
      BY <2>2, <2>3, BoundAssumption DEF Counted
    <2> QED
      BY <1>2, <2>3, <2>4
  <1>4. CASE UNCHANGED vars
    BY <1>2, <1>4 DEF vars, source, Counted
  <1>5. ASSUME UNCHANGED source
        PROVE  Counted' /\ Arrived \subseteq Arrived'
    BY <1>2, <1>5 DEF source, Counted
  <1>6. CASE ConversionStep
    <2>1. UNCHANGED source
      BY <1>6 DEF ConversionStep, ClickMark, ConversionMark, ClickJoins, LateClick, ConversionJoins,
                  ConversionWaits, LateConversion, ConversionTimer
    <2> QED
      BY <1>5, <2>1
  <1>7. ASSUME NEW e \in Event, \/ LateAtExposure(e) \/ ImpressionArrives(e) \/ ClickPasses(e)
                               \/ ClickWaits(e) \/ ConversionArrives(e)
        PROVE  Arrives(e)
    BY <1>7 DEF LateAtExposure, ImpressionArrives, ClickPasses, ClickWaits, ConversionArrives
  <1>8. ASSUME NEW t \in 1..MaxTime, WatermarkAdvances(t)
        PROVE  Counted' /\ Arrived \subseteq Arrived'
    BY <1>2, <1>8 DEF WatermarkAdvances, Counted
  <1>9. ASSUME NEW t \in exposureTimers, ExposureTimer(t)
        PROVE  Counted' /\ Arrived \subseteq Arrived'
    BY <1>5, <1>9 DEF ExposureTimer
  <1>10. CASE WatermarkForwarded
    BY <1>5, <1>10 DEF WatermarkForwarded
  <1> QED
    BY <1>1, <1>3, <1>4, <1>6, <1>7, <1>8, <1>9, <1>10 DEF Next, ExposureStep

(* Event time only goes on, and every operator is behind its sender.       *)
LEMMA ClocksStep ==
    ASSUME Clocks, Held, [Next]_vars
    PROVE  Clocks' /\ forwarded <= forwarded' /\ watermark <= watermark'
  <1> DEFINE Goal == Clocks' /\ forwarded <= forwarded' /\ watermark <= watermark'
  <1>1. ASSUME UNCHANGED <<watermark, forwarded, valve>>, punctual' \in BOOLEAN, quiet' \in BOOLEAN
        PROVE  Goal
    BY <1>1 DEF Clocks, valve
  <1>2. ASSUME UNCHANGED <<watermark, forwarded, valve, source>>
        PROVE  Goal
    BY <1>1, <1>2 DEF source, Clocks
  <1>3. ASSUME NEW e \in Event, \/ LateAtExposure(e) \/ ImpressionArrives(e) \/ ClickPasses(e)
                               \/ ClickWaits(e) \/ ConversionArrives(e)
        PROVE  Goal
    <2>1. UNCHANGED <<watermark, forwarded, valve>>
      BY <1>3 DEF LateAtExposure, ImpressionArrives, ClickPasses, ClickWaits, ConversionArrives
    <2>2. Arrives(e)
      BY <1>3 DEF LateAtExposure, ImpressionArrives, ClickPasses, ClickWaits, ConversionArrives
    <2>3. punctual' \in BOOLEAN /\ quiet' = quiet
      BY <2>2 DEF Arrives, Clocks
    <2> QED
      BY <1>1, <2>1, <2>3 DEF Clocks
  <1>4. ASSUME NEW t \in 1..MaxTime, WatermarkAdvances(t)
        PROVE  Goal
    <2>1. /\ watermark < t /\ watermark' = t /\ quiet' = FALSE /\ UNCHANGED <<punctual, forwarded, valve>>
      BY <1>4 DEF WatermarkAdvances
    <2>2. watermark' \in 0..MaxTime /\ watermark <= watermark' /\ forwarded' \in 0..watermark'
      BY <2>1, BoundAssumption DEF Clocks
    <2>3. progress' \in [Channel -> 0..watermark'] /\ current' \in 0..watermark'
      BY <2>1, BoundAssumption DEF Clocks, valve
    <2>4. punctual' \in BOOLEAN /\ quiet' \in BOOLEAN
      BY <2>1 DEF Clocks
    <2>5. UNCHANGED <<progress, active, forwarded>>
      BY <2>1 DEF valve
    <2> QED
      BY <2>2, <2>3, <2>4, <2>5 DEF Clocks
  <1>5. ASSUME NEW t \in exposureTimers, ExposureTimer(t)
        PROVE  Goal
    BY <1>2, <1>5 DEF ExposureTimer
  <1>6. CASE WatermarkForwarded
    <2>1. /\ forwarded < watermark /\ forwarded' = watermark
          /\ UNCHANGED <<source, watermark, valve>>
      BY <1>6 DEF WatermarkForwarded
    <2>2. UNCHANGED <<punctual, quiet, watermark, progress, active, current>>
      BY <2>1 DEF source, valve
    <2> QED
      BY <2>1, <2>2 DEF Clocks, Channel
  <1>7. CASE SourceIdles
    BY <1>1, <1>7 DEF SourceIdles, Clocks
  <1>8. CASE ClickMark \/ ConversionMark
    BY <1>8, MarkStep DEF Clocks, source
  <1>9. CASE ClickJoins \/ LateClick
    BY <1>2, <1>9 DEF ClickJoins, LateClick
  <1>10. CASE ConversionJoins \/ ConversionWaits \/ LateConversion
    BY <1>2, <1>10 DEF ConversionJoins, ConversionWaits, LateConversion
  <1>11. ASSUME NEW t \in conversionTimers, ConversionTimer(t)
         PROVE  Goal
    BY <1>2, <1>11 DEF ConversionTimer
  <1>12. CASE UNCHANGED vars
    BY <1>2, <1>12 DEF vars
  <1> QED
    BY <1>3, <1>4, <1>5, <1>6, <1>7, <1>8, <1>9, <1>10, <1>11, <1>12 DEF Next, ExposureStep, ConversionStep

-----------------------------------------------------------------------------
(* What operators and channels hold.                                       *)

(* A click goes on with its impression or without one.                     *)
LEMMA EnrichedClick ==
    ASSUME NEW c, NEW i
    PROVE  Enriched(c, i) \in [event : {c}, reason : ExposureReasons, impression : {i, None}]
  <1>1. ExposureReason(i, c) \in ExposureReasons
    BY DEF ExposureReason, ExposureReasons
  <1> QED
    BY <1>1 DEF Enriched

(* A list goes on with one more item.                                      *)
LEMMA AppendsItem ==
    ASSUME NEW S, NEW s \in Seq(S), NEW item \in S
    PROVE  Append(s, item) \in Seq(S)
  OBVIOUS

(* Everything held has arrived, after each step of the exposure join.      *)
LEMMA HeldExposureStep ==
    ASSUME Counted, Clocks, Held, ExposureStep
    PROVE  Held'
  <1>1. [Next]_vars
    BY DEF Next
  <1>2. Arrived \subseteq Arrived' /\ Clocks' /\ forwarded <= forwarded' /\ watermark <= watermark'
    BY <1>1, CountedStep, ClocksStep
  <1>3. /\ ClickItem \subseteq ClickItem' /\ ConversionItem \subseteq ConversionItem'
        /\ Seq(ClickItem) \subseteq Seq(ClickItem)' /\ Seq(ConversionItem) \subseteq Seq(ConversionItem)'
        /\ ArrivedOf("impression") \subseteq ArrivedOf("impression")'
        /\ ArrivedOf("click") \subseteq ArrivedOf("click")'
        /\ ArrivedOf("conversion") \subseteq ArrivedOf("conversion")'
    BY <1>2, ItemsGrow
  <1>4. /\ impression \in ArrivedOf("impression")' \cup {None}
        /\ pendingClick \in ArrivedOf("click")' \cup {None}
        /\ clicks \in Seq(ClickItem)' /\ conversions \in Seq(ConversionItem)'
        /\ click # None => click \in ClickItem' /\ ~IsMark(click)
        /\ waiting \subseteq ArrivedOf("conversion")'
    BY <1>3 DEF Held
  <1>5. ASSUME UNCHANGED conversion,
               impression' \in ArrivedOf("impression")' \cup {None},
               pendingClick' \in ArrivedOf("click")' \cup {None},
               clicks' \in Seq(ClickItem)', conversions' \in Seq(ConversionItem)',
               exposureTimers' \subseteq Nat
        PROVE  Held'
    BY <1>4, <1>5 DEF Held, conversion
  <1>6. ASSUME NEW c, c \in ArrivedOf("click")', NEW i, i \in ArrivedOf("impression")' \cup {None}
        PROVE  Enriched(c, i) \in ClickItem'
    <2>1. i \in Event \cup {None}
      BY <1>6 DEF ArrivedOf, Arrived
    <2>2. Enriched(c, i) \in [event : ArrivedOf("click")', reason : ExposureReasons, impression : Event \cup {None}]
      BY <1>6, <2>1, EnrichedClick
    <2> QED
      BY <2>2 DEF ClickItem
  <1>7. ASSUME NEW t \in 0..forwarded'
        PROVE  Mark(t) \in ClickItem'
    BY <1>7 DEF ClickItem
  <1>8. ASSUME NEW t \in 0..watermark'
        PROVE  Mark(t) \in ConversionItem'
    BY <1>8 DEF ConversionItem
  <1>9. \A e \in Event : Arrives(e) => e \in ArrivedOf(e.type)' /\ e.time + Retention \in Nat /\ e.time + Wait \in Nat
    BY ArrivalStep, EventFacts, RulesAssumption DEF ArrivedOf
  <1>10. ASSUME NEW e \in Event, LateAtExposure(e)
         PROVE  Held'
    BY <1>4, <1>5, <1>10 DEF LateAtExposure, exposure, channels, Held
  <1>11. ASSUME NEW e \in Event, ImpressionArrives(e)
         PROVE  Held'
    <2>1. impression' \in ArrivedOf("impression")' \cup {None}
      BY <1>4, <1>9, <1>11 DEF ImpressionArrives
    <2>2. pendingClick' \in ArrivedOf("click")' \cup {None} /\ UNCHANGED <<conversions, conversion>>
      BY <1>11 DEF ImpressionArrives
    <2>3. clicks' \in Seq(ClickItem)'
      <3>1. CASE pendingClick = None
        BY <1>4, <1>11, <3>1 DEF ImpressionArrives
      <3>2. CASE pendingClick # None
        <4>1. Enriched(pendingClick, impression') \in ClickItem'
          BY <1>4, <1>6, <2>1, <3>2
        <4>2. clicks' = Append(clicks, Enriched(pendingClick, impression'))
          BY <1>11, <3>2 DEF ImpressionArrives
        <4> QED
          BY <1>4, <4>1, <4>2, AppendsItem
      <3> QED
        BY <3>1, <3>2
    <2>4. exposureTimers' \subseteq Nat
      BY <1>9, <1>11 DEF ImpressionArrives, Held
    <2> QED
      BY <1>4, <1>5, <2>1, <2>2, <2>3, <2>4
  <1>12. ASSUME NEW e \in Event, ClickPasses(e)
         PROVE  Held'
    <2>1. Enriched(e, impression) \in ClickItem'
      BY <1>4, <1>6, <1>9, <1>12 DEF ClickPasses
    <2>2. clicks' = Append(clicks, Enriched(e, impression)) /\ UNCHANGED <<exposure, conversions, conversion>>
      BY <1>12 DEF ClickPasses
    <2>3. clicks' \in Seq(ClickItem)'
      BY <1>4, <2>1, <2>2, AppendsItem
    <2> QED
      BY <1>4, <1>5, <2>2, <2>3 DEF exposure, Held
  <1>13. ASSUME NEW e \in Event, ClickWaits(e)
         PROVE  Held'
    BY <1>4, <1>5, <1>9, <1>13 DEF ClickWaits, channels, Held
  <1>14. ASSUME NEW e \in Event, ConversionArrives(e)
         PROVE  Held'
    <2>1. e \in ConversionItem'
      BY <1>9, <1>14 DEF ConversionArrives, ConversionItem
    <2>2. conversions' = Append(conversions, e) /\ UNCHANGED <<exposure, clicks, conversion>>
      BY <1>14 DEF ConversionArrives
    <2>3. conversions' \in Seq(ConversionItem)'
      BY <1>4, <2>1, <2>2, AppendsItem
    <2> QED
      BY <1>4, <1>5, <2>2, <2>3 DEF exposure, Held
  <1>15. ASSUME NEW t \in 1..MaxTime, WatermarkAdvances(t)
         PROVE  Held'
    <2>1. /\ conversions' = Append(conversions, Mark(t)) /\ watermark' = t
          /\ UNCHANGED <<exposure, clicks, conversion>>
      BY <1>15 DEF WatermarkAdvances
    <2>2. conversions' \in Seq(ConversionItem)'
      BY <1>4, <1>8, <2>1, AppendsItem, BoundAssumption
    <2> QED
      BY <1>4, <1>5, <2>1, <2>2 DEF exposure, Held
  <1>16. ASSUME NEW t \in exposureTimers, ExposureTimer(t)
         PROVE  Held'
    <2>1. impression' \in ArrivedOf("impression")' \cup {None} /\ UNCHANGED <<conversions, conversion>>
      BY <1>4, <1>16 DEF ExposureTimer
    <2>2. exposureTimers' \subseteq Nat
      BY <1>16 DEF ExposureTimer, Held
    <2>3. CASE pendingClick # None /\ pendingClick.time + Wait <= t
      <3>1. clicks' = Append(clicks, Enriched(pendingClick, None)) /\ pendingClick' = None
        BY <1>16, <2>3 DEF ExposureTimer
      <3>2. Enriched(pendingClick, None) \in ClickItem'
        BY <1>4, <1>6, <2>3
      <3>3. clicks' \in Seq(ClickItem)'
        BY <1>4, <3>1, <3>2, AppendsItem
      <3> QED
        BY <1>4, <1>5, <2>1, <2>2, <3>1, <3>3
    <2>4. CASE ~(pendingClick # None /\ pendingClick.time + Wait <= t)
      BY <1>4, <1>5, <1>16, <2>1, <2>2, <2>4 DEF ExposureTimer
    <2> QED
      BY <2>3, <2>4
  <1>17. CASE WatermarkForwarded
    <2>1. /\ clicks' = Append(clicks, Mark(watermark)) /\ forwarded' = watermark
          /\ UNCHANGED <<exposure, conversions, conversion>>
      BY <1>17 DEF WatermarkForwarded
    <2>2. clicks' \in Seq(ClickItem)'
      BY <1>2, <1>4, <1>7, <2>1, AppendsItem DEF Clocks
    <2> QED
      BY <1>4, <1>5, <2>1, <2>2 DEF exposure, Held
  <1>18. CASE SourceIdles
    <2>1. /\ clicks' = Append(clicks, Mark(0)) /\ conversions' = Append(conversions, Mark(0))
          /\ UNCHANGED <<exposure, conversion>>
      BY <1>18 DEF SourceIdles, Idleness
    <2>2. clicks' \in Seq(ClickItem)' /\ conversions' \in Seq(ConversionItem)'
      BY <1>2, <1>4, <1>7, <1>8, <2>1, AppendsItem DEF Clocks
    <2> QED
      BY <1>4, <1>5, <2>1, <2>2 DEF exposure, Held
  <1> QED
    BY <1>10, <1>11, <1>12, <1>13, <1>14, <1>15, <1>16, <1>17, <1>18 DEF ExposureStep

(* What a conversion join finds at the head of a channel.                  *)
LEMMA TakesItem ==
    ASSUME Held
    PROVE  /\ Takes(clicks) => /\ Head(clicks) \in ClickItem /\ Tail(clicks) \in Seq(ClickItem)
                               /\ ~IsMark(Head(clicks)) =>
                                    /\ Head(clicks).event \in ArrivedOf("click")
                                    /\ Head(clicks).event.time + Retention \in Nat
           /\ Takes(conversions) => /\ Tail(conversions) \in Seq(ConversionItem)
                                    /\ ~IsMark(Head(conversions)) =>
                                         /\ Head(conversions) \in ArrivedOf("conversion")
                                         /\ Head(conversions).time + Wait \in Nat
                                         /\ Head(conversions).time + Retention \in Nat \ {0}
  <1>1. \A e \in Event : e.time + Retention \in Nat \ {0} /\ e.time + Wait \in Nat
    BY EventFacts, RulesAssumption
  <1>2. \A type : ArrivedOf(type) \subseteq Event
    BY DEF ArrivedOf, Arrived
  <1>3. ASSUME Takes(clicks)
        PROVE  Head(clicks) \in ClickItem /\ Tail(clicks) \in Seq(ClickItem)
    BY <1>3, HeadAndTail DEF Held, Takes
  <1>4. ASSUME Takes(conversions)
        PROVE  Head(conversions) \in ConversionItem /\ Tail(conversions) \in Seq(ConversionItem)
    BY <1>4, HeadAndTail DEF Held, Takes
  <1>5. ASSUME Takes(clicks), ~IsMark(Head(clicks))
        PROVE  Head(clicks).event \in ArrivedOf("click")
    BY <1>3, <1>5, ItemFacts
  <1>6. ASSUME Takes(conversions), ~IsMark(Head(conversions))
        PROVE  Head(conversions) \in ArrivedOf("conversion")
    BY <1>4, <1>6, ItemFacts
  <1> QED
    BY <1>1, <1>2, <1>3, <1>4, <1>5, <1>6

(* Everything held has arrived, after each step of the conversion join.    *)
LEMMA HeldConversionStep ==
    ASSUME Counted, Clocks, Held, ConversionStep
    PROVE  Held'
  <1>1. [Next]_vars
    BY DEF Next
  <1>2. Arrived \subseteq Arrived' /\ Clocks' /\ forwarded <= forwarded' /\ watermark <= watermark'
    BY <1>1, CountedStep, ClocksStep
  <1>3. /\ ClickItem \subseteq ClickItem' /\ ConversionItem \subseteq ConversionItem'
        /\ Seq(ClickItem) \subseteq Seq(ClickItem)' /\ Seq(ConversionItem) \subseteq Seq(ConversionItem)'
        /\ ArrivedOf("impression") \subseteq ArrivedOf("impression")'
        /\ ArrivedOf("click") \subseteq ArrivedOf("click")'
        /\ ArrivedOf("conversion") \subseteq ArrivedOf("conversion")'
    BY <1>2, ItemsGrow
  <1>4. /\ impression \in ArrivedOf("impression")' \cup {None}
        /\ pendingClick \in ArrivedOf("click")' \cup {None}
        /\ clicks \in Seq(ClickItem)' /\ conversions \in Seq(ConversionItem)'
        /\ click # None => click \in ClickItem' /\ ~IsMark(click)
        /\ waiting \subseteq ArrivedOf("conversion")'
    BY <1>3 DEF Held
  <1>5. ASSUME UNCHANGED exposure,
               clicks' = clicks \/ (Takes(clicks) /\ clicks' = Tail(clicks)),
               conversions' = conversions \/ (Takes(conversions) /\ conversions' = Tail(conversions)),
               click' # None => click' \in ClickItem' /\ ~IsMark(click'),
               waiting' \subseteq ArrivedOf("conversion")',
               expired' \in BOOLEAN, expiredUntil' \in Nat, conversionTimers' \subseteq Nat
        PROVE  Held'
    <2>1. clicks' \in Seq(ClickItem)' /\ conversions' \in Seq(ConversionItem)'
      BY <1>3, <1>4, <1>5, TakesItem
    <2> QED
      BY <1>4, <1>5, <2>1 DEF Held, exposure
  <1>6. ASSUME UNCHANGED <<exposure, conversion>>,
               clicks' = clicks \/ (Takes(clicks) /\ clicks' = Tail(clicks)),
               conversions' = conversions \/ (Takes(conversions) /\ conversions' = Tail(conversions))
        PROVE  Held'
    BY <1>4, <1>5, <1>6 DEF conversion, Held
  <1>7. CASE ClickMark
    BY <1>6, <1>7 DEF ClickMark
  <1>8. CASE ConversionMark
    BY <1>6, <1>8 DEF ConversionMark
  <1>9. CASE ClickJoins
    <2>1. /\ Takes(clicks) /\ ~IsMark(Head(clicks)) /\ clicks' = Tail(clicks)
          /\ click' = IF click = None THEN Head(clicks) ELSE click
          /\ waiting' = {} /\ conversionTimers' = conversionTimers \cup {Head(clicks).event.time + Retention}
          /\ UNCHANGED <<exposure, conversions, expired, expiredUntil>>
      BY <1>9 DEF ClickJoins
    <2>2. click' # None => click' \in ClickItem' /\ ~IsMark(click')
      BY <1>3, <1>4, <2>1, TakesItem
    <2>3. conversionTimers' \subseteq Nat
      BY <2>1, TakesItem DEF Held
    <2> QED
      BY <1>5, <2>1, <2>2, <2>3 DEF Held
  <1>10. CASE LateClick
    BY <1>6, <1>10 DEF LateClick
  <1>11. CASE ConversionJoins
    <2>1. /\ Takes(conversions) /\ ~IsMark(Head(conversions)) /\ conversions' = Tail(conversions)
          /\ UNCHANGED <<exposure, clicks, click, waiting>>
      BY <1>11 DEF ConversionJoins
    <2>2. expired' \in BOOLEAN /\ expiredUntil' \in Nat /\ conversionTimers' \subseteq Nat
      <3>1. Head(conversions).time + Retention \in Nat
        BY <2>1, TakesItem
      <3>2. CASE click = None
        BY <1>11, <3>1, <3>2 DEF ConversionJoins, Held
      <3>3. CASE click # None
        BY <1>11, <3>3 DEF ConversionJoins, Held
      <3> QED
        BY <3>2, <3>3
    <2> QED
      BY <1>4, <1>5, <2>1, <2>2
  <1>12. CASE ConversionWaits
    <2>1. /\ Takes(conversions) /\ ~IsMark(Head(conversions)) /\ conversions' = Tail(conversions)
          /\ waiting' \subseteq waiting \cup {Head(conversions)}
          /\ conversionTimers' = conversionTimers \cup {Head(conversions).time + Wait}
          /\ UNCHANGED <<exposure, clicks, click, expired, expiredUntil>>
      BY <1>12 DEF ConversionWaits
    <2>2. conversionTimers' \subseteq Nat /\ waiting' \subseteq ArrivedOf("conversion")'
      BY <1>3, <1>4, <2>1, TakesItem DEF Held
    <2> QED
      BY <1>4, <1>5, <2>1, <2>2 DEF Held
  <1>13. CASE LateConversion
    BY <1>6, <1>13 DEF LateConversion
  <1>14. ASSUME NEW t \in conversionTimers, ConversionTimer(t)
         PROVE  Held'
    <2> DEFINE timedOut == {v \in waiting : v.time + Wait <= t}
               until    == IF timedOut = {} THEN expiredUntil
                           ELSE (CHOOSE v \in timedOut : TRUE).time + Retention
    <2>1. /\ waiting' = waiting \ timedOut /\ click' \in {click, None}
          /\ expired' \in BOOLEAN /\ expiredUntil' \in {0, until}
          /\ conversionTimers' = (conversionTimers \ {t}) \cup {v.time + Retention : v \in timedOut}
          /\ UNCHANGED <<exposure, channels>>
      BY <1>14 DEF ConversionTimer
    <2>2. \A v \in waiting : v.time + Retention \in Nat
      BY EventFacts, RulesAssumption DEF Held, ArrivedOf, Arrived
    <2>3. until \in Nat
      BY <2>2 DEF Held
    <2>4. conversionTimers' \subseteq Nat
      BY <2>1, <2>2 DEF Held
    <2> QED
      BY <1>4, <1>5, <2>1, <2>3, <2>4 DEF channels
  <1> QED
    BY <1>7, <1>8, <1>9, <1>10, <1>11, <1>12, <1>13, <1>14 DEF ConversionStep

(* Everything held has arrived.                                            *)
LEMMA HeldStep ==
    ASSUME Counted, Clocks, Held, [Next]_vars
    PROVE  Held'
  <1>1. CASE UNCHANGED vars
    BY <1>1 DEF Held, vars, exposure, channels, conversion, ClickItem, ConversionItem, ArrivedOf, Arrived, source
  <1> QED
    BY <1>1, HeldExposureStep, HeldConversionStep DEF Next

-----------------------------------------------------------------------------
(* Timers.                                                                 *)

(* Whatever a step of the exposure join keeps has its timer.               *)
LEMMA TimersExposureStep ==
    ASSUME Held, TimersKept, ExposureStep
    PROVE  TimersKept'
  <1>1. ASSUME UNCHANGED conversion,
               impression' # None => impression'.time + Retention \in exposureTimers',
               pendingClick' # None => pendingClick'.time + Wait \in exposureTimers'
        PROVE  TimersKept'
    BY <1>1 DEF TimersKept, conversion
  <1>2. ASSUME UNCHANGED <<exposure, conversion>>
        PROVE  TimersKept'
    BY <1>1, <1>2 DEF TimersKept, exposure
  <1>3. ASSUME NEW e \in Event, LateAtExposure(e) \/ ClickPasses(e) \/ ConversionArrives(e)
        PROVE  TimersKept'
    BY <1>2, <1>3 DEF LateAtExposure, ClickPasses, ConversionArrives
  <1>4. ASSUME NEW e \in Event, ImpressionArrives(e)
        PROVE  TimersKept'
    BY <1>1, <1>4 DEF ImpressionArrives, TimersKept
  <1>5. ASSUME NEW e \in Event, ClickWaits(e)
        PROVE  TimersKept'
    BY <1>1, <1>5 DEF ClickWaits, TimersKept
  <1>6. ASSUME NEW t \in 1..MaxTime, WatermarkAdvances(t)
        PROVE  TimersKept'
    BY <1>2, <1>6 DEF WatermarkAdvances
  <1>7. ASSUME NEW t \in exposureTimers, ExposureTimer(t)
        PROVE  TimersKept'
    <2>1. /\ exposureTimers' = exposureTimers \ {t} /\ t \in Nat
          /\ pendingClick' \in {pendingClick, None} /\ impression' \in {impression, None}
          /\ UNCHANGED conversion
      BY <1>7 DEF ExposureTimer, Held
    <2>2. ASSUME impression' # None
          PROVE  impression'.time + Retention \in exposureTimers'
      <3>1. impression' = impression /\ ~(impression.time + Retention <= t)
        BY <1>7, <2>2 DEF ExposureTimer
      <3> QED
        BY <2>1, <2>2, <3>1 DEF TimersKept
    <2>3. ASSUME pendingClick' # None
          PROVE  pendingClick'.time + Wait \in exposureTimers'
      <3>1. pendingClick' = pendingClick /\ ~(pendingClick.time + Wait <= t)
        BY <1>7, <2>3 DEF ExposureTimer
      <3> QED
        BY <2>1, <2>3, <3>1 DEF TimersKept
    <2> QED
      BY <1>1, <2>1, <2>2, <2>3
  <1>8. CASE WatermarkForwarded \/ SourceIdles
    BY <1>2, <1>8 DEF WatermarkForwarded, SourceIdles
  <1> QED
    BY <1>3, <1>4, <1>5, <1>6, <1>7, <1>8 DEF ExposureStep

(* Whatever a step of the conversion join keeps has its timer.             *)
LEMMA TimersConversionStep ==
    ASSUME Held, TimersKept, ConversionStep
    PROVE  TimersKept'
  <1>1. ASSUME UNCHANGED exposure,
               click' # None => click'.event.time + Retention \in conversionTimers',
               \A v \in waiting' : v.time + Wait \in conversionTimers',
               expired' => expiredUntil' # 0 /\ expiredUntil' \in conversionTimers'
        PROVE  TimersKept'
    BY <1>1 DEF TimersKept, exposure
  <1>2. ASSUME UNCHANGED <<exposure, conversion>>
        PROVE  TimersKept'
    BY <1>2 DEF TimersKept, exposure, conversion
  <1>3. CASE ClickMark \/ ConversionMark \/ LateClick \/ LateConversion
    BY <1>2, <1>3 DEF ClickMark, ConversionMark, LateClick, LateConversion
  <1>4. CASE ClickJoins
    <2>1. /\ click' = IF click = None THEN Head(clicks) ELSE click
          /\ waiting' = {} /\ conversionTimers' = conversionTimers \cup {Head(clicks).event.time + Retention}
          /\ UNCHANGED <<exposure, expired, expiredUntil>>
      BY <1>4 DEF ClickJoins
    <2> QED
      BY <1>1, <2>1 DEF TimersKept
  <1>5. CASE ConversionJoins
    <2>1. Takes(conversions) /\ ~IsMark(Head(conversions)) /\ UNCHANGED <<exposure, click, waiting>>
      BY <1>5 DEF ConversionJoins
    <2>2. Head(conversions).time + Retention \in Nat \ {0}
      BY <2>1, TakesItem
    <2>3. CASE click = None
      <3>1. /\ expiredUntil' = Head(conversions).time + Retention
            /\ conversionTimers' = conversionTimers \cup {Head(conversions).time + Retention}
        BY <1>5, <2>3 DEF ConversionJoins
      <3> QED
        BY <1>1, <2>1, <2>2, <3>1 DEF TimersKept
    <2>4. CASE click # None
      <3>1. UNCHANGED <<expired, expiredUntil, conversionTimers>>
        BY <1>5, <2>4 DEF ConversionJoins
      <3> QED
        BY <1>1, <2>1, <3>1 DEF TimersKept
    <2> QED
      BY <2>3, <2>4
  <1>6. CASE ConversionWaits
    <2>1. /\ waiting' \subseteq waiting \cup {Head(conversions)}
          /\ conversionTimers' = conversionTimers \cup {Head(conversions).time + Wait}
          /\ UNCHANGED <<exposure, click, expired, expiredUntil>>
      BY <1>6 DEF ConversionWaits
    <2> QED
      BY <1>1, <2>1 DEF TimersKept
  <1>7. ASSUME NEW t \in conversionTimers, ConversionTimer(t)
        PROVE  TimersKept'
    <2> DEFINE timedOut == {v \in waiting : v.time + Wait <= t}
               forget   == click # None /\ click.event.time + Retention <= t
               until    == IF timedOut = {} THEN expiredUntil
                           ELSE (CHOOSE v \in timedOut : TRUE).time + Retention
               over     == until # 0 /\ t >= until
    <2>1. /\ waiting' = waiting \ timedOut /\ click' = IF forget THEN None ELSE click
          /\ expired' = (~forget /\ ~over /\ (expired \/ timedOut # {}))
          /\ expiredUntil' = IF over THEN 0 ELSE until
          /\ conversionTimers' = (conversionTimers \ {t}) \cup {v.time + Retention : v \in timedOut}
          /\ UNCHANGED exposure
      BY <1>7 DEF ConversionTimer
    <2>2. t \in Nat /\ \A v \in waiting : v.time + Retention \in Nat \ {0}
      BY EventFacts, RulesAssumption DEF Held, ArrivedOf, Arrived
    <2>3. ASSUME click' # None
          PROVE  click'.event.time + Retention \in conversionTimers'
      <3>1. click' = click /\ ~(click.event.time + Retention <= t)
        BY <2>1, <2>3
      <3> QED
        BY <2>1, <2>2, <2>3, <3>1 DEF TimersKept
    <2>4. ASSUME NEW v \in waiting'
          PROVE  v.time + Wait \in conversionTimers'
      <3>1. v \in waiting /\ ~(v.time + Wait <= t)
        BY <2>1
      <3> QED
        BY <2>1, <2>2, <3>1 DEF TimersKept
    <2>5. ASSUME expired'
          PROVE  expiredUntil' # 0 /\ expiredUntil' \in conversionTimers'
      <3>1. ~over /\ expiredUntil' = until
        BY <2>1, <2>5
      <3>2. CASE timedOut = {}
        <4>1. until = expiredUntil /\ expired
          BY <2>1, <2>5, <3>2
        <4>2. until # 0 /\ until \in conversionTimers /\ until \in Nat
          BY <4>1 DEF TimersKept, Held
        <4>3. until # t
          BY <2>2, <3>1, <4>2
        <4> QED
          BY <2>1, <3>1, <4>2, <4>3
      <3>3. CASE timedOut # {}
        <4>1. PICK v \in timedOut : until = v.time + Retention
          BY <3>3
        <4> QED
          BY <2>1, <2>2, <3>1, <4>1
      <3> QED
        BY <3>2, <3>3
    <2> QED
      BY <1>1, <2>1, <2>3, <2>4, <2>5
  <1> QED
    BY <1>3, <1>4, <1>5, <1>6, <1>7 DEF ConversionStep

(* Whatever is kept has its timer.                                         *)
LEMMA TimersStep ==
    ASSUME Held, TimersKept, [Next]_vars
    PROVE  TimersKept'
  <1>1. CASE UNCHANGED vars
    BY <1>1 DEF TimersKept, vars, exposure, conversion
  <1> QED
    BY <1>1, TimersExposureStep, TimersConversionStep DEF Next

(* Nothing is kept whose timer is over and fired.                          *)
LEMMA KeptIsDue ==
    ASSUME Clocks, Held, TimersKept
    PROVE  StateExpires
  <1>1. ASSUME NEW timers, timers \subseteq Nat, NEW t \in Nat, ~Due(timers, t)
        PROVE  \A s \in timers : t < s
    BY <1>1 DEF Due
  <1>2. watermark \in Nat /\ current \in Nat
    BY BoundAssumption DEF Clocks
  <1> QED
    BY <1>1, <1>2 DEF StateExpires, TimersKept, Held

-----------------------------------------------------------------------------
(* What channels have said.                                                *)

(* Events and idleness change nothing in what a channel said last.         *)
LEMMA SaysNothing ==
    ASSUME NEW S, NEW s \in Seq(S), NEW item, NEW heard, NEW mark,
           Said(s, heard, mark), IsMark(item) => item = Idleness
    PROVE  Said(Append(s, item), heard, mark)
  <1> DEFINE longer == Append(s, item)
  <1>1. Len(longer) = Len(s) + 1 /\ Len(s) \in Nat /\ longer[Len(s) + 1] = item
    OBVIOUS
  <1>2. \A m \in 1..Len(s) : longer[m] = s[m]
    OBVIOUS
  <1>3. PICK n \in 0..Len(s) :
            /\ IF n = 0 THEN heard = mark ELSE s[n] = Mark(mark) /\ mark # 0
            /\ \A m \in (n + 1)..Len(s) : IsMark(s[m]) => s[m] = Idleness
    BY DEF Said
  <1>4. IF n = 0 THEN heard = mark ELSE longer[n] = Mark(mark) /\ mark # 0
    BY <1>1, <1>2, <1>3
  <1>5. ASSUME NEW m \in (n + 1)..Len(longer), IsMark(longer[m])
        PROVE  longer[m] = Idleness
    <2>1. m \in (n + 1)..Len(s) \/ m = Len(s) + 1
      BY <1>1
    <2>2. m \in (n + 1)..Len(s) => longer[m] = s[m]
      BY <1>1, <1>2
    <2> QED
      BY <1>1, <1>3, <1>5, <2>1, <2>2
  <1> HIDE DEF longer
  <1> QED
    BY <1>1, <1>4, <1>5 DEF Said, longer

(* A watermark is what a channel said last.                                *)
LEMMA SaysMark ==
    ASSUME NEW S, NEW s \in Seq(S), NEW heard, NEW mark, mark # 0
    PROVE  Said(Append(s, Mark(mark)), heard, mark)
  <1> DEFINE longer == Append(s, Mark(mark))
  <1>1. Len(longer) = Len(s) + 1 /\ Len(s) \in Nat /\ longer[Len(s) + 1] = Mark(mark)
    OBVIOUS
  <1> HIDE DEF longer
  <1>2. Said(longer, heard, mark)
    <2> DEFINE n == Len(s) + 1
    <2>1. n \in 0..Len(longer) /\ n # 0 /\ longer[n] = Mark(mark)
      BY <1>1
    <2>2. (n + 1)..Len(longer) = {}
      BY <1>1
    <2> HIDE DEF n
    <2> QED
      BY <2>1, <2>2 DEF Said
  <1> QED
    BY <1>2 DEF longer

(* What is taken from a channel is heard or says nothing.                  *)
LEMMA SaidStays ==
    ASSUME NEW S, NEW s \in Seq(S), s # <<>>, NEW heard, NEW mark, Said(s, heard, mark),
           NEW next,
           IF IsMark(Head(s)) THEN /\ Head(s) = Mark(Head(s).mark)
                                   /\ next = IF Head(s).mark = 0 THEN heard ELSE Head(s).mark
           ELSE next = heard
    PROVE  Said(Tail(s), next, mark)
  <1>1. /\ Head(s) = s[1] /\ Len(Tail(s)) = Len(s) - 1 /\ Len(s) \in Nat \ {0}
        /\ \A m \in 1..Len(Tail(s)) : Tail(s)[m] = s[m + 1]
    BY HeadAndTail
  <1>2. PICK n \in 0..Len(s) :
            /\ IF n = 0 THEN heard = mark ELSE s[n] = Mark(mark) /\ mark # 0
            /\ \A m \in (n + 1)..Len(s) : IsMark(s[m]) => s[m] = Idleness
    BY DEF Said
  <1>3. \A t : IsMark(Mark(t)) /\ Mark(t).mark = t
    BY DEF Mark, IsMark
  <1>4. \A m \in 1..Len(Tail(s)) : m >= n => (IsMark(Tail(s)[m]) => Tail(s)[m] = Idleness)
    BY <1>1, <1>2
  <1>5. CASE n = 0
    <2>1. IsMark(Head(s)) => Head(s).mark = 0
      BY <1>1, <1>2, <1>3, <1>5 DEF Idleness
    <2>2. next = mark
      BY <1>2, <1>5, <2>1
    <2>3. 0 \in 0..Len(Tail(s)) /\ \A m \in (0 + 1)..Len(Tail(s)) : IsMark(Tail(s)[m]) => Tail(s)[m] = Idleness
      BY <1>1, <1>4, <1>5
    <2> QED
      BY <2>2, <2>3 DEF Said
  <1>6. CASE n = 1
    <2>1. Head(s) = Mark(mark) /\ mark # 0
      BY <1>1, <1>2, <1>6
    <2>2. next = mark
      BY <1>3, <2>1
    <2>3. 0 \in 0..Len(Tail(s)) /\ \A m \in (0 + 1)..Len(Tail(s)) : IsMark(Tail(s)[m]) => Tail(s)[m] = Idleness
      BY <1>1, <1>4, <1>6
    <2> QED
      BY <2>2, <2>3 DEF Said
  <1>7. CASE n > 1
    <2> DEFINE k == n - 1
    <2>1. k \in 0..Len(Tail(s)) /\ k # 0 /\ Tail(s)[k] = Mark(mark) /\ mark # 0
      BY <1>1, <1>2, <1>7
    <2>2. \A m \in (k + 1)..Len(Tail(s)) : IsMark(Tail(s)[m]) => Tail(s)[m] = Idleness
      BY <1>1, <1>4, <1>7
    <2> HIDE DEF k
    <2> QED
      BY <2>1, <2>2 DEF Said
  <1> QED
    BY <1>5, <1>6, <1>7

(* What was said is heard, when a channel changes and nothing is heard.    *)
LEMMA CaughtUnheard ==
    ASSUME Caught, UNCHANGED <<watermark, forwarded, valve>>,
           Said(clicks', progress["clicks"], forwarded),
           Said(conversions', progress["conversions"], watermark)
    PROVE  Caught'
  BY DEF Caught, valve, Said

(* A click and an event say nothing.                                       *)
LEMMA SaysNoMark ==
    /\ \A c, i : ~IsMark(Enriched(c, i))
    /\ \A e \in Event : ~IsMark(e)
  <1>1. ASSUME NEW c, NEW i
        PROVE  ~IsMark(Enriched(c, i))
    <2>1. "event" \in DOMAIN Enriched(c, i)
      BY DEF Enriched
    <2> QED
      BY <2>1 DEF IsMark
  <1> QED
    BY <1>1, EventFacts

(* What was said is heard, after each step of the exposure join.           *)
LEMMA CaughtExposureStep ==
    ASSUME Clocks, Held, Caught, ExposureStep
    PROVE  Caught'
  <1>1. /\ clicks \in Seq(ClickItem) /\ conversions \in Seq(ConversionItem)
        /\ Said(clicks, progress["clicks"], forwarded)
        /\ Said(conversions, progress["conversions"], watermark)
    BY DEF Held, Caught
  <1>2. ASSUME NEW item, ~IsMark(item) \/ item = Idleness
        PROVE  /\ Said(Append(clicks, item), progress["clicks"], forwarded)
               /\ Said(Append(conversions, item), progress["conversions"], watermark)
    BY <1>1, <1>2, SaysNothing
  <1>3. ASSUME NEW e \in Event, LateAtExposure(e) \/ ClickWaits(e)
        PROVE  Caught'
    BY <1>1, <1>3, CaughtUnheard DEF LateAtExposure, ClickWaits, channels
  <1>4. ASSUME NEW e \in Event, ImpressionArrives(e)
        PROVE  Caught'
    <2>1. /\ clicks' = clicks \/ clicks' = Append(clicks, Enriched(pendingClick, impression'))
          /\ UNCHANGED <<watermark, forwarded, valve, conversions>>
      BY <1>4 DEF ImpressionArrives
    <2> QED
      BY <1>1, <1>2, <2>1, CaughtUnheard, SaysNoMark
  <1>5. ASSUME NEW e \in Event, ClickPasses(e)
        PROVE  Caught'
    <2>1. clicks' = Append(clicks, Enriched(e, impression)) /\ UNCHANGED <<watermark, forwarded, valve, conversions>>
      BY <1>5 DEF ClickPasses
    <2> QED
      BY <1>1, <1>2, <2>1, CaughtUnheard, SaysNoMark
  <1>6. ASSUME NEW e \in Event, ConversionArrives(e)
        PROVE  Caught'
    <2>1. conversions' = Append(conversions, e) /\ UNCHANGED <<watermark, forwarded, valve, clicks>>
      BY <1>6 DEF ConversionArrives
    <2> QED
      BY <1>1, <1>2, <2>1, CaughtUnheard, SaysNoMark
  <1>7. ASSUME NEW t \in 1..MaxTime, WatermarkAdvances(t)
        PROVE  Caught'
    <2>1. /\ watermark < t /\ watermark' = t /\ conversions' = Append(conversions, Mark(t))
          /\ UNCHANGED <<forwarded, clicks, progress, current>>
      BY <1>7 DEF WatermarkAdvances, valve
    <2>2. Said(conversions', progress["conversions"], t)
      BY <1>1, <2>1, SaysMark
    <2>3. progress["clicks"] # t
      BY <2>1, BoundAssumption DEF Clocks
    <2>4. "clicks" \in Channel
      BY DEF Channel
    <2> QED
      BY <1>1, <2>1, <2>2, <2>3, <2>4 DEF Caught, Said
  <1>8. ASSUME NEW t \in exposureTimers, ExposureTimer(t)
        PROVE  Caught'
    <2>1. /\ clicks' = clicks \/ clicks' = Append(clicks, Enriched(pendingClick, None))
          /\ UNCHANGED <<watermark, forwarded, valve, conversions>>
      BY <1>8 DEF ExposureTimer
    <2> QED
      BY <1>1, <1>2, <2>1, CaughtUnheard, SaysNoMark
  <1>9. CASE WatermarkForwarded
    <2>1. /\ forwarded < watermark /\ forwarded' = watermark /\ clicks' = Append(clicks, Mark(watermark))
          /\ UNCHANGED <<watermark, conversions, progress, current>>
      BY <1>9 DEF WatermarkForwarded, valve
    <2>2. watermark # 0
      BY <2>1 DEF Clocks
    <2>3. Said(clicks', progress["clicks"], watermark)
      BY <1>1, <2>1, <2>2, SaysMark
    <2> QED
      BY <1>1, <2>1, <2>3 DEF Caught, Said
  <1>10. CASE SourceIdles
    <2>1. /\ clicks' = Append(clicks, Idleness) /\ conversions' = Append(conversions, Idleness)
          /\ UNCHANGED <<watermark, forwarded, valve>>
      BY <1>10 DEF SourceIdles
    <2> QED
      BY <1>2, <2>1, CaughtUnheard
  <1> QED
    BY <1>3, <1>4, <1>5, <1>6, <1>7, <1>8, <1>9, <1>10 DEF ExposureStep

(* What was said is heard, after each step of the conversion join.         *)
LEMMA CaughtConversionStep ==
    ASSUME Clocks, Held, Caught, ConversionStep
    PROVE  Caught'
  <1>1. /\ clicks \in Seq(ClickItem) /\ conversions \in Seq(ConversionItem)
        /\ Said(clicks, progress["clicks"], forwarded)
        /\ Said(conversions, progress["conversions"], watermark)
        /\ (\A c \in Channel : progress[c] = watermark) => current = watermark
    BY DEF Held, Caught
  <1>2. ASSUME clicks # <<>>, ~IsMark(Head(clicks)), clicks' = Tail(clicks),
               UNCHANGED <<watermark, forwarded, valve, conversions>>
        PROVE  Caught'
    <2>1. Said(Tail(clicks), progress["clicks"], forwarded)
      BY <1>1, <1>2, SaidStays
    <2> QED
      BY <1>1, <1>2, <2>1, CaughtUnheard
  <1>3. ASSUME conversions # <<>>, ~IsMark(Head(conversions)), conversions' = Tail(conversions),
               UNCHANGED <<watermark, forwarded, valve, clicks>>
        PROVE  Caught'
    <2>1. Said(Tail(conversions), progress["conversions"], watermark)
      BY <1>1, <1>3, SaidStays
    <2> QED
      BY <1>1, <1>3, <2>1, CaughtUnheard
  <1>4. "clicks" \in Channel /\ "conversions" \in Channel /\ "clicks" # "conversions"
    BY DEF Channel
  <1>5. CASE ClickMark
    <2> DEFINE mark == Head(clicks).mark
    <2>1. /\ Takes(clicks) /\ clicks # <<>> /\ IsMark(Head(clicks)) /\ clicks' = Tail(clicks)
          /\ Hears("clicks", mark) /\ UNCHANGED <<watermark, forwarded, conversions>>
      BY <1>5 DEF ClickMark, Takes
    <2>2. Head(clicks) = Mark(mark) /\ mark \in 0..forwarded
      BY <2>1, TakesItem, ItemFacts
    <2>3. progress' = [progress EXCEPT !["clicks"] = IF mark = 0 THEN @ ELSE mark]
      BY <1>4, <2>1, <2>2, ValveStep DEF Clocks
    <2>4. Said(Tail(clicks), progress'["clicks"], forwarded)
      <3>1. progress'["clicks"] = IF mark = 0 THEN progress["clicks"] ELSE mark
        BY <1>4, <2>3 DEF Clocks
      <3> HIDE DEF mark
      <3> QED
        BY <1>1, <2>1, <2>2, <3>1, SaidStays DEF mark
    <2>5. Said(conversions, progress'["conversions"], watermark)
      BY <1>1, <1>4, <2>3 DEF Clocks
    <2>6. (\A c \in Channel : progress'[c] = watermark) => current' = watermark
      BY <1>1, <1>5, MarkStep
    <2> QED
      BY <2>1, <2>4, <2>5, <2>6 DEF Caught, Said
  <1>6. CASE ConversionMark
    <2> DEFINE mark == Head(conversions).mark
    <2>1. /\ Takes(conversions) /\ conversions # <<>> /\ IsMark(Head(conversions))
          /\ conversions' = Tail(conversions)
          /\ Hears("conversions", mark) /\ UNCHANGED <<watermark, forwarded, clicks>>
      BY <1>6 DEF ConversionMark, Takes
    <2>2. Head(conversions) = Mark(mark) /\ mark \in 0..watermark
      BY <2>1, HeadAndTail, ItemFacts, <1>1
    <2>3. progress' = [progress EXCEPT !["conversions"] = IF mark = 0 THEN @ ELSE mark]
      BY <1>4, <2>1, <2>2, ValveStep
    <2>4. Said(Tail(conversions), progress'["conversions"], watermark)
      <3>1. progress'["conversions"] = IF mark = 0 THEN progress["conversions"] ELSE mark
        BY <1>4, <2>3 DEF Clocks
      <3> HIDE DEF mark
      <3> QED
        BY <1>1, <2>1, <2>2, <3>1, SaidStays DEF mark
    <2>5. Said(clicks, progress'["clicks"], forwarded)
      BY <1>1, <1>4, <2>3 DEF Clocks
    <2>6. (\A c \in Channel : progress'[c] = watermark) => current' = watermark
      BY <1>1, <1>6, MarkStep
    <2> QED
      BY <2>1, <2>4, <2>5, <2>6 DEF Caught, Said
  <1>7. CASE ClickJoins \/ LateClick
    BY <1>2, <1>7 DEF ClickJoins, LateClick, Takes
  <1>8. CASE ConversionJoins \/ ConversionWaits \/ LateConversion
    BY <1>3, <1>8 DEF ConversionJoins, ConversionWaits, LateConversion, Takes
  <1>9. ASSUME NEW t \in conversionTimers, ConversionTimer(t)
        PROVE  Caught'
    BY <1>1, <1>9, CaughtUnheard DEF ConversionTimer, channels
  <1> QED
    BY <1>5, <1>6, <1>7, <1>8, <1>9 DEF ConversionStep

(* What was said is heard.                                                 *)
LEMMA CaughtStep ==
    ASSUME Clocks, Held, Caught, [Next]_vars
    PROVE  Caught'
  <1>1. CASE UNCHANGED vars
    BY <1>1 DEF Caught, vars, channels, valve, Said
  <1> QED
    BY <1>1, CaughtExposureStep, CaughtConversionStep DEF Next

-----------------------------------------------------------------------------
(* Associations.                                                           *)

(* What the join decides is final, and a match has a click within reach.   *)
LEMMA DecisionFacts ==
    ASSUME NEW c, NEW v
    PROVE  /\ Association(ConversionReason(c, v)) \in Associations
           /\ Association(ConversionReason(c, v)).status # "pending"
           /\ Association(ConversionReason(c, v)).status = "matched" =>
                 /\ c # None /\ c.event.user = v.user /\ c.event.campaign = v.campaign
                 /\ ~(v.time < c.event.time) /\ ~(v.time - c.event.time > Attribution)
  <1> DEFINE reason == ConversionReason(c, v)
  <1>1. reason \in ConversionReasons
    BY DEF ConversionReason, ConversionReasons
  <1>2. reason = "MATCHED" =>
          /\ c # None /\ c.event.user = v.user /\ c.event.campaign = v.campaign
          /\ ~(v.time < c.event.time) /\ ~(v.time - c.event.time > Attribution)
    BY DEF ConversionReason
  <1> HIDE DEF reason
  <1>3. Association(reason) = [status |-> IF reason = "MATCHED" THEN "matched" ELSE "unmatched", reason |-> reason]
    BY <1>1 DEF Association, ConversionReasons
  <1>4. Association(reason) \in Associations /\ Association(reason).status # "pending"
    BY <1>1, <1>3 DEF Associations
  <1>5. Association(reason).status = "matched" => reason = "MATCHED"
    BY <1>3
  <1> QED
    BY <1>2, <1>4, <1>5 DEF reason

(* The oracle finds the click that arrived: it has one business key.       *)
LEMMA TheClick ==
    ASSUME NEW events \in SUBSET Event, \A e, f \in events : e.key = f.key => e = f,
           NEW c \in events, c.type = "click"
    PROVE  Oracle!TheEvent(events, "click") = c
  <1> DEFINE found == {e \in events : e.type = "click"}
  <1>1. \A e \in found : e = c
    BY KeyAssumption
  <1>2. found # {} /\ (CHOOSE e \in found : TRUE) = c
    BY <1>1
  <1> QED
    BY <1>2 DEF Oracle!TheEvent

(* A match of the join is one of the oracle.                               *)
LEMMA RealMatch ==
    ASSUME Counted, NEW c, c # None => c.event \in ArrivedOf("click"), NEW v \in ArrivedOf("conversion"),
           Association(ConversionReason(c, v)).status = "matched"
    PROVE  Oracle!IsMatched(Arrived, v)
  <1>1. /\ c.event \in ArrivedOf("click") /\ c.event.user = v.user /\ c.event.campaign = v.campaign
        /\ ~(v.time < c.event.time) /\ ~(v.time - c.event.time > Attribution)
    BY DecisionFacts
  <1>2. Arrived \in SUBSET Event /\ \A e, f \in Arrived : e.key = f.key => e = f
    BY DEF Counted, Arrived
  <1>3. Oracle!TheEvent(Arrived, "click") = c.event
    BY <1>1, <1>2, TheClick DEF ArrivedOf
  <1>4. c.event # None /\ c.event.time \in Nat /\ v.time \in Nat
    BY <1>1, EventFacts DEF ArrivedOf, Arrived
  <1>5. ~Oracle!Unlinked(c.event, v)
    BY <1>1, <1>4, RulesAssumption DEF Oracle!Unlinked
  <1> QED
    BY <1>3, <1>5 DEF Oracle!IsMatched

(* The oracle matches a conversion for good.                               *)
LEMMA MatchStays ==
    ASSUME Counted, Counted', Arrived \subseteq Arrived', NEW v, Oracle!IsMatched(Arrived, v)
    PROVE  Oracle!IsMatched(Arrived', v)
  <1>1. ~Oracle!Unlinked(Oracle!TheEvent(Arrived, "click"), v)
    BY DEF Oracle!IsMatched
  <1>2. Oracle!TheEvent(Arrived, "click") # None
    BY <1>1 DEF Oracle!Unlinked
  <1>3. PICK c \in Arrived : c.type = "click"
    BY <1>2 DEF Oracle!TheEvent
  <1>4. /\ Arrived \in SUBSET Event /\ \A e, f \in Arrived : e.key = f.key => e = f
        /\ Arrived' \in SUBSET Event /\ \A e, f \in Arrived' : e.key = f.key => e = f
    BY DEF Counted, Arrived
  <1>5. Oracle!TheEvent(Arrived, "click") = c
    BY <1>3, <1>4, TheClick
  <1>6. Oracle!TheEvent(Arrived', "click") = c
    BY <1>3, <1>4, TheClick
  <1> QED
    BY <1>1, <1>5, <1>6 DEF Oracle!IsMatched

(* Associations stay sound while none is emitted.                          *)
LEMMA LinkedUnchanged ==
    ASSUME Counted, Counted', Arrived \subseteq Arrived', Linked, UNCHANGED <<associations, waiting>>
    PROVE  Linked'
  <1>1. \A v \in ArrivedOf("conversion") : v \in ArrivedOf("conversion")'
    BY DEF ArrivedOf
  <1>2. ASSUME NEW k \in ConversionKey, associations'[k] # None, associations'[k].status = "matched"
        PROVE  \E v \in ArrivedOf("conversion")' : v.key = k /\ Oracle!IsMatched(Arrived', v)
    <2>1. PICK v \in ArrivedOf("conversion") : v.key = k /\ Oracle!IsMatched(Arrived, v)
      BY <1>2 DEF Linked
    <2> QED
      BY <1>1, <2>1, MatchStays
  <1> QED
    BY <1>2 DEF Linked

(* Associations are sound when those of some conversions are decided.      *)
LEMMA LinkedEmits ==
    ASSUME Counted, Linked, UNCHANGED arrivals,
           NEW vs \in SUBSET ArrivedOf("conversion"),
           NEW c, c # None => c.event \in ArrivedOf("click"),
           Emits(vs, c), \A v \in waiting : v \in vs \/ v \in waiting'
    PROVE  Linked'
  <1>1. Arrived' = Arrived /\ ArrivedOf("conversion")' = ArrivedOf("conversion")
    BY DEF Arrived, ArrivedOf
  <1>2. associations' = [k \in ConversionKey |->
                          IF \E v \in vs : v.key = k
                            THEN Association(ConversionReason(c, CHOOSE v \in vs : v.key = k))
                            ELSE associations[k]]
    BY DEF Emits
  <1>3. ASSUME NEW k \in ConversionKey, \E v \in vs : v.key = k
        PROVE  /\ associations'[k] \in Associations /\ associations'[k].status # "pending"
               /\ associations'[k].status = "matched" =>
                     \E v \in ArrivedOf("conversion") : v.key = k /\ Oracle!IsMatched(Arrived, v)
    <2>1. PICK v \in vs : v.key = k /\ associations'[k] = Association(ConversionReason(c, v))
      BY <1>2, <1>3
    <2> QED
      BY <2>1, DecisionFacts, RealMatch
  <1>4. ASSUME NEW k \in ConversionKey, ~\E v \in vs : v.key = k
        PROVE  /\ associations'[k] = associations[k]
               /\ \A v \in waiting : v.key = k => v \in waiting'
    BY <1>2, <1>4
  <1>5. associations' \in [ConversionKey -> {None} \cup Associations]
    <2>1. \A k \in ConversionKey : associations'[k] \in {None} \cup Associations
      BY <1>3, <1>4 DEF Linked
    <2>2. associations' = [k \in ConversionKey |-> associations'[k]]
      BY <1>2
    <2> QED
      BY <2>1, <2>2
  <1>6. ASSUME NEW k \in ConversionKey, associations'[k] # None
        PROVE  /\ associations'[k].status = "pending" => \E v \in waiting' : v.key = k
               /\ associations'[k].status = "matched" =>
                     \E v \in ArrivedOf("conversion") : v.key = k /\ Oracle!IsMatched(Arrived, v)
    <2>1. CASE \E v \in vs : v.key = k
      BY <1>3, <2>1
    <2>2. CASE ~\E v \in vs : v.key = k
      BY <1>4, <1>6, <2>2 DEF Linked
    <2> QED
      BY <2>1, <2>2
  <1> QED
    BY <1>1, <1>5, <1>6 DEF Linked

(* Associations stay sound.                                                *)
LEMMA LinkedStep ==
    ASSUME Counted, Clocks, Held, Linked, [Next]_vars
    PROVE  Linked'
  <1>1. Counted' /\ Arrived \subseteq Arrived'
    BY CountedStep
  <1>2. ASSUME UNCHANGED <<associations, waiting>>
        PROVE  Linked'
    BY <1>1, <1>2, LinkedUnchanged
  <1>3. CASE UNCHANGED vars
    BY <1>2, <1>3 DEF vars, outputs, conversion
  <1>4. CASE ExposureStep
    <2>1. UNCHANGED <<associations, waiting>>
      BY <1>4 DEF ExposureStep, LateAtExposure, ImpressionArrives, ClickPasses, ClickWaits, ConversionArrives,
                  WatermarkAdvances, ExposureTimer, WatermarkForwarded, SourceIdles, outputs, conversion
    <2> QED
      BY <1>2, <2>1
  <1>5. CASE ClickMark \/ ConversionMark \/ LateClick \/ LateConversion
    BY <1>2, <1>5 DEF ClickMark, ConversionMark, LateClick, LateConversion, outputs, conversion
  <1>6. click # None => click.event \in ArrivedOf("click")
    BY ItemFacts DEF Held
  <1>7. CASE ClickJoins
    <2>1. /\ Takes(clicks) /\ ~IsMark(Head(clicks)) /\ click' = IF click = None THEN Head(clicks) ELSE click
          /\ Emits(waiting, click') /\ UNCHANGED source
      BY <1>7 DEF ClickJoins
    <2>2. click' # None => click'.event \in ArrivedOf("click")
      BY <1>6, <2>1, TakesItem
    <2>3. waiting \in SUBSET ArrivedOf("conversion") /\ UNCHANGED arrivals
      BY <2>1 DEF Held, source
    <2> QED
      BY <2>1, <2>2, <2>3, LinkedEmits
  <1>8. CASE ConversionJoins
    <2>1. /\ Takes(conversions) /\ ~IsMark(Head(conversions)) /\ Emits({Head(conversions)}, click)
          /\ UNCHANGED <<arrivals, waiting>>
      BY <1>8 DEF ConversionJoins, source
    <2>2. {Head(conversions)} \in SUBSET ArrivedOf("conversion")
      BY <2>1, TakesItem
    <2> QED
      BY <1>6, <2>1, <2>2, LinkedEmits
  <1>9. CASE ConversionWaits
    <2> DEFINE v     == Head(conversions)
               known == \E u \in waiting : u.key = v.key
    <2>1. /\ waiting' = IF known THEN waiting ELSE waiting \cup {v}
          /\ associations' = IF known THEN associations
                             ELSE [associations EXCEPT ![v.key] = Association("AWAITING_CLICK")]
      BY <1>9 DEF ConversionWaits
    <2>2. CASE known
      BY <1>2, <2>1, <2>2
    <2>3. CASE ~known
      <3>1. Association("AWAITING_CLICK") \in Associations /\ Association("AWAITING_CLICK").status = "pending"
        BY DEF Association, Associations
      <3>2. associations' \in [ConversionKey -> {None} \cup Associations]
        BY <2>1, <2>3, <3>1 DEF Linked
      <3>3. ASSUME NEW k \in ConversionKey, associations'[k] # None
            PROVE  /\ associations'[k].status = "pending" => \E u \in waiting' : u.key = k
                   /\ associations'[k].status = "matched" =>
                         \E u \in ArrivedOf("conversion") : u.key = k /\ Oracle!IsMatched(Arrived, u)
        <4>1. CASE k = v.key
          <5>1. associations'[k] = Association("AWAITING_CLICK") /\ v \in waiting'
            BY <2>1, <2>3, <4>1 DEF Linked
          <5> QED
            BY <3>1, <4>1, <5>1
        <4>2. CASE k # v.key
          <5>1. associations'[k] = associations[k] /\ waiting \subseteq waiting'
            BY <2>1, <2>3, <4>2 DEF Linked
          <5> QED
            BY <3>3, <5>1 DEF Linked
        <4> QED
          BY <4>1, <4>2
      <3>4. Arrived' = Arrived /\ ArrivedOf("conversion")' = ArrivedOf("conversion")
        BY <1>9 DEF ConversionWaits, source, Arrived, ArrivedOf
      <3> QED
        BY <3>2, <3>3, <3>4 DEF Linked
    <2> QED
      BY <2>2, <2>3
  <1>10. ASSUME NEW t \in conversionTimers, ConversionTimer(t)
         PROVE  Linked'
    <2> DEFINE timedOut == {v \in waiting : v.time + Wait <= t}
    <2>1. Emits(timedOut, None) /\ waiting' = waiting \ timedOut /\ UNCHANGED arrivals
      BY <1>10 DEF ConversionTimer, source
    <2>2. timedOut \in SUBSET ArrivedOf("conversion")
      BY DEF Held
    <2> HIDE DEF timedOut
    <2> QED
      BY <2>1, <2>2, LinkedEmits
  <1> QED
    BY <1>3, <1>4, <1>5, <1>7, <1>8, <1>9, <1>10 DEF Next, ConversionStep

-----------------------------------------------------------------------------
(* The theorems.                                                           *)

(* Nothing has arrived and nothing is held.                                *)
LEMMA InvInit == Init => Inv
  <1> SUFFICES ASSUME Init PROVE Inv
    OBVIOUS
  <1>1. Arrived = {}
    BY DEF Init, Arrived
  <1>2. Counted
    BY <1>1, BoundAssumption DEF Init, Counted
  <1>3. Clocks
    <2>1. punctual \in BOOLEAN /\ quiet \in BOOLEAN /\ active \subseteq Channel
      BY DEF Init
    <2>2. /\ watermark \in 0..MaxTime /\ forwarded \in 0..watermark /\ current \in 0..watermark
          /\ progress \in [Channel -> 0..watermark] /\ progress["clicks"] <= forwarded
      BY BoundAssumption DEF Init, Channel
    <2> QED
      BY <2>1, <2>2 DEF Clocks
  <1>4. Held
    <2>1. /\ impression = None /\ pendingClick = None /\ click = None /\ waiting = {}
          /\ exposureTimers = {} /\ conversionTimers = {} /\ expiredUntil = 0
      BY DEF Init
    <2>2. expired \in BOOLEAN
      BY DEF Init
    <2>3. clicks \in Seq(ClickItem) /\ conversions \in Seq(ConversionItem)
      BY DEF Init
    <2> QED
      BY <2>1, <2>2, <2>3 DEF Held
  <1>5. TimersKept
    BY DEF Init, TimersKept
  <1>6. Caught
    <2>1. Said(<<>>, 0, 0)
      <3>1. 0 \in 0..Len(<<>>) /\ (0 + 1)..Len(<<>>) = {}
        OBVIOUS
      <3> QED
        BY <3>1 DEF Said
    <2>2. progress["clicks"] = 0 /\ progress["conversions"] = 0
      BY DEF Init, Channel
    <2> QED
      BY <2>1, <2>2 DEF Init, Caught
  <1>7. Linked
    BY DEF Init, Linked
  <1> QED
    BY <1>2, <1>3, <1>4, <1>5, <1>6, <1>7 DEF Inv

(* Inv is inductive.                                                       *)
LEMMA InvStep == Inv /\ [Next]_vars => Inv'
  BY CountedStep, ClocksStep, HeldStep, TimersStep, CaughtStep, LinkedStep DEF Inv

(* Operators and channels hold what arrived, every wait has its timer, and *)
(* what is announced follows from what is held (AttributionJob.java).      *)
THEOREM InvCorrect == Spec => []Inv
  BY InvInit, InvStep, PTL DEF Spec

(* Every variable keeps its type, and ConversionJoin is never ahead of the *)
(* watermarks its channels carry.                                          *)
THEOREM TypeCorrect == Spec => []TypeOK
  <1>1. Inv => TypeOK
    <2> SUFFICES ASSUME Inv PROVE TypeOK
      OBVIOUS
    <2>1. /\ arrivals \in [Event -> 0..(MaxFaults + 1)] /\ idles \in 0..MaxFaults
      BY DEF Inv, Counted
    <2>2. /\ punctual \in BOOLEAN /\ quiet \in BOOLEAN
          /\ watermark \in 0..MaxTime /\ forwarded \in 0..watermark
          /\ active \subseteq Channel /\ current \in 0..watermark
      BY DEF Inv, Clocks
    <2>3. progress["clicks"] \in 0..forwarded /\ progress["conversions"] \in 0..watermark
      BY BoundAssumption DEF Inv, Clocks, Channel
    <2>4. /\ impression \in {e \in Event : e.type = "impression"} \cup {None}
          /\ pendingClick \in {e \in Event : e.type = "click"} \cup {None}
          /\ waiting \subseteq {e \in Event : e.type = "conversion"} /\ expired \in BOOLEAN
      BY DEF Inv, Held, ArrivedOf, Arrived
    <2> QED
      BY <2>1, <2>2, <2>3, <2>4 DEF TypeOK
  <1> QED
    BY InvCorrect, <1>1, PTL

(* No operator keeps state beyond the time the rules allow, for any rules, *)
(* events, delays and silences (AttributionJob.java:65-76, 126-144).       *)
THEOREM StateExpiresCorrect == Spec => []StateExpires
  <1>1. Inv => StateExpires
    BY KeptIsDue DEF Inv
  <1> QED
    BY InvCorrect, <1>1, PTL

(* However late, repeated or reordered events are, a match is one that the *)
(* oracle confirms, and nothing is pending when event time is over.        *)
THEOREM MatchesAreRealCorrect == Spec => []MatchesAreReal
  <1>1. Inv => MatchesAreReal
    <2> SUFFICES ASSUME Inv, NEW v \in Arrived, v.type = "conversion", associations[v.key] # None
                 PROVE  /\ associations[v.key].status = "matched" => Oracle!IsMatched(Arrived, v)
                        /\ Drained => associations[v.key].status # "pending"
      BY DEF MatchesAreReal
    <2>1. v.key \in ConversionKey
      BY DEF ConversionKey, Arrived
    <2>2. ASSUME associations[v.key].status = "matched"
          PROVE  Oracle!IsMatched(Arrived, v)
      <3>1. PICK u \in ArrivedOf("conversion") : u.key = v.key /\ Oracle!IsMatched(Arrived, u)
        BY <2>1, <2>2 DEF Inv, Linked
      <3>2. u = v
        BY <3>1 DEF Inv, Counted, ArrivedOf
      <3> QED
        BY <3>1, <3>2
    <2>3. ASSUME Drained, associations[v.key].status = "pending"
          PROVE  FALSE
      <3>1. PICK u \in waiting : u.key = v.key
        BY <2>1, <2>3 DEF Inv, Linked
      <3>2. u.time + Wait \in conversionTimers /\ u.time + Wait <= MaxTime
        BY <3>1, EventFacts DEF Inv, TimersKept, Held, ArrivedOf, Arrived
      <3>3. progress["clicks"] = MaxTime /\ progress["conversions"] = MaxTime
        <4>1. ASSUME NEW heard, NEW mark, Said(<<>>, heard, mark)
              PROVE  heard = mark
          BY <4>1 DEF Said
        <4> QED
          BY <2>3, <4>1 DEF Inv, Caught, Drained
      <3>4. current = MaxTime
        BY <2>3, <3>3 DEF Inv, Caught, Drained, Channel
      <3> QED
        BY <2>3, <3>2, <3>4 DEF Drained, Due
    <2> QED
      BY <2>2, <2>3
  <1> QED
    BY InvCorrect, <1>1, PTL

-----------------------------------------------------------------------------
(* Events on time: what is sent in time is taken in time.                  *)

OnTime == punctual /\ idles = 0

(* What a channel carries besides watermarks.                              *)
Events(channel) == {channel[n] : n \in {m \in 1..Len(channel) : ~IsMark(channel[m])}}

(* An item is to be taken before a watermark of that time.                 *)
Until(item) ==
    IF IsMark(item) THEN item.mark + 1
    ELSE (IF "event" \in DOMAIN item THEN item.event ELSE item).time + Wait

(* A channel keeps the order in which its sender came to its watermarks.   *)
Orderly(channel, heard) ==
    \A n \in 1..Len(channel) :
        /\ channel[n] # Idleness /\ heard < Until(channel[n])
        /\ \A m \in 1..(n - 1) : IsMark(channel[m]) => channel[m].mark < Until(channel[n])

Prompt ==
    /\ active = Channel /\ \A c \in Channel : current <= progress[c]
    /\ Orderly(clicks, progress["clicks"]) /\ Orderly(conversions, progress["conversions"])
    /\ pendingClick # None => forwarded < pendingClick.time + Wait

(* One more item.                                                          *)
LEMMA OrderlyAppend ==
    ASSUME NEW S, NEW s \in Seq(S), NEW heard, NEW item, Orderly(s, heard),
           item # Idleness, heard < Until(item),
           \A n \in 1..Len(s) : IsMark(s[n]) => s[n].mark < Until(item)
    PROVE  Orderly(Append(s, item), heard)
  <1> DEFINE longer == Append(s, item)
  <1>1. Len(longer) = Len(s) + 1 /\ Len(s) \in Nat /\ longer[Len(s) + 1] = item
    OBVIOUS
  <1>2. \A n \in 1..Len(s) : longer[n] = s[n]
    OBVIOUS
  <1> HIDE DEF longer
  <1>3. SUFFICES ASSUME NEW n \in 1..Len(longer)
                 PROVE  /\ longer[n] # Idleness /\ heard < Until(longer[n])
                        /\ \A m \in 1..(n - 1) : IsMark(longer[m]) => longer[m].mark < Until(longer[n])
    BY DEF Orderly, longer
  <1>4. CASE n \in 1..Len(s)
    <2>1. longer[n] = s[n] /\ \A m \in 1..(n - 1) : longer[m] = s[m]
      BY <1>1, <1>2, <1>4
    <2> QED
      BY <1>4, <2>1 DEF Orderly
  <1>5. CASE n = Len(s) + 1
    <2>1. longer[n] = item /\ \A m \in 1..(n - 1) : m \in 1..Len(s) /\ longer[m] = s[m]
      BY <1>1, <1>2, <1>5
    <2> QED
      BY <2>1
  <1> QED
    BY <1>1, <1>4, <1>5

(* The first item taken.                                                   *)
LEMMA OrderlyTail ==
    ASSUME NEW S, NEW s \in Seq(S), s # <<>>, NEW heard, Orderly(s, heard)
    PROVE  /\ Orderly(Tail(s), IF IsMark(Head(s)) THEN Head(s).mark ELSE heard)
           /\ Head(s) # Idleness /\ heard < Until(Head(s))
  <1>1. /\ Head(s) = s[1] /\ Len(Tail(s)) = Len(s) - 1 /\ Len(s) \in Nat \ {0}
        /\ \A n \in 1..Len(Tail(s)) : Tail(s)[n] = s[n + 1]
    BY HeadAndTail
  <1>2. Head(s) # Idleness /\ heard < Until(Head(s))
    BY <1>1 DEF Orderly
  <1>3. ASSUME NEW n \in 1..Len(Tail(s))
        PROVE  /\ Tail(s)[n] # Idleness
               /\ (IF IsMark(Head(s)) THEN Head(s).mark ELSE heard) < Until(Tail(s)[n])
               /\ \A m \in 1..(n - 1) : IsMark(Tail(s)[m]) => Tail(s)[m].mark < Until(Tail(s)[n])
    <2>1. n + 1 \in 1..Len(s) /\ Tail(s)[n] = s[n + 1] /\ 1 \in 1..((n + 1) - 1)
      BY <1>1
    <2>2. \A m \in 1..(n - 1) : Tail(s)[m] = s[m + 1] /\ m + 1 \in 1..((n + 1) - 1)
      BY <1>1
    <2>3. /\ s[n + 1] # Idleness /\ heard < Until(s[n + 1])
          /\ \A m \in 1..((n + 1) - 1) : IsMark(s[m]) => s[m].mark < Until(s[n + 1])
      BY <2>1 DEF Orderly
    <2>4. IsMark(Head(s)) => Head(s).mark < Until(s[n + 1])
      BY <1>1, <2>1, <2>3
    <2>5. \A m \in 1..(n - 1) : IsMark(Tail(s)[m]) => Tail(s)[m].mark < Until(s[n + 1])
      BY <2>2, <2>3
    <2> QED
      BY <2>1, <2>3, <2>4, <2>5
  <1> QED
    BY <1>2, <1>3 DEF Orderly

(* The valve passes on the smaller watermark while no channel is idle.     *)
LEMMA ValveTakesLeast ==
    ASSUME Clocks, active = Channel, \A c \in Channel : current <= progress[c],
           NEW channel \in Channel, NEW mark \in 0..watermark, mark # 0, progress[channel] <= mark,
           Hears(channel, mark)
    PROVE  /\ active' = Channel /\ progress' = [progress EXCEPT ![channel] = mark]
           /\ current <= current' /\ \A c \in Channel : current' <= progress'[c]
  <1> DEFINE heard   == [progress EXCEPT ![channel] = IF mark = 0 THEN @ ELSE mark]
             aligned == {heard[c] : c \in {d \in active' : heard[d] >= current}}
             next    == {t \in aligned : \A u \in aligned : t <= u}
  <1>1. active' = Channel /\ Channel # {}
    BY DEF Hears, Channel
  <1>2. progress' = heard /\ current' = IF next = {} THEN current ELSE CHOOSE t \in next : TRUE
    BY <1>1 DEF Hears
  <1>3. heard = [progress EXCEPT ![channel] = mark] /\ heard \in [Channel -> Nat] /\ current \in Nat
    BY BoundAssumption DEF Clocks
  <1>4. \A c \in Channel : current <= heard[c]
    BY <1>3, BoundAssumption DEF Clocks
  <1>5. aligned = {heard["clicks"], heard["conversions"]}
    <2>1. {d \in active' : heard[d] >= current} = {"clicks", "conversions"}
      BY <1>1, <1>3, <1>4 DEF Channel
    <2> HIDE DEF heard
    <2> QED
      BY <2>1
  <1>6. heard["clicks"] \in Nat /\ heard["conversions"] \in Nat
    BY <1>3 DEF Channel
  <1>7. next # {}
    <2> HIDE DEF heard, aligned
    <2>1. CASE heard["clicks"] <= heard["conversions"]
      <3>1. heard["clicks"] \in next
        BY <1>5, <1>6, <2>1
      <3> QED
        BY <3>1
    <2>2. CASE heard["conversions"] <= heard["clicks"]
      <3>1. heard["conversions"] \in next
        BY <1>5, <1>6, <2>2
      <3> QED
        BY <3>1
    <2> QED
      BY <1>6, <2>1, <2>2
  <1>8. current' \in next
    BY <1>2, <1>7
  <1> HIDE DEF heard
  <1>9. current' <= heard["clicks"] /\ current' <= heard["conversions"] /\ current <= current'
    <2>1. current' \in aligned /\ \A u \in aligned : current' <= u
      BY <1>8
    <2> HIDE DEF aligned
    <2> QED
      BY <1>4, <1>5, <2>1 DEF Channel
  <1> QED
    BY <1>1, <1>2, <1>3, <1>9 DEF Channel

(* What channels carry: watermarks their sender said, and events by which  *)
(* time they have to be taken.                                             *)
LEMMA Carried ==
    ASSUME Clocks, Held
    PROVE  /\ \A n \in 1..Len(clicks) :
                IF IsMark(clicks[n]) THEN /\ clicks[n].mark \in 0..forwarded /\ clicks[n] = Mark(clicks[n].mark)
                                          /\ Until(clicks[n]) = clicks[n].mark + 1
                ELSE /\ clicks[n].event \in ArrivedOf("click")
                     /\ Until(clicks[n]) = clicks[n].event.time + Wait
           /\ \A n \in 1..Len(conversions) :
                IF IsMark(conversions[n])
                  THEN /\ conversions[n].mark \in 0..watermark /\ conversions[n] = Mark(conversions[n].mark)
                       /\ Until(conversions[n]) = conversions[n].mark + 1
                ELSE /\ conversions[n] \in ArrivedOf("conversion")
                     /\ Until(conversions[n]) = conversions[n].time + Wait
  <1>1. \A n \in 1..Len(clicks) : clicks[n] \in ClickItem
    BY DEF Held
  <1>2. \A n \in 1..Len(conversions) : conversions[n] \in ConversionItem
    BY DEF Held
  <1>3. \A item \in [event : ArrivedOf("click"), reason : ExposureReasons, impression : Event \cup {None}] :
            "event" \in DOMAIN item /\ item.event \in ArrivedOf("click")
    OBVIOUS
  <1>4. \A item \in ArrivedOf("conversion") : "event" \notin DOMAIN item
    BY EventAssumption DEF ArrivedOf, Arrived
  <1> QED
    BY <1>1, <1>2, <1>3, <1>4, ItemFacts DEF Until

(* Items that a step may send.                                             *)
LEMMA SentItems ==
    /\ \A e \in Event : ~IsMark(e) /\ e # Idleness /\ Until(e) = e.time + Wait
    /\ \A c, i : /\ ~IsMark(Enriched(c, i)) /\ Enriched(c, i) # Idleness
                 /\ Until(Enriched(c, i)) = c.time + Wait /\ Enriched(c, i).event = c
    /\ \A t : IsMark(Mark(t)) /\ Mark(t).mark = t /\ Until(Mark(t)) = t + 1
    /\ \A t : t # 0 => Mark(t) # Idleness
  <1>1. \A t : IsMark(Mark(t)) /\ Mark(t).mark = t
    BY DEF IsMark, Mark
  <1>2. \A c, i : "event" \in DOMAIN Enriched(c, i) /\ Enriched(c, i).event = c
    BY DEF Enriched
  <1>3. \A e \in Event : "event" \notin DOMAIN e
    BY EventAssumption
  <1>4. IsMark(Idleness)
    BY <1>1 DEF Idleness
  <1> QED
    BY <1>1, <1>2, <1>3, <1>4, SaysNoMark DEF Until, Idleness

(* What is sent in time keeps a channel in order.                          *)
LEMMA ClickSent ==
    ASSUME Clocks, Held, Prompt, NEW item, item # Idleness, Until(item) \in Nat, forwarded < Until(item)
    PROVE  Orderly(Append(clicks, item), progress["clicks"])
  <1>1. \A n \in 1..Len(clicks) : IsMark(clicks[n]) => clicks[n].mark < Until(item)
    BY Carried, BoundAssumption DEF Clocks
  <1>2. progress["clicks"] < Until(item)
    BY BoundAssumption DEF Clocks, Channel
  <1> QED
    BY <1>1, <1>2, OrderlyAppend DEF Held, Prompt

(* The same for conversions.                                               *)
LEMMA ConversionSent ==
    ASSUME Clocks, Held, Prompt, NEW item, item # Idleness, Until(item) \in Nat, watermark < Until(item)
    PROVE  Orderly(Append(conversions, item), progress["conversions"])
  <1>1. \A n \in 1..Len(conversions) : IsMark(conversions[n]) => conversions[n].mark < Until(item)
    BY Carried, BoundAssumption DEF Clocks
  <1>2. progress["conversions"] < Until(item)
    BY BoundAssumption DEF Clocks, Channel
  <1> QED
    BY <1>1, <1>2, OrderlyAppend DEF Held, Prompt

(* What is taken from a channel.                                           *)
LEMMA ClickTaken ==
    ASSUME Clocks, Held, Prompt, Takes(clicks)
    PROVE  /\ Orderly(Tail(clicks), IF IsMark(Head(clicks)) THEN Head(clicks).mark ELSE progress["clicks"])
           /\ IF IsMark(Head(clicks))
                THEN /\ Head(clicks).mark \in 0..watermark /\ Head(clicks).mark # 0
                     /\ progress["clicks"] <= Head(clicks).mark
                ELSE /\ Head(clicks).event \in ArrivedOf("click")
                     /\ current < Head(clicks).event.time + Wait
  <1>1. clicks \in Seq(ClickItem) /\ clicks # <<>> /\ Orderly(clicks, progress["clicks"])
    BY DEF Held, Prompt, Takes
  <1>2. Head(clicks) = clicks[1] /\ 1 \in 1..Len(clicks)
    BY <1>1, HeadAndTail
  <1>3. Head(clicks) # Idleness /\ progress["clicks"] < Until(Head(clicks))
    BY <1>1, OrderlyTail
  <1>4. Orderly(Tail(clicks), IF IsMark(Head(clicks)) THEN Head(clicks).mark ELSE progress["clicks"])
    BY <1>1, OrderlyTail
  <1>5. CASE IsMark(Head(clicks))
    <2>1. /\ Head(clicks).mark \in 0..forwarded /\ Head(clicks) = Mark(Head(clicks).mark)
          /\ Until(Head(clicks)) = Head(clicks).mark + 1
      BY <1>2, <1>5, Carried
    <2>2. Head(clicks).mark # 0
      BY <1>3, <2>1 DEF Idleness
    <2> QED
      BY <1>3, <1>4, <1>5, <2>1, <2>2, BoundAssumption DEF Clocks, Channel
  <1>6. CASE ~IsMark(Head(clicks))
    <2>1. Head(clicks).event \in ArrivedOf("click") /\ Until(Head(clicks)) = Head(clicks).event.time + Wait
      BY <1>2, <1>6, Carried
    <2>2. Head(clicks).event.time \in Nat
      BY <2>1, EventFacts DEF ArrivedOf, Arrived
    <2>3. current <= progress["clicks"] /\ current \in Nat /\ progress["clicks"] \in Nat
      BY BoundAssumption DEF Prompt, Channel, Clocks
    <2> QED
      BY <1>3, <1>4, <1>6, <2>1, <2>2, <2>3, RulesAssumption
  <1> QED
    BY <1>5, <1>6

(* The same for conversions.                                               *)
LEMMA ConversionTaken ==
    ASSUME Clocks, Held, Prompt, Takes(conversions)
    PROVE  /\ Orderly(Tail(conversions),
                      IF IsMark(Head(conversions)) THEN Head(conversions).mark ELSE progress["conversions"])
           /\ IF IsMark(Head(conversions))
                THEN /\ Head(conversions).mark \in 0..watermark /\ Head(conversions).mark # 0
                     /\ progress["conversions"] <= Head(conversions).mark
                ELSE /\ Head(conversions) \in ArrivedOf("conversion")
                     /\ current < Head(conversions).time + Wait
  <1>1. conversions \in Seq(ConversionItem) /\ conversions # <<>> /\ Orderly(conversions, progress["conversions"])
    BY DEF Held, Prompt, Takes
  <1>2. Head(conversions) = conversions[1] /\ 1 \in 1..Len(conversions)
    BY <1>1, HeadAndTail
  <1>3. Head(conversions) # Idleness /\ progress["conversions"] < Until(Head(conversions))
    BY <1>1, OrderlyTail
  <1>4. Orderly(Tail(conversions),
                IF IsMark(Head(conversions)) THEN Head(conversions).mark ELSE progress["conversions"])
    BY <1>1, OrderlyTail
  <1>5. CASE IsMark(Head(conversions))
    <2>1. /\ Head(conversions).mark \in 0..watermark /\ Head(conversions) = Mark(Head(conversions).mark)
          /\ Until(Head(conversions)) = Head(conversions).mark + 1
      BY <1>2, <1>5, Carried
    <2>2. Head(conversions).mark # 0
      BY <1>3, <2>1 DEF Idleness
    <2> QED
      BY <1>3, <1>4, <1>5, <2>1, <2>2, BoundAssumption DEF Clocks, Channel
  <1>6. CASE ~IsMark(Head(conversions))
    <2>1. /\ Head(conversions) \in ArrivedOf("conversion")
          /\ Until(Head(conversions)) = Head(conversions).time + Wait
      BY <1>2, <1>6, Carried
    <2>2. Head(conversions).time \in Nat
      BY <2>1, EventFacts DEF ArrivedOf, Arrived
    <2>3. current <= progress["conversions"] /\ current \in Nat /\ progress["conversions"] \in Nat
      BY BoundAssumption DEF Prompt, Channel, Clocks
    <2> QED
      BY <1>3, <1>4, <1>6, <2>1, <2>2, <2>3, RulesAssumption
  <1> QED
    BY <1>5, <1>6

(* An event on time has time to wait, and so finds its state.              *)
LEMMA ArrivesOnTime ==
    ASSUME Clocks, NEW e \in Event, Arrives(e), OnTime'
    PROVE  /\ watermark < e.time + Wait /\ ~(e.time + Wait <= watermark) /\ ~(e.time + Retention <= watermark)
           /\ forwarded = watermark /\ OnTime /\ e.time + Wait \in Nat
  <1>1. punctual' = (punctual /\ watermark < e.time + Wait) /\ idles' = idles /\ forwarded = watermark
    BY DEF Arrives, ExposureIdle
  <1>2. watermark < e.time + Wait
    BY <1>1, Zenon DEF OnTime
  <1>3. OnTime
    BY <1>1, Zenon DEF OnTime
  <1>4. watermark \in Nat /\ e.time \in Nat
    BY EventFacts, BoundAssumption DEF Clocks
  <1> QED
    BY <1>1, <1>2, <1>3, <1>4, RulesAssumption

(* It stays so.                                                            *)
LEMMA PromptStep ==
    ASSUME Counted, Clocks, Held, TimersKept, Prompt, [Next]_vars, OnTime'
    PROVE  Prompt' /\ current <= current'
  <1> DEFINE Goal == Prompt' /\ current <= current'
  <1>0. current \in Nat /\ watermark \in Nat /\ forwarded \in Nat /\ forwarded <= watermark
    BY BoundAssumption DEF Clocks
  <1>1. ASSUME UNCHANGED <<forwarded, valve>>,
               Orderly(clicks', progress["clicks"]), Orderly(conversions', progress["conversions"]),
               pendingClick' # None => forwarded < pendingClick'.time + Wait
        PROVE  Goal
    BY <1>0, <1>1 DEF Prompt, valve, Orderly
  <1>2. ASSUME UNCHANGED <<forwarded, valve, channels, pendingClick>>
        PROVE  Goal
    BY <1>1, <1>2 DEF Prompt, channels
  <1>3. ASSUME NEW e \in Event, LateAtExposure(e)
        PROVE  Goal
    BY <1>2, <1>3 DEF LateAtExposure, exposure
  <1>4. ASSUME NEW e \in Event, ImpressionArrives(e)
        PROVE  Goal
    <2>1. /\ UNCHANGED <<forwarded, valve, conversions>> /\ pendingClick' = None
          /\ clicks' = IF pendingClick = None THEN clicks
                       ELSE Append(clicks, Enriched(pendingClick, impression'))
      BY <1>4 DEF ImpressionArrives
    <2>2. ASSUME pendingClick # None
          PROVE  Orderly(Append(clicks, Enriched(pendingClick, impression')), progress["clicks"])
      <3>1. pendingClick.time + Wait \in Nat
        BY <2>2, EventFacts, RulesAssumption DEF Held, ArrivedOf, Arrived
      <3> QED
        BY <2>2, <3>1, SentItems, ClickSent DEF Prompt
    <2>3. Orderly(clicks', progress["clicks"])
      BY <2>1, <2>2 DEF Prompt
    <2> QED
      BY <1>1, <2>1, <2>3 DEF Prompt
  <1>5. ASSUME NEW e \in Event, ClickPasses(e)
        PROVE  Goal
    <2>1. /\ UNCHANGED <<forwarded, valve, conversions, pendingClick>>
          /\ clicks' = Append(clicks, Enriched(e, impression))
      BY <1>5 DEF ClickPasses, exposure
    <2>2. Orderly(clicks', progress["clicks"])
      BY <1>5, <2>1, ArrivesOnTime, SentItems, ClickSent DEF ClickPasses
    <2> QED
      BY <1>1, <2>1, <2>2 DEF Prompt
  <1>6. ASSUME NEW e \in Event, ClickWaits(e)
        PROVE  Goal
    <2>1. /\ UNCHANGED <<forwarded, valve, channels>> /\ Arrives(e)
          /\ pendingClick' = IF pendingClick = None THEN e ELSE pendingClick
      BY <1>6 DEF ClickWaits
    <2>2. forwarded < e.time + Wait
      BY <2>1, ArrivesOnTime
    <2> QED
      BY <1>1, <2>1, <2>2 DEF Prompt, channels
  <1>7. ASSUME NEW e \in Event, ConversionArrives(e)
        PROVE  Goal
    <2>1. UNCHANGED <<forwarded, valve, clicks, pendingClick>> /\ conversions' = Append(conversions, e)
      BY <1>7 DEF ConversionArrives, exposure
    <2>2. Orderly(conversions', progress["conversions"])
      BY <1>7, <2>1, ArrivesOnTime, SentItems, ConversionSent DEF ConversionArrives
    <2> QED
      BY <1>1, <2>1, <2>2 DEF Prompt
  <1>8. ASSUME NEW t \in 1..MaxTime, WatermarkAdvances(t)
        PROVE  Goal
    <2>1. /\ UNCHANGED <<forwarded, valve, clicks, pendingClick>> /\ watermark < t
          /\ conversions' = Append(conversions, Mark(t))
      BY <1>8 DEF WatermarkAdvances, exposure
    <2>2. Until(Mark(t)) = t + 1 /\ t # 0 /\ t \in Nat
      BY SentItems
    <2>3. Orderly(conversions', progress["conversions"])
      BY <1>0, <2>1, <2>2, SentItems, ConversionSent
    <2> QED
      BY <1>1, <2>1, <2>3 DEF Prompt
  <1>9. ASSUME NEW t \in exposureTimers, ExposureTimer(t)
        PROVE  Goal
    <2>1. UNCHANGED <<forwarded, valve, conversions>>
      BY <1>9 DEF ExposureTimer
    <2>2. CASE pendingClick # None /\ pendingClick.time + Wait <= t
      <3>1. clicks' = Append(clicks, Enriched(pendingClick, None)) /\ pendingClick' = None
        BY <1>9, <2>2 DEF ExposureTimer
      <3>2. pendingClick.time + Wait \in Nat
        BY <2>2, EventFacts, RulesAssumption DEF Held, ArrivedOf, Arrived
      <3>3. Orderly(clicks', progress["clicks"])
        BY <2>2, <3>1, <3>2, SentItems, ClickSent DEF Prompt
      <3> QED
        BY <1>1, <2>1, <3>1, <3>3 DEF Prompt
    <2>3. CASE ~(pendingClick # None /\ pendingClick.time + Wait <= t)
      BY <1>2, <1>9, <2>1, <2>3 DEF ExposureTimer, channels
    <2> QED
      BY <2>2, <2>3
  <1>10. CASE WatermarkForwarded
    <2>1. /\ UNCHANGED <<valve, conversions, pendingClick>> /\ forwarded < watermark /\ forwarded' = watermark
          /\ clicks' = Append(clicks, Mark(watermark)) /\ ~Due(exposureTimers, watermark)
      BY <1>10 DEF WatermarkForwarded, exposure
    <2>2. watermark # 0 /\ Until(Mark(watermark)) = watermark + 1
      BY <1>0, <2>1, SentItems
    <2>3. Orderly(clicks', progress["clicks"])
      BY <1>0, <2>1, <2>2, SentItems, ClickSent
    <2>4. ASSUME pendingClick # None
          PROVE  watermark < pendingClick.time + Wait
      <3>1. pendingClick.time + Wait \in exposureTimers /\ pendingClick.time + Wait \in Nat
        BY <2>4 DEF TimersKept, Held
      <3> QED
        BY <1>0, <2>1, <3>1 DEF Due
    <2> QED
      BY <1>0, <2>1, <2>3, <2>4 DEF Prompt, valve, Orderly
  <1>11. CASE SourceIdles
    <2>1. idles' = idles + 1 /\ idles' = 0
      BY <1>11 DEF SourceIdles, OnTime
    <2> QED
      BY <2>1 DEF Counted
  <1>12. CASE ClickMark
    <2> DEFINE mark == Head(clicks).mark
    <2>1. /\ Takes(clicks) /\ IsMark(Head(clicks)) /\ Hears("clicks", mark) /\ clicks' = Tail(clicks)
          /\ UNCHANGED <<forwarded, conversions, pendingClick>> /\ "clicks" \in Channel
      BY <1>12 DEF ClickMark, exposure, Channel
    <2>2. mark \in 0..watermark /\ mark # 0 /\ progress["clicks"] <= mark /\ Orderly(clicks', mark)
      BY <2>1, ClickTaken
    <2> HIDE DEF mark
    <2>3. /\ active' = Channel /\ progress' = [progress EXCEPT !["clicks"] = mark]
          /\ current <= current' /\ \A c \in Channel : current' <= progress'[c]
      BY <2>1, <2>2, ValveTakesLeast DEF Prompt
    <2>4. progress'["clicks"] = mark /\ progress'["conversions"] = progress["conversions"]
      BY <2>3 DEF Clocks, Channel
    <2>5. Orderly(clicks, progress["clicks"])' /\ Orderly(conversions, progress["conversions"])'
      BY <2>1, <2>2, <2>4 DEF Prompt, Orderly
    <2> QED
      BY <2>1, <2>3, <2>5 DEF Prompt
  <1>13. CASE ConversionMark
    <2> DEFINE mark == Head(conversions).mark
    <2>1. /\ Takes(conversions) /\ IsMark(Head(conversions)) /\ Hears("conversions", mark)
          /\ conversions' = Tail(conversions)
          /\ UNCHANGED <<forwarded, clicks, pendingClick>> /\ "conversions" \in Channel
      BY <1>13 DEF ConversionMark, exposure, Channel
    <2>2. /\ mark \in 0..watermark /\ mark # 0 /\ progress["conversions"] <= mark
          /\ Orderly(conversions', mark)
      BY <2>1, ConversionTaken
    <2> HIDE DEF mark
    <2>3. /\ active' = Channel /\ progress' = [progress EXCEPT !["conversions"] = mark]
          /\ current <= current' /\ \A c \in Channel : current' <= progress'[c]
      BY <2>1, <2>2, ValveTakesLeast DEF Prompt
    <2>4. progress'["conversions"] = mark /\ progress'["clicks"] = progress["clicks"]
      BY <2>3 DEF Clocks, Channel
    <2>5. Orderly(clicks, progress["clicks"])' /\ Orderly(conversions, progress["conversions"])'
      BY <2>1, <2>2, <2>4 DEF Prompt, Orderly
    <2> QED
      BY <2>1, <2>3, <2>5 DEF Prompt
  <1>14. CASE ClickJoins \/ LateClick
    <2>1. /\ UNCHANGED <<forwarded, valve, conversions, pendingClick>>
          /\ Takes(clicks) /\ ~IsMark(Head(clicks)) /\ clicks' = Tail(clicks)
      BY <1>14 DEF ClickJoins, LateClick, exposure
    <2>2. Orderly(clicks', progress["clicks"])
      BY <2>1, ClickTaken
    <2> QED
      BY <1>1, <2>1, <2>2 DEF Prompt
  <1>15. CASE ConversionJoins \/ ConversionWaits \/ LateConversion
    <2>1. /\ UNCHANGED <<forwarded, valve, clicks, pendingClick>>
          /\ Takes(conversions) /\ ~IsMark(Head(conversions)) /\ conversions' = Tail(conversions)
      BY <1>15 DEF ConversionJoins, ConversionWaits, LateConversion, exposure
    <2>2. Orderly(conversions', progress["conversions"])
      BY <2>1, ConversionTaken
    <2> QED
      BY <1>1, <2>1, <2>2 DEF Prompt
  <1>16. ASSUME NEW t \in conversionTimers, ConversionTimer(t)
         PROVE  Goal
    BY <1>2, <1>16 DEF ConversionTimer, exposure
  <1>17. CASE UNCHANGED vars
    BY <1>2, <1>17 DEF vars, exposure
  <1> QED
    BY <1>3, <1>4, <1>5, <1>6, <1>7, <1>8, <1>9, <1>10, <1>11, <1>12, <1>13, <1>14, <1>15, <1>16, <1>17
       DEF Next, ExposureStep, ConversionStep

-----------------------------------------------------------------------------
(* What the oracle says of the events so far.                              *)

OnlyImpression == Oracle!TheEvent(Arrived, "impression")
OnlyClick      == Oracle!TheEvent(Arrived, "click")
Joined         == Oracle!JoinedImpression(Arrived)
JoinedClick    == [event |-> OnlyClick, impression |-> Joined]

(* Conversions that the oracle matches.                                    *)
Matched(v) == ~Oracle!Unlinked(OnlyClick, v)

(* What the joins have to count for an event when c is the click.          *)
Metrics(c, e) ==
    CASE e.type = "impression" -> ImpressionMetrics(e)
      [] e.type = "click"      -> ClickMetrics(c)
      [] OTHER -> ConversionMetrics(e, c, IF Oracle!Unlinked(c.event, e) THEN "CLICK_NOT_FOUND" ELSE "MATCHED")

Truth(e) == Metrics(JoinedClick, e)

Decided(v) == associations[v.key] # None /\ associations[v.key].status # "pending"

(* Clicks go on with the impression of the oracle.                         *)
Enriching ==
    /\ pendingClick # None => Joined = None
    /\ OnlyImpression # None => impression = OnlyImpression \/ OnlyImpression.time + Retention <= watermark
    /\ \A x \in Events(clicks) : x.impression = Joined
    /\ click # None => click.impression = Joined

(* Nothing is decided while an event on time could still change it.        *)
Early ==
    \/ OnlyClick = None
    \/ OnlyImpression = None /\ watermark < OnlyClick.time + Wait

Patient ==
    /\ Early => /\ Events(clicks) = {} /\ click = None
                /\ \A u \in contributions : u.counter \in {"impressions", "unmatched_conversions"}
    /\ OnlyClick = None =>
         /\ \A u \in contributions : u.counter = "unmatched_conversions" => u.time + Wait <= watermark
         /\ \A v \in ArrivedOf("conversion") : Decided(v) => v.time + Wait <= watermark

(* What arrived is counted, or on its way.                                 *)
Accounted ==
    /\ OnlyImpression # None => Truth(OnlyImpression) \subseteq contributions
    /\ click # None => Truth(OnlyClick) \subseteq contributions
    /\ OnlyClick # None =>
         \/ pendingClick # None \/ Events(clicks) # {}
         \/ /\ Truth(OnlyClick) \subseteq contributions
            /\ click # None \/ OnlyClick.time + Retention <= current
    /\ \A v \in ArrivedOf("conversion") :
         v \in Events(conversions) \/ v \in waiting
           \/ (associations[v.key] # None /\ Truth(v) \subseteq contributions)

(* What waits for a click that has passed would not match it.              *)
WaitsInVain ==
    OnlyClick # None /\ pendingClick = None /\ Events(clicks) = {} =>
        \A v \in waiting : Oracle!Unlinked(OnlyClick, v)

(* What is counted and decided is right.                                   *)
RightSoFar ==
    /\ \A u \in contributions : \E e \in Arrived : u \in Truth(e)
    /\ \A v \in ArrivedOf("conversion") :
         Decided(v) => associations[v.key].status = IF Matched(v) THEN "matched" ELSE "unmatched"
    /\ \A k \in ConversionKey : associations[k] # None => \E v \in ArrivedOf("conversion") : v.key = k

Agreeing == Enriching /\ Patient /\ Accounted /\ WaitsInVain /\ RightSoFar

(* One impression and one click at most have arrived.                      *)
LEMMA OnlyEvents ==
    ASSUME Counted
    PROVE  /\ \A e \in ArrivedOf("impression") : e = OnlyImpression
           /\ \A e \in ArrivedOf("click") : e = OnlyClick
           /\ OnlyImpression # None => OnlyImpression \in ArrivedOf("impression")
           /\ OnlyClick # None => OnlyClick \in ArrivedOf("click")
           /\ \A type : \A e \in ArrivedOf(type) : e \in Event /\ e \in Arrived /\ e.type = type /\ e # None
  <1>1. \A type : \A e \in ArrivedOf(type) : e \in Event /\ e \in Arrived /\ e.type = type /\ e # None
    BY EventFacts DEF ArrivedOf, Arrived
  <1>2. ASSUME NEW type \in {"impression", "click"}
        PROVE  /\ \A e \in ArrivedOf(type) : e = Oracle!TheEvent(Arrived, type)
               /\ Oracle!TheEvent(Arrived, type) # None => Oracle!TheEvent(Arrived, type) \in ArrivedOf(type)
    <2>1. Oracle!TheEvent(Arrived, type) = IF ArrivedOf(type) = {} THEN None ELSE CHOOSE e \in ArrivedOf(type) : TRUE
      BY DEF Oracle!TheEvent, ArrivedOf
    <2>2. \A e, f \in ArrivedOf(type) : e = f
      BY <1>1, <1>2, KeyAssumption DEF Counted
    <2> QED
      BY <2>1, <2>2
  <1> QED
    BY <1>1, <1>2 DEF OnlyImpression, OnlyClick

(* The oracle's answers, as said here.                                     *)
LEMMA OracleFacts ==
    /\ Joined = IF OnlyClick = None \/ Oracle!Unlinked(OnlyImpression, OnlyClick) THEN None ELSE OnlyImpression
    /\ Joined' = IF OnlyClick' = None \/ Oracle!Unlinked(OnlyImpression', OnlyClick') THEN None ELSE OnlyImpression'
    /\ \A v : Oracle!IsMatched(Arrived, v) <=> Matched(v)
    /\ \A c : Oracle!Unlinked(None, c)
    /\ Arrived' = Arrived => /\ OnlyImpression' = OnlyImpression /\ OnlyClick' = OnlyClick
                            /\ \A type : ArrivedOf(type)' = ArrivedOf(type)
  BY DEF Joined, Matched, OnlyClick, OnlyImpression, Oracle!JoinedImpression, Oracle!IsMatched, Oracle!Unlinked, ArrivedOf

(* The oracle's answers depend on the impression and the click only.       *)
LEMMA OracleStays ==
    ASSUME OnlyImpression' = OnlyImpression, OnlyClick' = OnlyClick
    PROVE  /\ Joined' = Joined /\ \A v : (Matched(v)' <=> Matched(v)) /\ Truth(v)' = Truth(v)
           /\ Truth(OnlyClick)' = Truth(OnlyClick) /\ Truth(OnlyImpression)' = Truth(OnlyImpression)
  <1>1. Joined' = Joined
    BY DEF Joined, OnlyClick, OnlyImpression, Oracle!JoinedImpression
  <1>2. JoinedClick' = JoinedClick
    BY <1>1 DEF JoinedClick
  <1> QED
    BY <1>1, <1>2 DEF Matched, Truth

(* Nor do they change while nothing arrives.                               *)
LEMMA NothingArrives ==
    ASSUME UNCHANGED arrivals
    PROVE  /\ Arrived' = Arrived /\ OnlyImpression' = OnlyImpression /\ OnlyClick' = OnlyClick /\ Joined' = Joined
           /\ \A type : ArrivedOf(type)' = ArrivedOf(type)
           /\ \A v : (Matched(v)' <=> Matched(v)) /\ Truth(v)' = Truth(v)
           /\ Truth(OnlyClick)' = Truth(OnlyClick) /\ Truth(OnlyImpression)' = Truth(OnlyImpression)
  <1>1. Arrived' = Arrived
    BY DEF Arrived
  <1>2. OnlyImpression' = OnlyImpression /\ OnlyClick' = OnlyClick /\ \A type : ArrivedOf(type)' = ArrivedOf(type)
    BY <1>1, OracleFacts
  <1> QED
    BY <1>1, <1>2, OracleStays

(* Times of events that the oracle relates.                                *)
LEMMA TooEarly ==
    ASSUME NEW e \in Event, NEW f \in Event, f.time < e.time
    PROVE  Oracle!Unlinked(e, f)
  BY EventFacts DEF Oracle!Unlinked

(* An event past its retention is out of the reach of one still in time.   *)
LEMMA TooLate ==
    ASSUME NEW e \in Event, NEW f \in Event, NEW t \in Nat, e.time + Retention <= t, t < f.time + Wait
    PROVE  Oracle!Unlinked(e, f)
  <1>1. f.time - e.time > Attribution
    BY EventFacts, RulesAssumption
  <1> QED
    BY <1>1 DEF Oracle!Unlinked

(* The joins' reasons are the oracle's.                                    *)
LEMMA SameLink ==
    ASSUME NEW c \in Event, NEW i \in Event \cup {None}
    PROVE  Enriched(c, i).impression = IF Oracle!Unlinked(i, c) THEN None ELSE i
  <1>1. i # None => i.time \in Nat
    BY EventFacts
  <1>2. c.time \in Nat
    BY EventFacts
  <1>3. (ExposureReason(i, c) = "OK") <=> ~Oracle!Unlinked(i, c)
    BY <1>1, <1>2, RulesAssumption DEF ExposureReason, Oracle!Unlinked
  <1> QED
    BY <1>3 DEF Enriched

(* The same for a conversion and the click.                                *)
LEMMA SameMatch ==
    ASSUME Counted, NEW c, c.event = OnlyClick, OnlyClick # None, NEW v \in ArrivedOf("conversion"), c # None
    PROVE  /\ (ConversionReason(c, v) = "MATCHED") <=> Matched(v)
           /\ Association(ConversionReason(c, v)).status = IF Matched(v) THEN "matched" ELSE "unmatched"
  <1>1. c.event \in Event /\ v \in Event
    BY OnlyEvents
  <1>2. c.event.time \in Nat /\ v.time \in Nat /\ c.event # None
    BY <1>1, EventFacts
  <1>3. (ConversionReason(c, v) = "MATCHED") <=> ~Oracle!Unlinked(c.event, v)
    BY <1>2, RulesAssumption DEF ConversionReason, Oracle!Unlinked
  <1>4. ConversionReason(c, v) \in ConversionReasons
    BY DEF ConversionReason, ConversionReasons
  <1>5. (ConversionReason(c, v) = "MATCHED") <=> Matched(v)
    BY <1>3 DEF Matched
  <1> HIDE DEF ConversionReason
  <1>6. Association(ConversionReason(c, v)).status = IF ConversionReason(c, v) = "MATCHED" THEN "matched" ELSE "unmatched"
    BY <1>4 DEF Association, ConversionReasons
  <1> QED
    BY <1>5, <1>6

(* What the joins count of a click and its conversions is the truth.       *)
LEMMA TrueMetrics ==
    ASSUME Counted, NEW c, c # None, c.event = OnlyClick, OnlyClick # None, c.impression = Joined
    PROVE  /\ ClickMetrics(c) = Truth(OnlyClick)
           /\ \A v \in ArrivedOf("conversion") : ConversionMetrics(v, c, ConversionReason(c, v)) = Truth(v)
  <1>1. OnlyClick.type = "click" /\ \A v \in ArrivedOf("conversion") : v.type = "conversion"
    BY OnlyEvents
  <1>2. ClickMetrics(c) = Truth(OnlyClick)
    BY <1>1 DEF Truth, Metrics, ClickMetrics, JoinedClick
  <1>3. ASSUME NEW v \in ArrivedOf("conversion")
        PROVE  ConversionMetrics(v, c, ConversionReason(c, v)) = Truth(v)
    <2>1. (ConversionReason(c, v) = "MATCHED") <=> Matched(v)
      BY SameMatch
    <2> HIDE DEF ConversionReason
    <2>2. Truth(v) = ConversionMetrics(v, JoinedClick, IF Matched(v) THEN "MATCHED" ELSE "CLICK_NOT_FOUND")
      BY <1>1 DEF Truth, Metrics, Matched, JoinedClick
    <2> QED
      BY <2>1, <2>2 DEF ConversionMetrics, JoinedClick
  <1> QED
    BY <1>2, <1>3

(* What a conversion without its click counts for.                         *)
Missed(v) == Contribution(v, None, v.time, "occurrence", "unmatched_conversions")

(* What counters stand for which events.                                   *)
LEMMA TrueCounters ==
    ASSUME NEW c, NEW e \in Event
    PROVE  /\ e.type = "impression" => Metrics(c, e) = ImpressionMetrics(e) /\ \A u \in Metrics(c, e) : u.counter = "impressions"
           /\ e.type = "click" => (\A u \in Metrics(c, e) : u.counter = "clicks") /\ Metrics(c, e) # {}
           /\ e.type = "conversion" =>
                IF ~Oracle!Unlinked(c.event, e)
                  THEN /\ Metrics(c, e) # {}
                       /\ \A u \in Metrics(c, e) : u.counter \in {"matched_conversions", "converted_clicks", "value_minor"}
                ELSE Metrics(c, e) = {Missed(e)}
           /\ Missed(e).counter = "unmatched_conversions" /\ Missed(e).time = e.time
  <1>1. \A f, i, time, cohort, counter : /\ Contribution(f, i, time, cohort, counter).counter = counter
                                         /\ Contribution(f, i, time, cohort, counter).time = time
    BY DEF Contribution
  <1>2. e.type = "impression" => Metrics(c, e) = ImpressionMetrics(e) /\ \A u \in Metrics(c, e) : u.counter = "impressions"
    BY <1>1 DEF Metrics, ImpressionMetrics
  <1>3. ASSUME e.type = "click"
        PROVE  (\A u \in Metrics(c, e) : u.counter = "clicks") /\ Metrics(c, e) # {}
    <2>1. Metrics(c, e) = ClickMetrics(c)
      BY <1>3 DEF Metrics
    <2> HIDE DEF Contribution
    <2> QED
      BY <1>1, <2>1 DEF ClickMetrics
  <1>4. ASSUME e.type = "conversion"
        PROVE  IF ~Oracle!Unlinked(c.event, e)
                  THEN /\ Metrics(c, e) # {}
                       /\ \A u \in Metrics(c, e) : u.counter \in {"matched_conversions", "converted_clicks", "value_minor"}
               ELSE Metrics(c, e) = {Missed(e)}
    <2>1. Metrics(c, e) = ConversionMetrics(e, c, IF Oracle!Unlinked(c.event, e) THEN "CLICK_NOT_FOUND" ELSE "MATCHED")
      BY <1>4 DEF Metrics
    <2>2. CASE ~Oracle!Unlinked(c.event, e)
      BY <1>1, <2>1, <2>2 DEF ConversionMetrics
    <2>3. CASE Oracle!Unlinked(c.event, e)
      BY <2>1, <2>3 DEF ConversionMetrics, Missed
    <2> QED
      BY <2>2, <2>3
  <1> QED
    BY <1>1, <1>2, <1>3, <1>4 DEF Missed

-----------------------------------------------------------------------------
(* What steps do to what is carried and known.                             *)

(* An item more.                                                           *)
LEMMA EventsAppend ==
    ASSUME NEW S, NEW s \in Seq(S), NEW item
    PROVE  Events(Append(s, item)) = IF IsMark(item) THEN Events(s) ELSE Events(s) \cup {item}
  <1> DEFINE longer == Append(s, item)
  <1>1. Len(longer) = Len(s) + 1 /\ Len(s) \in Nat /\ longer[Len(s) + 1] = item
    OBVIOUS
  <1>2. \A n \in 1..Len(s) : longer[n] = s[n]
    OBVIOUS
  <1> HIDE DEF longer
  <1>3. \A n \in 1..Len(longer) : n \in 1..Len(s) \/ n = Len(s) + 1
    BY <1>1
  <1>4. \A n \in 1..Len(s) : n \in 1..Len(longer)
    BY <1>1
  <1>5. Len(s) + 1 \in 1..Len(longer)
    BY <1>1
  <1>6. \A x : x \in Events(longer) <=> \E n \in 1..Len(longer) : ~IsMark(longer[n]) /\ x = longer[n]
    BY DEF Events
  <1>7. \A x : x \in Events(s) <=> \E n \in 1..Len(s) : ~IsMark(s[n]) /\ x = s[n]
    BY DEF Events
  <1>8. \A x : x \in Events(longer) <=> (x \in Events(s) \/ (~IsMark(item) /\ x = item))
    BY <1>1, <1>2, <1>3, <1>4, <1>5, <1>6, <1>7
  <1> QED
    BY <1>8 DEF longer

(* An item less.                                                           *)
LEMMA EventsTail ==
    ASSUME NEW S, NEW s \in Seq(S), s # <<>>
    PROVE  Events(s) = IF IsMark(Head(s)) THEN Events(Tail(s)) ELSE Events(Tail(s)) \cup {Head(s)}
  <1>1. /\ Head(s) = s[1] /\ Len(Tail(s)) = Len(s) - 1 /\ Len(s) \in Nat \ {0}
        /\ \A n \in 1..Len(Tail(s)) : Tail(s)[n] = s[n + 1]
    BY HeadAndTail
  <1> DEFINE rest == Tail(s)
  <1> HIDE DEF rest
  <1>3. \A n \in 1..Len(s) : n = 1 \/ (n - 1 \in 1..Len(rest) /\ rest[n - 1] = s[n])
    BY <1>1 DEF rest
  <1>4. \A n \in 1..Len(rest) : n + 1 \in 1..Len(s) /\ rest[n] = s[n + 1]
    BY <1>1 DEF rest
  <1>5. 1 \in 1..Len(s)
    BY <1>1
  <1>6. \A x : x \in Events(rest) <=> \E n \in 1..Len(rest) : ~IsMark(rest[n]) /\ x = rest[n]
    BY DEF Events
  <1>7. \A x : x \in Events(s) <=> \E n \in 1..Len(s) : ~IsMark(s[n]) /\ x = s[n]
    BY DEF Events
  <1>8. \A x : x \in Events(s) <=> (x \in Events(rest) \/ (~IsMark(Head(s)) /\ x = Head(s)))
    BY <1>1, <1>3, <1>4, <1>5, <1>6, <1>7
  <1> QED
    BY <1>8 DEF rest

(* What is held is the one impression and the one click.                   *)
LEMMA HeldOnly ==
    ASSUME Counted, Clocks, Held
    PROVE  /\ impression # None => impression = OnlyImpression /\ impression \in Event
           /\ pendingClick # None => pendingClick = OnlyClick
           /\ \A x \in Events(clicks) : x.event = OnlyClick /\ OnlyClick # None /\ x # None
           /\ Events(conversions) \subseteq ArrivedOf("conversion")
           /\ click # None => click.event = OnlyClick /\ OnlyClick # None
           /\ waiting \subseteq ArrivedOf("conversion")
  <1>1. \A x \in Events(clicks) : x.event \in ArrivedOf("click") /\ x # None
    <2> SUFFICES ASSUME NEW n \in 1..Len(clicks), ~IsMark(clicks[n])
                 PROVE  clicks[n].event \in ArrivedOf("click") /\ clicks[n] # None
      BY DEF Events
    <2>1. clicks[n] \in [event : ArrivedOf("click"), reason : ExposureReasons, impression : Event \cup {None}]
      BY ItemFacts DEF Held
    <2>2. ArrivedOf("click") \subseteq Event
      BY OnlyEvents
    <2>3. clicks[n] \in [event : Event, reason : ExposureReasons, impression : Event \cup {None}]
      BY <2>1, <2>2
    <2> QED
      BY <2>1, <2>3, NoneAssumption
  <1>2. Events(conversions) \subseteq ArrivedOf("conversion")
    BY Carried DEF Events
  <1>3. click # None => click.event \in ArrivedOf("click")
    BY ItemFacts DEF Held
  <1>4. impression # None => impression \in ArrivedOf("impression")
    BY DEF Held
  <1>5. pendingClick # None => pendingClick \in ArrivedOf("click")
    BY DEF Held
  <1> QED
    BY <1>1, <1>2, <1>3, <1>4, <1>5, OnlyEvents DEF Held

(* What an arrival tells the oracle.                                       *)
LEMMA ArrivalTells ==
    ASSUME Counted, NEW e \in Event, Arrives(e)
    PROVE  /\ Counted' /\ Arrived' = Arrived \cup {e} /\ Arrived \subseteq Arrived'
           /\ \A type : ArrivedOf(type)' = IF type = e.type THEN ArrivedOf(type) \cup {e} ELSE ArrivedOf(type)
           /\ e.type # "click" => OnlyClick' = OnlyClick
           /\ e.type # "impression" => OnlyImpression' = OnlyImpression
           /\ e.type = "click" => OnlyClick' = e /\ (OnlyClick # None => OnlyClick = e)
           /\ e.type = "impression" => OnlyImpression' = e /\ (OnlyImpression # None => OnlyImpression = e)
  <1>1. Counted' /\ Arrived' = Arrived \cup {e} /\ Arrived \subseteq Arrived'
    BY ArrivalStep
  <1>2. \A type : ArrivedOf(type)' = IF type = e.type THEN ArrivedOf(type) \cup {e} ELSE ArrivedOf(type)
    BY <1>1 DEF ArrivedOf
  <1>4. \A type : ArrivedOf(type)' = {f \in Arrived' : f.type = type}
    BY DEF ArrivedOf
  <1>5. e.type # "click" => OnlyClick' = OnlyClick
    <2> SUFFICES ASSUME e.type # "click" PROVE OnlyClick' = OnlyClick
      OBVIOUS
    <2>1. {f \in Arrived' : f.type = "click"} = {f \in Arrived : f.type = "click"}
      BY <1>1
    <2> DEFINE The(found) == IF found = {} THEN None ELSE CHOOSE f \in found : TRUE
    <2>2. /\ OnlyClick = The({f \in Arrived : f.type = "click"})
          /\ OnlyClick' = The({f \in Arrived' : f.type = "click"})
      BY DEF OnlyClick, Oracle!TheEvent
    <2> HIDE DEF The
    <2> QED
      BY <2>1, <2>2
  <1>6. e.type # "impression" => OnlyImpression' = OnlyImpression
    <2> SUFFICES ASSUME e.type # "impression" PROVE OnlyImpression' = OnlyImpression
      OBVIOUS
    <2>1. {f \in Arrived' : f.type = "impression"} = {f \in Arrived : f.type = "impression"}
      BY <1>1
    <2> DEFINE The(found) == IF found = {} THEN None ELSE CHOOSE f \in found : TRUE
    <2>2. /\ OnlyImpression = The({f \in Arrived : f.type = "impression"})
          /\ OnlyImpression' = The({f \in Arrived' : f.type = "impression"})
      BY DEF OnlyImpression, Oracle!TheEvent
    <2> HIDE DEF The
    <2> QED
      BY <2>1, <2>2
  <1>7. \A f \in ArrivedOf("click") \cup ArrivedOf("impression") : f.type = e.type => f = e
    <2>1. \A f \in Arrived : f.key = e.key => f = e
      BY DEF Arrives
    <2> QED
      BY <2>1, KeyAssumption, OnlyEvents
  <1>8. e.type = "click" => OnlyClick' = e /\ (OnlyClick # None => OnlyClick = e)
    <2>1. e.type = "click" => {f \in Arrived' : f.type = "click"} = {e}
      BY <1>2, <1>4, <1>7, OnlyEvents
    <2> QED
      BY <1>7, <2>1, OnlyEvents DEF OnlyClick, Oracle!TheEvent
  <1>9. e.type = "impression" => OnlyImpression' = e /\ (OnlyImpression # None => OnlyImpression = e)
    <2>1. e.type = "impression" => {f \in Arrived' : f.type = "impression"} = {e}
      BY <1>2, <1>4, <1>7, OnlyEvents
    <2> QED
      BY <1>7, <2>1, OnlyEvents DEF OnlyImpression, Oracle!TheEvent
  <1> QED
    BY <1>1, <1>2, <1>5, <1>6, <1>8, <1>9

-----------------------------------------------------------------------------
(* Agreement is kept.                                                      *)

(* Truths that do not depend on the impression.                            *)
LEMMA TrueForAny ==
    ASSUME OnlyClick' = OnlyClick, NEW x \in Event
    PROVE  /\ Matched(x)' <=> Matched(x)
           /\ Joined' = Joined => Truth(x)' = Truth(x)
           /\ x.type = "impression" => Truth(x)' = Truth(x)
           /\ x.type = "conversion" /\ ~Matched(x) => Truth(x)' = Truth(x)
  <1>1. Matched(x)' <=> Matched(x)
    BY DEF Matched
  <1>2. Joined' = Joined => Truth(x)' = Truth(x)
    BY DEF Truth, JoinedClick
  <1>3. JoinedClick.event = OnlyClick /\ JoinedClick'.event = OnlyClick
    BY DEF JoinedClick
  <1>4. Truth(x) = Metrics(JoinedClick, x) /\ Truth(x)' = Metrics(JoinedClick', x)
    BY DEF Truth
  <1>5. x.type = "impression" => Truth(x)' = Truth(x)
    BY <1>4, TrueCounters
  <1>6. x.type = "conversion" /\ ~Matched(x) => Truth(x)' = Truth(x)
    BY <1>3, <1>4, TrueCounters DEF Matched
  <1> QED
    BY <1>1, <1>2, <1>5, <1>6

(* Time goes on.                                                           *)
LEMMA AgreeingRests ==
    ASSUME Counted, Clocks, Clocks', Agreeing, watermark <= watermark', current <= current',
           UNCHANGED <<arrivals, impression, pendingClick, click, waiting, associations, contributions>>,
           Events(clicks)' = Events(clicks), Events(conversions)' = Events(conversions)
    PROVE  Agreeing'
  <1>1. Arrived' = Arrived
    BY NothingArrives
  <1>2. OnlyImpression' = OnlyImpression /\ OnlyClick' = OnlyClick /\ \A type : ArrivedOf(type)' = ArrivedOf(type)
    BY NothingArrives
  <1>3. /\ Joined' = Joined /\ \A v : (Matched(v)' <=> Matched(v)) /\ Truth(v)' = Truth(v)
        /\ Truth(OnlyClick)' = Truth(OnlyClick) /\ Truth(OnlyImpression)' = Truth(OnlyImpression)
    BY NothingArrives
  <1>4. /\ watermark \in Nat /\ watermark' \in Nat /\ current \in Nat /\ current' \in Nat
        /\ Retention \in Nat /\ Wait \in Nat
    BY BoundAssumption, RulesAssumption DEF Clocks
  <1>5. /\ OnlyImpression # None => OnlyImpression.time \in Nat
        /\ OnlyClick # None => OnlyClick.time \in Nat
        /\ \A v \in ArrivedOf("conversion") : v.time \in Nat
    BY OnlyEvents, EventFacts
  <1>6. \A v : Decided(v)' <=> Decided(v)
    BY DEF Decided
  <1>7. Enriching'
    BY <1>2, <1>3, <1>4, <1>5 DEF Agreeing, Enriching
  <1>8. Patient'
    <2>1. Early' => Early
      BY <1>2, <1>4, <1>5 DEF Early
    <2>2. \A u \in contributions : u.counter = "unmatched_conversions" /\ OnlyClick = None => u.time + Wait <= watermark'
      <3> SUFFICES ASSUME NEW u \in contributions, u.counter = "unmatched_conversions", OnlyClick = None
                   PROVE  u.time + Wait <= watermark'
        OBVIOUS
      <3>1. u.time + Wait <= watermark
        BY DEF Agreeing, Patient
      <3>2. PICK e \in Arrived : u \in Truth(e)
        BY DEF Agreeing, RightSoFar
      <3>3. e \in Event /\ e.type \in {"impression", "click", "conversion"}
        BY EventFacts DEF Arrived
      <3>4. u = Missed(e) /\ u.time = e.time
        BY <3>2, <3>3, TrueCounters DEF Truth
      <3> QED
        BY <1>4, <3>1, <3>3, <3>4, EventFacts
    <2>3. \A v \in ArrivedOf("conversion") : Decided(v) /\ OnlyClick = None => v.time + Wait <= watermark'
      BY <1>4, <1>5 DEF Agreeing, Patient
    <2> QED
      BY <1>2, <1>6, <2>1, <2>2, <2>3 DEF Agreeing, Patient
  <1>9. Accounted'
    BY <1>2, <1>3, <1>4, <1>5 DEF Agreeing, Accounted
  <1>10. WaitsInVain'
    BY <1>2 DEF Agreeing, WaitsInVain
  <1>11. RightSoFar'
    BY <1>1, <1>2, <1>3, <1>6 DEF Agreeing, RightSoFar
  <1> QED
    BY <1>7, <1>8, <1>9, <1>10, <1>11 DEF Agreeing

(* An impression in time comes before anything is decided without it.      *)
LEMMA AgreeingImpression ==
    ASSUME Inv, Agreeing, OnTime', NEW e \in Event, ImpressionArrives(e)
    PROVE  Agreeing'
  <1>0. Counted /\ Clocks /\ Held
    BY DEF Inv
  <1>1. /\ e.type = "impression" /\ Arrives(e) /\ pendingClick' = None
        /\ impression' = IF impression = None THEN e ELSE impression
        /\ contributions' = IF impression = None THEN contributions \cup ImpressionMetrics(e) ELSE contributions
        /\ clicks' = IF pendingClick = None THEN clicks ELSE Append(clicks, Enriched(pendingClick, impression'))
        /\ UNCHANGED <<watermark, conversions, click, waiting, associations, current>>
    BY DEF ImpressionArrives, conversion, valve
  <1>2. watermark < e.time + Wait
    BY <1>0, <1>1, ArrivesOnTime
  <1>3. /\ Arrived' = Arrived \cup {e} /\ OnlyImpression' = e /\ OnlyClick' = OnlyClick
        /\ OnlyImpression # None => OnlyImpression = e
        /\ ArrivedOf("conversion")' = ArrivedOf("conversion")
    BY <1>0, <1>1, ArrivalTells
  <1>4. e # None /\ e.time \in Nat
    BY EventFacts
  <1>5. impression' = e
    BY <1>0, <1>1, <1>3, <1>4, HeldOnly, EventFacts
  <1>6. Truth(e) = ImpressionMetrics(e) /\ Truth(e)' = Truth(e) /\ \A u \in Truth(e) : u.counter = "impressions"
    BY <1>1, <1>3, TrueCounters, TrueForAny DEF Truth
  <1>7. contributions' = contributions \cup Truth(e)
    <2>1. CASE impression = None
      BY <1>1, <1>6, <2>1
    <2>2. CASE impression # None
      <3>1. OnlyImpression = e
        BY <1>0, <1>3, <2>2, HeldOnly
      <3>2. Truth(e) \subseteq contributions
        BY <1>4, <3>1 DEF Agreeing, Accounted
      <3> QED
        BY <1>1, <2>2, <3>2
    <2> QED
      BY <2>1, <2>2
  <1>8. ASSUME Joined' # Joined
        PROVE  Early /\ OnlyClick # None
    <2>1. OnlyImpression = None
      <3>1. OnlyImpression # None => Joined' = Joined
        BY <1>3, OracleStays
      <3> QED
        BY <1>8, <3>1
    <2>2. Joined = None
      BY <2>1, OracleFacts
    <2>3. OnlyClick # None /\ ~Oracle!Unlinked(e, OnlyClick)
      BY <1>3, <1>8, <2>2, OracleFacts
    <2>4. OnlyClick \in Event /\ OnlyClick.time \in Nat
      BY <1>0, <2>3, OnlyEvents, EventFacts
    <2>5. ~(OnlyClick.time < e.time)
      BY <2>3, <2>4, TooEarly
    <2>6. watermark < OnlyClick.time + Wait
      BY <1>0, <1>2, <1>4, <2>4, <2>5, BoundAssumption, RulesAssumption DEF Clocks
    <2> QED
      BY <2>1, <2>3, <2>6 DEF Early
  <1>9. \A x \in Event : Matched(x)' <=> Matched(x)
    BY <1>3, TrueForAny
  <1>10. ASSUME NEW x \in Arrived, NEW u \in contributions, u \in Truth(x)
         PROVE  Truth(x)' = Truth(x)
    <2>1. x \in Event /\ x.type \in {"impression", "click", "conversion"}
      BY EventFacts DEF Arrived
    <2>2. CASE Joined' = Joined
      BY <1>3, <2>1, <2>2, TrueForAny
    <2>3. CASE Joined' # Joined
      <3>1. u.counter \in {"impressions", "unmatched_conversions"}
        BY <1>8, <2>3 DEF Agreeing, Patient
      <3>2. x.type # "click" /\ (x.type = "conversion" => ~Matched(x))
        BY <1>10, <2>1, <3>1, TrueCounters DEF Truth, Matched, JoinedClick
      <3> QED
        BY <1>3, <2>1, <3>2, TrueForAny
    <2> QED
      BY <2>2, <2>3
  <1>11. ASSUME NEW x \in Arrived, x.type # "impression", Truth(x) \subseteq contributions
         PROVE  Truth(x)' = Truth(x)
    <2>1. x \in Event /\ x.type \in {"click", "conversion"}
      BY <1>11, EventFacts DEF Arrived
    <2>2. Truth(x) # {}
      BY <2>1, TrueCounters DEF Truth
    <2> QED
      BY <1>10, <1>11, <2>2
  <1>12. Events(conversions)' = Events(conversions)
    BY <1>1 DEF Events
  <1>13. Events(clicks)' = IF pendingClick = None THEN Events(clicks)
                           ELSE Events(clicks) \cup {Enriched(pendingClick, e)}
    <2>1. Events(clicks)' = Events(clicks')
      BY DEF Events
    <2> QED
      BY <1>0, <1>1, <1>5, <2>1, EventsAppend, SentItems DEF Held
  <1>14. Enriching'
    <2>1. ASSUME NEW x \in Events(clicks)'
          PROVE  x.impression = Joined'
      <3>1. CASE x \in Events(clicks)
        <4>1. x.impression = Joined
          BY <3>1 DEF Agreeing, Enriching
        <4>2. Joined' = Joined
          BY <1>8, <3>1 DEF Agreeing, Patient
        <4> QED
          BY <4>1, <4>2
      <3>2. CASE x \notin Events(clicks)
        <4>1. pendingClick # None /\ x = Enriched(pendingClick, e) /\ pendingClick = OnlyClick
          BY <1>0, <1>13, <2>1, <3>2, HeldOnly
        <4>2. OnlyClick \in Event
          BY <1>0, <4>1, OnlyEvents
        <4>3. x.impression = IF Oracle!Unlinked(e, OnlyClick) THEN None ELSE e
          BY <4>1, <4>2, SameLink
        <4> QED
          BY <1>3, <4>1, <4>3, OracleFacts
      <3> QED
        BY <3>1, <3>2
    <2>2. click # None => Joined' = Joined
      BY <1>8 DEF Agreeing, Patient
    <2> QED
      BY <1>1, <1>3, <1>5, <2>1, <2>2 DEF Agreeing, Enriching
  <1>15. Patient'
    <2>1. Early' => OnlyClick = None
      BY <1>3, <1>4 DEF Early
    <2>2. OnlyClick = None => pendingClick = None
      BY <1>0, HeldOnly
    <2>3. OnlyClick = None => Early
      BY DEF Early
    <2>4. \A v : Decided(v)' <=> Decided(v)
      BY <1>1 DEF Decided
    <2>5. \A u \in contributions' : u \in contributions \/ u.counter = "impressions"
      BY <1>6, <1>7
    <2> QED
      BY <1>1, <1>3, <1>13, <2>1, <2>2, <2>3, <2>4, <2>5 DEF Agreeing, Patient
  <1>16. Accounted'
    <2>1. Truth(OnlyImpression)' \subseteq contributions'
      BY <1>3, <1>6, <1>7 DEF Truth
    <2>2. OnlyClick # None => OnlyClick \in Arrived /\ OnlyClick.type = "click"
      BY <1>0, OnlyEvents
    <2>3. OnlyClick # None /\ Truth(OnlyClick) \subseteq contributions => Truth(OnlyClick)' \subseteq contributions'
      <3>1. OnlyClick # None /\ Truth(OnlyClick) \subseteq contributions => Truth(OnlyClick)' = Metrics(JoinedClick', OnlyClick)
        BY <1>3 DEF Truth
      <3>2. ASSUME NEW x, Truth(x)' = Truth(x) PROVE Metrics(JoinedClick', x) = Truth(x)
        BY <3>2 DEF Truth
      <3> QED
        BY <1>7, <1>11, <2>2, <3>1, <3>2
    <2>4. click' # None => Truth(OnlyClick)' \subseteq contributions'
      BY <1>0, <1>1, <2>3, HeldOnly DEF Agreeing, Accounted
    <2>5. OnlyClick' # None =>
             \/ pendingClick' # None \/ Events(clicks)' # {}
             \/ /\ Truth(OnlyClick)' \subseteq contributions'
                /\ click' # None \/ OnlyClick'.time + Retention <= current'
      BY <1>1, <1>3, <1>13, <2>3 DEF Agreeing, Accounted
    <2>6. ASSUME NEW v \in ArrivedOf("conversion")
          PROVE  v \in Events(conversions)' \/ v \in waiting'
                   \/ (associations'[v.key] # None /\ Truth(v)' \subseteq contributions')
      BY <1>0, <1>1, <1>7, <1>11, <1>12, OnlyEvents DEF Agreeing, Accounted
    <2> QED
      BY <1>3, <2>1, <2>4, <2>5, <2>6 DEF Accounted
  <1>17. WaitsInVain'
    BY <1>1, <1>3, <1>13 DEF Agreeing, WaitsInVain
  <1>18. RightSoFar'
    <2>1. ASSUME NEW u \in contributions'
          PROVE  \E x \in Arrived' : u \in Truth(x)'
      <3>1. CASE u \in Truth(e)
        BY <1>3, <1>6, <3>1
      <3>2. CASE u \in contributions
        BY <1>3, <1>10, <3>2 DEF Agreeing, RightSoFar
      <3> QED
        BY <1>7, <3>1, <3>2
    <2>2. \A v : Decided(v)' <=> Decided(v)
      BY <1>1 DEF Decided
    <2>3. \A v \in ArrivedOf("conversion") : v \in Event
      BY <1>0, OnlyEvents
    <2> QED
      BY <1>1, <1>3, <1>9, <2>1, <2>2, <2>3 DEF Agreeing, RightSoFar
  <1> QED
    BY <1>14, <1>15, <1>16, <1>17, <1>18 DEF Agreeing

(* A click in time comes before anything is decided without it.            *)
LEMMA ClickInTime ==
    ASSUME Counted, Clocks, Agreeing, OnTime', NEW e \in Event, e.type = "click", Arrives(e)
    PROVE  /\ \A x \in Arrived : (\E u \in contributions : u \in Truth(x)) => Truth(x)' = Truth(x)
           /\ \A v \in ArrivedOf("conversion") :
                /\ Truth(v) \subseteq contributions => Truth(v)' = Truth(v)
                /\ Decided(v) => (Matched(v)' <=> Matched(v))
           /\ OnlyImpression # None => OnlyImpression \in Arrived /\ Truth(OnlyImpression)' = Truth(OnlyImpression)
           /\ OnlyClick # None => Joined' = Joined /\ Truth(OnlyClick)' = Truth(OnlyClick)
  <1>1. /\ Arrived' = Arrived \cup {e} /\ OnlyImpression' = OnlyImpression /\ OnlyClick' = e
        /\ OnlyClick # None => OnlyClick = e
    BY ArrivalTells
  <1>2. watermark < e.time + Wait /\ e.time \in Nat /\ watermark \in Nat /\ Wait \in Nat
    BY ArrivesOnTime, EventFacts, BoundAssumption, RulesAssumption DEF Clocks
  <1>3. \A x \in Arrived : x \in Event /\ x.type \in {"impression", "click", "conversion"} /\ x.time \in Nat
    BY EventFacts DEF Arrived
  <1>4. \A x : Truth(x)' = Metrics(JoinedClick', x) /\ Truth(x) = Metrics(JoinedClick, x)
    BY DEF Truth
  <1>5. CASE OnlyClick # None
    <2>1. OnlyClick' = OnlyClick
      BY <1>1, <1>5
    <2>2. Joined' = Joined /\ \A x : (Matched(x)' <=> Matched(x)) /\ Truth(x)' = Truth(x)
      BY <1>1, <2>1, OracleStays
    <2>4. Truth(OnlyClick)' = Truth(OnlyClick) /\ Truth(OnlyImpression)' = Truth(OnlyImpression)
      BY <1>1, <2>1, OracleStays
    <2> QED
      BY <1>5, <2>2, <2>4, OnlyEvents
  <1>6. CASE OnlyClick = None
    <2>1. \A x \in Arrived : x.type # "click"
      BY <1>6, OnlyEvents DEF ArrivedOf
    <2>2. \A v : ~Matched(v)
      BY <1>6, OracleFacts DEF Matched
    <2>3. ASSUME NEW x \in Arrived, x.type = "impression"
          PROVE  Truth(x)' = Truth(x)
      BY <1>3, <1>4, <2>3, TrueCounters
    <2>4. ASSUME NEW v \in Arrived, v.type = "conversion", v.time + Wait <= watermark
          PROVE  Truth(v)' = Truth(v) /\ ~Matched(v)'
      <3>1. v.time < e.time
        BY <1>2, <1>3, <2>4
      <3>2. Oracle!Unlinked(e, v)
        BY <1>3, <3>1, TooEarly
      <3>3. JoinedClick'.event = e /\ JoinedClick.event = OnlyClick
        BY <1>1 DEF JoinedClick
      <3>4. Oracle!Unlinked(JoinedClick'.event, v) /\ Oracle!Unlinked(JoinedClick.event, v)
        BY <1>6, <3>2, <3>3, OracleFacts
      <3>5. Truth(v)' = {Missed(v)} /\ Truth(v) = {Missed(v)}
        BY <1>3, <1>4, <2>4, <3>4, TrueCounters
      <3> QED
        BY <1>1, <3>2, <3>5 DEF Matched
    <2>5. ASSUME NEW v \in Arrived, v.type = "conversion", Missed(v) \in contributions
          PROVE  v.time + Wait <= watermark
      <3>1. Missed(v).counter = "unmatched_conversions" /\ Missed(v).time = v.time
        BY <1>3, TrueCounters
      <3> QED
        BY <1>6, <2>5, <3>1 DEF Agreeing, Patient
    <2>6. \A v \in Arrived : v.type = "conversion" => Truth(v) = {Missed(v)}
      <3>1. \A v : Oracle!Unlinked(JoinedClick.event, v)
        BY <2>2 DEF JoinedClick, Matched
      <3> QED
        BY <1>3, <1>4, <3>1, TrueCounters
    <2>7. ASSUME NEW x \in Arrived, NEW u \in contributions, u \in Truth(x)
          PROVE  Truth(x)' = Truth(x)
      <3>1. CASE x.type = "impression"
        BY <2>3, <3>1
      <3>2. CASE x.type = "conversion"
        <4>1. u = Missed(x)
          BY <2>6, <2>7, <3>2
        <4> QED
          BY <2>4, <2>5, <2>7, <3>2, <4>1
      <3> QED
        BY <1>3, <2>1, <3>1, <3>2
    <2>8. ASSUME NEW v \in ArrivedOf("conversion")
          PROVE  /\ Truth(v) \subseteq contributions => Truth(v)' = Truth(v)
                 /\ Decided(v) => (Matched(v)' <=> Matched(v))
      <3>1. v \in Arrived /\ v.type = "conversion"
        BY OnlyEvents
      <3>2. Truth(v) \subseteq contributions => Truth(v)' = Truth(v)
        BY <2>4, <2>5, <2>6, <3>1
      <3>3. Decided(v) => v.time + Wait <= watermark
        BY <1>6 DEF Agreeing, Patient
      <3> QED
        BY <2>2, <2>4, <3>1, <3>2, <3>3
    <2>9. OnlyImpression # None => OnlyImpression \in Arrived /\ Truth(OnlyImpression)' = Truth(OnlyImpression)
      <3>1. OnlyImpression # None => OnlyImpression \in Arrived /\ OnlyImpression.type = "impression"
        BY OnlyEvents
      <3>2. Truth(OnlyImpression)' = Metrics(JoinedClick', OnlyImpression)
        BY <1>1 DEF Truth
      <3> QED
        BY <1>4, <2>3, <3>1, <3>2
    <2> QED
      BY <1>6, <2>7, <2>8, <2>9
  <1> QED
    BY <1>5, <1>6

(* A click that meets its impression.                                      *)
LEMMA AgreeingClickPasses ==
    ASSUME Inv, Agreeing, OnTime', NEW e \in Event, ClickPasses(e)
    PROVE  Agreeing'
  <1>0. Counted /\ Clocks /\ Held
    BY DEF Inv
  <1>1. /\ e.type = "click" /\ Arrives(e) /\ clicks' = Append(clicks, Enriched(e, impression))
        /\ impression # None \/ e.time + Wait <= watermark
        /\ UNCHANGED <<watermark, impression, pendingClick, conversions, click, waiting, associations,
                       contributions, current>>
    BY DEF ClickPasses, conversion, valve, exposure, outputs
  <1>2. impression = OnlyImpression /\ impression \in Event /\ impression # None
    BY <1>0, <1>1, ArrivesOnTime, HeldOnly
  <1>3. /\ Arrived' = Arrived \cup {e} /\ OnlyImpression' = OnlyImpression /\ OnlyClick' = e
        /\ OnlyClick # None => OnlyClick = e
        /\ ArrivedOf("conversion")' = ArrivedOf("conversion")
    BY <1>0, <1>1, ArrivalTells
  <1>4. e # None /\ e.time \in Nat
    BY EventFacts
  <1>5. Events(conversions)' = Events(conversions) /\ Events(clicks)' = Events(clicks) \cup {Enriched(e, impression)}
    <2>1. Events(clicks)' = Events(clicks') /\ Events(conversions)' = Events(conversions')
      BY DEF Events
    <2> QED
      BY <1>0, <1>1, <2>1, EventsAppend, SentItems DEF Held
  <1>6. OnlyClick = None => Events(clicks) = {} /\ click = None /\ pendingClick = None
    BY <1>0, HeldOnly DEF Agreeing, Patient, Early
  <1>7. OnlyClick # None => Joined' = Joined
    BY <1>0, <1>1, ClickInTime
  <1>8. Enriching'
    <2>1. Enriched(e, impression).impression = Joined'
      <3>1. Enriched(e, impression).impression = IF Oracle!Unlinked(impression, e) THEN None ELSE impression
        BY <1>2, SameLink
      <3> QED
        BY <1>2, <1>3, <1>4, <3>1, OracleFacts
    <2>2. ASSUME NEW x \in Events(clicks)'
          PROVE  x.impression = Joined'
      BY <1>2, <1>3, <1>5, <1>6, <1>7, <2>1, <2>2 DEF Agreeing, Enriching
    <2> QED
      BY <1>1, <1>2, <1>3, <1>6, <1>7, <2>2 DEF Agreeing, Enriching
  <1>9. Patient'
    BY <1>2, <1>3, <1>4 DEF Patient, Early
  <1>10. Accounted'
    <2>1. Truth(OnlyImpression)' \subseteq contributions'
      BY <1>0, <1>1, <1>2, ClickInTime DEF Agreeing, Accounted
    <2>2. click' # None => Truth(OnlyClick)' \subseteq contributions'
      BY <1>0, <1>1, <1>6, ClickInTime DEF Agreeing, Accounted
    <2>3. ASSUME NEW v \in ArrivedOf("conversion")
          PROVE  v \in Events(conversions)' \/ v \in waiting'
                   \/ (associations'[v.key] # None /\ Truth(v)' \subseteq contributions')
      <3>1. Truth(v) \subseteq contributions => Truth(v)' = Truth(v)
        BY <1>0, <1>1, ClickInTime
      <3> QED
        BY <1>1, <1>5, <3>1 DEF Agreeing, Accounted
    <2>4. Events(clicks)' # {}
      BY <1>5
    <2> QED
      BY <1>3, <2>1, <2>2, <2>3, <2>4 DEF Accounted
  <1>11. WaitsInVain'
    BY <1>5 DEF WaitsInVain
  <1>12. RightSoFar'
    <2>1. ASSUME NEW u \in contributions'
          PROVE  \E x \in Arrived' : u \in Truth(x)'
      <3>1. PICK x \in Arrived : u \in Truth(x)
        BY <1>1 DEF Agreeing, RightSoFar
      <3>2. Truth(x)' = Truth(x)
        BY <1>0, <1>1, <3>1, ClickInTime
      <3> QED
        BY <1>3, <3>1, <3>2
    <2>2. \A v : Decided(v)' <=> Decided(v)
      BY <1>1 DEF Decided
    <2>3. \A v \in ArrivedOf("conversion") : Decided(v) => (Matched(v)' <=> Matched(v))
      BY <1>0, <1>1, ClickInTime
    <2> QED
      BY <1>1, <1>3, <2>1, <2>2, <2>3 DEF Agreeing, RightSoFar
  <1> QED
    BY <1>8, <1>9, <1>10, <1>11, <1>12 DEF Agreeing

(* A click that waits: an impression that was forgotten is out of reach.   *)
LEMMA AgreeingClickWaits ==
    ASSUME Inv, Agreeing, OnTime', NEW e \in Event, ClickWaits(e)
    PROVE  Agreeing'
  <1>0. Counted /\ Clocks /\ Held
    BY DEF Inv
  <1>1. /\ e.type = "click" /\ Arrives(e) /\ impression = None
        /\ pendingClick' = IF pendingClick = None THEN e ELSE pendingClick
        /\ UNCHANGED <<watermark, impression, clicks, conversions, click, waiting, associations,
                       contributions, current>>
    BY DEF ClickWaits, conversion, valve, channels, outputs
  <1>2. watermark < e.time + Wait /\ watermark \in Nat
    BY <1>0, <1>1, ArrivesOnTime, BoundAssumption DEF Clocks
  <1>3. /\ Arrived' = Arrived \cup {e} /\ OnlyImpression' = OnlyImpression /\ OnlyClick' = e
        /\ OnlyClick # None => OnlyClick = e
        /\ ArrivedOf("conversion")' = ArrivedOf("conversion")
    BY <1>0, <1>1, ArrivalTells
  <1>4. e # None /\ e.time \in Nat
    BY EventFacts
  <1>5. Events(conversions)' = Events(conversions) /\ Events(clicks)' = Events(clicks)
    BY <1>1 DEF Events
  <1>6. OnlyClick = None => Early
    BY DEF Early
  <1>7. OnlyImpression # None => Oracle!Unlinked(OnlyImpression, e)
    <2>1. OnlyImpression # None => OnlyImpression \in Event /\ OnlyImpression.time + Retention <= watermark
      BY <1>0, <1>1, OnlyEvents DEF Agreeing, Enriching
    <2> QED
      BY <1>2, <2>1, TooLate
  <1>8. Joined' = None
    BY <1>3, <1>7, OracleFacts
  <1>9. Joined = None
    BY <1>3, <1>7, OracleFacts
  <1>10. pendingClick' # None
    BY <1>1, <1>4
  <1>11. Enriching'
    <2>1. \A x \in Events(clicks) : x.impression = None
      BY <1>3, <1>6, <1>9 DEF Agreeing, Enriching, Patient
    <2> QED
      BY <1>1, <1>3, <1>5, <1>8, <1>9, <2>1 DEF Agreeing, Enriching
  <1>12. Patient'
    <2>1. Early' => Early
      BY <1>1, <1>3, <1>6 DEF Early
    <2> QED
      BY <1>1, <1>3, <1>4, <1>5, <2>1 DEF Agreeing, Patient
  <1>13. Accounted'
    <2>1. OnlyImpression' # None => Truth(OnlyImpression)' \subseteq contributions'
      BY <1>0, <1>1, <1>3, ClickInTime DEF Agreeing, Accounted
    <2>2. click' # None => Truth(OnlyClick)' \subseteq contributions'
      BY <1>0, <1>1, <1>6, ClickInTime DEF Agreeing, Accounted, Patient
    <2>3. ASSUME NEW v \in ArrivedOf("conversion")
          PROVE  v \in Events(conversions)' \/ v \in waiting'
                   \/ (associations'[v.key] # None /\ Truth(v)' \subseteq contributions')
      <3>1. Truth(v) \subseteq contributions => Truth(v)' = Truth(v)
        BY <1>0, <1>1, ClickInTime
      <3> QED
        BY <1>1, <1>5, <3>1 DEF Agreeing, Accounted
    <2> QED
      BY <1>3, <1>10, <2>1, <2>2, <2>3 DEF Accounted
  <1>14. WaitsInVain'
    BY <1>10 DEF WaitsInVain
  <1>15. RightSoFar'
    <2>1. ASSUME NEW u \in contributions'
          PROVE  \E x \in Arrived' : u \in Truth(x)'
      <3>1. PICK x \in Arrived : u \in Truth(x)
        BY <1>1 DEF Agreeing, RightSoFar
      <3>2. Truth(x)' = Truth(x)
        BY <1>0, <1>1, <3>1, ClickInTime
      <3> QED
        BY <1>3, <3>1, <3>2
    <2>2. \A v : Decided(v)' <=> Decided(v)
      BY <1>1 DEF Decided
    <2>3. \A v \in ArrivedOf("conversion") : Decided(v) => (Matched(v)' <=> Matched(v))
      BY <1>0, <1>1, ClickInTime
    <2> QED
      BY <1>1, <1>3, <2>1, <2>2, <2>3 DEF Agreeing, RightSoFar
  <1> QED
    BY <1>11, <1>12, <1>13, <1>14, <1>15 DEF Agreeing

(* One more conversion.                                                    *)
LEMMA AgreeingConversion ==
    ASSUME Inv, Agreeing, OnTime', NEW e \in Event, ConversionArrives(e)
    PROVE  Agreeing'
  <1>0. Counted /\ Clocks /\ Held
    BY DEF Inv
  <1>1. /\ e.type = "conversion" /\ Arrives(e) /\ conversions' = Append(conversions, e)
        /\ UNCHANGED <<watermark, impression, pendingClick, clicks, click, waiting, associations,
                       contributions, current>>
    BY DEF ConversionArrives, conversion, valve, exposure, outputs
  <1>2. /\ Arrived' = Arrived \cup {e} /\ OnlyImpression' = OnlyImpression /\ OnlyClick' = OnlyClick
        /\ ArrivedOf("conversion")' = ArrivedOf("conversion") \cup {e}
    BY <1>0, <1>1, ArrivalTells
  <1>3. Joined' = Joined /\ \A v : (Matched(v)' <=> Matched(v)) /\ Truth(v)' = Truth(v)
    BY <1>2, OracleStays
  <1>4. Events(clicks)' = Events(clicks) /\ Events(conversions)' = Events(conversions) \cup {e}
    <2>1. Events(clicks)' = Events(clicks') /\ Events(conversions)' = Events(conversions')
      BY DEF Events
    <2> QED
      BY <1>0, <1>1, <2>1, EventsAppend, SentItems DEF Held
  <1>5. \A v : Decided(v)' <=> Decided(v)
    BY <1>1 DEF Decided
  <1>6. Decided(e) => e \in ArrivedOf("conversion")
    <2> SUFFICES ASSUME Decided(e) PROVE e \in ArrivedOf("conversion")
      OBVIOUS
    <2>1. e.key \in ConversionKey
      BY <1>1 DEF ConversionKey
    <2>2. PICK v \in ArrivedOf("conversion") : v.key = e.key
      BY <2>1 DEF Decided, Agreeing, RightSoFar
    <2>3. v = e
      BY <1>1, <2>2, OnlyEvents, <1>0 DEF Arrives
    <2> QED
      BY <2>2, <2>3
  <1>7. Truth(OnlyClick)' = Truth(OnlyClick) /\ Truth(OnlyImpression)' = Truth(OnlyImpression)
    BY <1>2, OracleStays
  <1>8. Enriching'
    BY <1>1, <1>2, <1>3, <1>4 DEF Agreeing, Enriching
  <1>9. Patient'
    <2>1. Early' <=> Early
      BY <1>1, <1>2 DEF Early
    <2> QED
      BY <1>1, <1>2, <1>4, <1>5, <1>6, <2>1 DEF Agreeing, Patient
  <1>10. Accounted'
    BY <1>1, <1>2, <1>3, <1>4, <1>7 DEF Agreeing, Accounted
  <1>11. WaitsInVain'
    BY <1>1, <1>2, <1>4 DEF Agreeing, WaitsInVain
  <1>12. RightSoFar'
    BY <1>1, <1>2, <1>3, <1>5, <1>6 DEF Agreeing, RightSoFar
  <1> QED
    BY <1>8, <1>9, <1>10, <1>11, <1>12 DEF Agreeing

(* A click that has waited long enough goes on without an impression.      *)
LEMMA AgreeingExposureTimer ==
    ASSUME Inv, Agreeing, NEW t \in exposureTimers, ExposureTimer(t)
    PROVE  Agreeing'
  <1> DEFINE over == pendingClick # None /\ pendingClick.time + Wait <= t
  <1>0. Counted /\ Clocks /\ Held
    BY DEF Inv
  <1>1. /\ t <= watermark /\ t \in Nat /\ watermark \in Nat
        /\ clicks' = IF over THEN Append(clicks, Enriched(pendingClick, None)) ELSE clicks
        /\ pendingClick' = IF over THEN None ELSE pendingClick
        /\ impression' = IF impression # None /\ impression.time + Retention <= t THEN None ELSE impression
        /\ UNCHANGED <<arrivals, watermark, conversions, click, waiting, associations, contributions, current>>
    BY <1>0, BoundAssumption DEF ExposureTimer, source, conversion, outputs, valve, Held, Clocks
  <1>2. /\ Arrived' = Arrived /\ OnlyImpression' = OnlyImpression /\ OnlyClick' = OnlyClick /\ Joined' = Joined
        /\ \A type : ArrivedOf(type)' = ArrivedOf(type)
    BY <1>1, NothingArrives
  <1>3. /\ \A v : (Matched(v)' <=> Matched(v)) /\ Truth(v)' = Truth(v)
        /\ Truth(OnlyClick)' = Truth(OnlyClick) /\ Truth(OnlyImpression)' = Truth(OnlyImpression)
    BY <1>1, NothingArrives
  <1>4. over => /\ OnlyClick # None /\ pendingClick = OnlyClick /\ ~Early
                /\ Joined = None /\ Enriched(pendingClick, None).impression = None
    <2> SUFFICES ASSUME over
                 PROVE  /\ OnlyClick # None /\ pendingClick = OnlyClick /\ ~Early
                        /\ Joined = None /\ Enriched(pendingClick, None).impression = None
      OBVIOUS
    <2>1. pendingClick = OnlyClick /\ OnlyClick # None
      BY <1>0, HeldOnly
    <2>2. OnlyClick \in Event /\ OnlyClick.time \in Nat
      BY <1>0, <2>1, OnlyEvents, EventFacts
    <2>3. ~Early
      BY <1>1, <2>1, <2>2, RulesAssumption DEF Early
    <2>4. Joined = None
      BY <2>1 DEF Agreeing, Enriching
    <2>5. Enriched(pendingClick, None).impression = None
      BY <2>1, <2>2, SameLink
    <2> QED
      BY <2>1, <2>3, <2>4, <2>5
  <1>5. /\ Events(conversions)' = Events(conversions)
        /\ Events(clicks)' = IF over THEN Events(clicks) \cup {Enriched(pendingClick, None)} ELSE Events(clicks)
    <2>1. Events(clicks)' = Events(clicks') /\ Events(conversions)' = Events(conversions')
      BY DEF Events
    <2> QED
      BY <1>0, <1>1, <2>1, EventsAppend, SentItems DEF Held
  <1> HIDE DEF over
  <1>6. \A v : Decided(v)' <=> Decided(v)
    BY <1>1 DEF Decided
  <1>7. Enriching'
    <2>1. OnlyImpression # None => impression' = OnlyImpression \/ OnlyImpression.time + Retention <= watermark
      <3> SUFFICES ASSUME OnlyImpression # None, impression' # OnlyImpression
                   PROVE  OnlyImpression.time + Retention <= watermark
        OBVIOUS
      <3>1. OnlyImpression.time \in Nat
        BY <1>0, OnlyEvents, EventFacts
      <3>2. CASE impression = OnlyImpression
        BY <1>1, <3>1, <3>2, RulesAssumption
      <3>3. CASE impression # OnlyImpression
        BY <3>3 DEF Agreeing, Enriching
      <3> QED
        BY <3>2, <3>3
    <2>2. pendingClick' # None => Joined = None
      BY <1>1 DEF Agreeing, Enriching
    <2>3. \A x \in Events(clicks)' : x.impression = Joined
      BY <1>4, <1>5 DEF Agreeing, Enriching
    <2> QED
      BY <1>1, <1>2, <2>1, <2>2, <2>3 DEF Agreeing, Enriching
  <1>8. Patient'
    <2>1. Early' <=> Early
      BY <1>1, <1>2 DEF Early
    <2>2. Early => Events(clicks)' = Events(clicks)
      BY <1>4, <1>5
    <2> QED
      BY <1>1, <1>2, <1>6, <2>1, <2>2 DEF Agreeing, Patient
  <1>9. Accounted'
    <2>1. pendingClick # None => pendingClick' # None \/ Events(clicks)' # {}
      BY <1>1, <1>5
    <2>2. Events(clicks) \subseteq Events(clicks)'
      BY <1>5
    <2>3. OnlyClick # None =>
             \/ pendingClick' # None \/ Events(clicks)' # {}
             \/ /\ Truth(OnlyClick) \subseteq contributions
                /\ click # None \/ OnlyClick.time + Retention <= current
      BY <2>1, <2>2 DEF Agreeing, Accounted
    <2> QED
      BY <1>1, <1>2, <1>3, <1>5, <2>3 DEF Agreeing, Accounted
  <1>10. WaitsInVain'
    <2>1. pendingClick' = None /\ Events(clicks)' = {} => pendingClick = None /\ Events(clicks) = {}
      BY <1>1, <1>5
    <2> QED
      BY <1>1, <1>2, <2>1 DEF Agreeing, WaitsInVain
  <1>11. RightSoFar'
    BY <1>1, <1>2, <1>3, <1>6 DEF Agreeing, RightSoFar
  <1> QED
    BY <1>7, <1>8, <1>9, <1>10, <1>11 DEF Agreeing

(* What is emitted for conversions and a first click is right when their   *)
(* measurements are the true ones.                                         *)
LEMMA EmitsTruth ==
    ASSUME Counted, RightSoFar, UNCHANGED arrivals,
           NEW vs \in SUBSET ArrivedOf("conversion"), NEW c, Emits(vs, c),
           \A v \in vs : /\ ConversionMetrics(v, c, ConversionReason(c, v)) = Truth(v)
                         /\ Association(ConversionReason(c, v)).status = IF Matched(v) THEN "matched" ELSE "unmatched",
           c # None /\ click = None => OnlyClick # None /\ ClickMetrics(c) = Truth(OnlyClick)
    PROVE  /\ \A v \in vs : associations'[v.key] # None /\ Truth(v) \subseteq contributions'
           /\ \A v \in ArrivedOf("conversion") \ vs : associations'[v.key] = associations[v.key]
           /\ contributions \subseteq contributions'
           /\ \A u \in contributions' : \/ u \in contributions \/ \E v \in vs : u \in Truth(v)
                                        \/ c # None /\ click = None
           /\ c # None /\ click = None => Truth(OnlyClick) \subseteq contributions'
           /\ RightSoFar'
  <1>1. /\ Arrived' = Arrived /\ OnlyClick' = OnlyClick /\ ArrivedOf("conversion")' = ArrivedOf("conversion")
        /\ \A v : (Matched(v)' <=> Matched(v)) /\ Truth(v)' = Truth(v)
    BY NothingArrives
  <1>2. \A v \in ArrivedOf("conversion") : v \in Arrived /\ v.key \in ConversionKey
    BY OnlyEvents DEF ConversionKey
  <1>3. \A v, w \in ArrivedOf("conversion") : v.key = w.key => v = w
    BY <1>2 DEF Counted
  <1>4. ASSUME NEW v \in vs
        PROVE  associations'[v.key] = Association(ConversionReason(c, v))
    <2>1. v.key \in ConversionKey
      BY <1>2
    <2>2. (CHOOSE w \in vs : w.key = v.key) = v
      BY <1>3
    <2> QED
      BY <2>1, <2>2 DEF Emits
  <1>5. \A v \in vs : associations'[v.key] # None
    BY <1>4, DecisionFacts, NoneAssumption
  <1>6. ASSUME NEW k \in ConversionKey, ~\E v \in vs : v.key = k
        PROVE  associations'[k] = associations[k]
    BY <1>6 DEF Emits
  <1>7. \A v \in ArrivedOf("conversion") \ vs : associations'[v.key] = associations[v.key]
    BY <1>2, <1>3, <1>6
  <1>8. contributions' = contributions
          \cup (UNION {ConversionMetrics(v, c, ConversionReason(c, v)) : v \in vs})
          \cup (IF c # None /\ click = None THEN ClickMetrics(c) ELSE {})
    BY DEF Emits
  <1>9. UNION {ConversionMetrics(v, c, ConversionReason(c, v)) : v \in vs} = UNION {Truth(v) : v \in vs}
    OBVIOUS
  <1>0. PICK k : k = OnlyClick
    OBVIOUS
  <1>16. Truth(OnlyClick) = Truth(k)
    BY <1>0 DEF Truth
  <1>10. contributions' = contributions \cup (UNION {Truth(v) : v \in vs})
           \cup (IF c # None /\ click = None THEN Truth(k) ELSE {})
    BY <1>8, <1>9, <1>16
  <1>11. RightSoFar'
    <2>1. ASSUME NEW u \in contributions'
          PROVE  \E e \in Arrived : u \in Truth(e)
      <3>1. CASE u \in contributions
        BY <3>1 DEF RightSoFar
      <3>2. CASE u \in UNION {Truth(v) : v \in vs}
        BY <1>2, <3>2
      <3>3. CASE c # None /\ click = None /\ u \in Truth(k)
        BY <1>0, <3>3, OnlyEvents
      <3> QED
        BY <1>10, <3>1, <3>2, <3>3
    <2>2. ASSUME NEW v \in ArrivedOf("conversion"), Decided(v)'
          PROVE  associations'[v.key].status = IF Matched(v) THEN "matched" ELSE "unmatched"
      <3>1. CASE v \in vs
        BY <1>4, <3>1
      <3>2. CASE v \notin vs
        BY <1>7, <2>2, <3>2 DEF Decided, RightSoFar
      <3> QED
        BY <3>1, <3>2
    <2>3. \A key \in ConversionKey : associations'[key] # None => \E v \in ArrivedOf("conversion") : v.key = key
      BY <1>6 DEF RightSoFar
    <2> QED
      BY <1>1, <2>1, <2>2, <2>3 DEF RightSoFar
  <1> HIDE DEF Emits
  <1>12. \A v \in vs : Truth(v) \subseteq contributions'
    BY <1>10
  <1>13. contributions \subseteq contributions'
    BY <1>10
  <1>14. \A u \in contributions' : \/ u \in contributions \/ \E v \in vs : u \in Truth(v)
                                   \/ c # None /\ click = None
    BY <1>10
  <1>15. c # None /\ click = None => Truth(OnlyClick) \subseteq contributions'
    BY <1>10, <1>16
  <1> QED
    BY <1>5, <1>7, <1>11, <1>12, <1>13, <1>14, <1>15

(* Nothing that comes in time is refused.                                  *)
LEMMA NoneLate ==
    ASSUME Clocks, Held, Prompt
    PROVE  ~LateClick /\ ~LateConversion
  <1>1. ASSUME LateClick PROVE FALSE
    <2>1. Head(clicks).event \in ArrivedOf("click") /\ current < Head(clicks).event.time + Wait
      BY <1>1, ClickTaken DEF LateClick
    <2>2. Head(clicks).event.time \in Nat /\ current \in Nat
      BY <2>1, EventFacts, BoundAssumption DEF ArrivedOf, Arrived, Clocks
    <2>3. Head(clicks).event.time + Retention <= current
      BY <1>1 DEF LateClick
    <2> QED
      BY <2>1, <2>2, <2>3, RulesAssumption
  <1>2. ASSUME LateConversion PROVE FALSE
    <2>1. Head(conversions) \in ArrivedOf("conversion") /\ current < Head(conversions).time + Wait
      BY <1>2, ConversionTaken DEF LateConversion
    <2>2. Head(conversions).time \in Nat /\ current \in Nat
      BY <2>1, EventFacts, BoundAssumption DEF ArrivedOf, Arrived, Clocks
    <2>3. Head(conversions).time + Retention <= current
      BY <1>2 DEF LateConversion
    <2> QED
      BY <2>1, <2>2, <2>3, RulesAssumption
  <1> QED
    BY <1>1, <1>2

(* The click meets the conversions that wait for it.                       *)
LEMMA AgreeingClickJoins ==
    ASSUME Inv, Agreeing, ClickJoins
    PROVE  Agreeing'
  <1> DEFINE c == Head(clicks)
  <1>0. Counted /\ Clocks /\ Held /\ RightSoFar
    BY DEF Inv, Agreeing
  <1>1. /\ clicks # <<>> /\ ~IsMark(c) /\ clicks' = Tail(clicks) /\ waiting' = {}
        /\ click' = IF click = None THEN c ELSE click
        /\ Emits(waiting, click')
        /\ UNCHANGED <<arrivals, watermark, impression, pendingClick, conversions, current>>
    BY DEF ClickJoins, Takes, source, exposure, valve
  <1>2. Events(clicks) = Events(clicks)' \cup {c}
    <2>1. Events(clicks)' = Events(clicks')
      BY DEF Events
    <2> QED
      BY <1>0, <1>1, <2>1, EventsTail DEF Held
  <1>3. c.event = OnlyClick /\ OnlyClick # None /\ c # None /\ c.impression = Joined
    BY <1>0, <1>2, HeldOnly DEF Agreeing, Enriching
  <1> HIDE DEF c
  <1>4. click' # None /\ click'.event = OnlyClick /\ click'.impression = Joined
    BY <1>0, <1>1, <1>3, HeldOnly DEF Agreeing, Enriching
  <1>5. waiting \in SUBSET ArrivedOf("conversion")
    BY DEF Inv, Held
  <1>6. ClickMetrics(click') = Truth(OnlyClick)
    BY <1>0, <1>3, <1>4, TrueMetrics
  <1>7. \A v \in waiting :
           /\ ConversionMetrics(v, click', ConversionReason(click', v)) = Truth(v)
           /\ Association(ConversionReason(click', v)).status = IF Matched(v) THEN "matched" ELSE "unmatched"
    BY <1>0, <1>3, <1>4, <1>5, TrueMetrics, SameMatch
  <1>8. /\ \A v \in waiting : associations'[v.key] # None /\ Truth(v) \subseteq contributions'
        /\ \A v \in ArrivedOf("conversion") \ waiting : associations'[v.key] = associations[v.key]
        /\ contributions \subseteq contributions'
        /\ click = None => Truth(OnlyClick) \subseteq contributions'
        /\ RightSoFar'
    BY <1>0, <1>1, <1>3, <1>4, <1>5, <1>6, <1>7, EmitsTruth
  <1>9. /\ OnlyImpression' = OnlyImpression /\ OnlyClick' = OnlyClick /\ Joined' = Joined
        /\ ArrivedOf("conversion")' = ArrivedOf("conversion")
        /\ \A v : Truth(v)' = Truth(v)
        /\ Truth(OnlyClick)' = Truth(OnlyClick) /\ Truth(OnlyImpression)' = Truth(OnlyImpression)
    BY <1>1, NothingArrives
  <1>10. Events(conversions)' = Events(conversions)
    BY <1>1 DEF Events
  <1>11. Enriching'
    BY <1>1, <1>2, <1>4, <1>9 DEF Agreeing, Enriching
  <1>12. Patient'
    <2>1. ~Early
      BY <1>2 DEF Agreeing, Patient
    <2>2. ~Early'
      BY <1>1, <1>9, <2>1 DEF Early
    <2> QED
      BY <1>3, <1>9, <2>2 DEF Patient
  <1>13. Accounted'
    <2>1. Truth(OnlyClick) \subseteq contributions'
      BY <1>8 DEF Agreeing, Accounted
    <2>2. OnlyImpression # None => Truth(OnlyImpression) \subseteq contributions'
      BY <1>8 DEF Agreeing, Accounted
    <2>3. ASSUME NEW v \in ArrivedOf("conversion")
          PROVE  v \in Events(conversions) \/ (associations'[v.key] # None /\ Truth(v) \subseteq contributions')
      BY <1>8 DEF Agreeing, Accounted
    <2> QED
      BY <1>4, <1>9, <1>10, <2>1, <2>2, <2>3 DEF Accounted
  <1>14. WaitsInVain'
    BY <1>1 DEF WaitsInVain
  <1> QED
    BY <1>8, <1>11, <1>12, <1>13, <1>14 DEF Agreeing

(* A conversion in time that meets its click.                              *)
LEMMA AgreeingConversionJoins ==
    ASSUME Inv, Prompt, Agreeing, ConversionJoins
    PROVE  Agreeing'
  <1> DEFINE v == Head(conversions)
  <1>0. Counted /\ Clocks /\ Held /\ RightSoFar
    BY DEF Inv, Agreeing
  <1>1. /\ conversions # <<>> /\ ~IsMark(v) /\ conversions' = Tail(conversions)
        /\ click # None \/ v.time + Wait <= current
        /\ Emits({v}, click)
        /\ UNCHANGED <<arrivals, watermark, impression, pendingClick, clicks, click, waiting, current>>
    BY DEF ConversionJoins, Takes, source, exposure, valve
  <1>2. v \in ArrivedOf("conversion") /\ current < v.time + Wait
    BY <1>0, <1>1, ConversionTaken DEF ConversionJoins
  <1>3. Events(conversions) = Events(conversions)' \cup {v} /\ Events(clicks)' = Events(clicks)
    <2>1. Events(conversions)' = Events(conversions') /\ Events(clicks)' = Events(clicks')
      BY DEF Events
    <2> QED
      BY <1>0, <1>1, <2>1, EventsTail DEF Held
  <1> HIDE DEF v
  <1>4. click # None
    <2>1. v.time \in Nat /\ current \in Nat
      BY <1>0, <1>2, OnlyEvents, EventFacts, BoundAssumption DEF Clocks
    <2> QED
      BY <1>1, <1>2, <2>1, RulesAssumption
  <1>5. click.event = OnlyClick /\ OnlyClick # None /\ click.impression = Joined
    BY <1>0, <1>4, HeldOnly DEF Agreeing, Enriching
  <1>6. /\ ConversionMetrics(v, click, ConversionReason(click, v)) = Truth(v)
        /\ Association(ConversionReason(click, v)).status = IF Matched(v) THEN "matched" ELSE "unmatched"
    BY <1>0, <1>2, <1>4, <1>5, TrueMetrics, SameMatch
  <1>7. /\ associations'[v.key] # None /\ Truth(v) \subseteq contributions'
        /\ \A w \in ArrivedOf("conversion") \ {v} : associations'[w.key] = associations[w.key]
        /\ contributions \subseteq contributions'
        /\ RightSoFar'
    <2>1. {v} \in SUBSET ArrivedOf("conversion")
      BY <1>2
    <2> QED
      BY <1>0, <1>1, <1>4, <1>6, <2>1, EmitsTruth
  <1>8. /\ OnlyImpression' = OnlyImpression /\ OnlyClick' = OnlyClick /\ Joined' = Joined
        /\ ArrivedOf("conversion")' = ArrivedOf("conversion")
        /\ \A w : Truth(w)' = Truth(w)
        /\ Truth(OnlyClick)' = Truth(OnlyClick) /\ Truth(OnlyImpression)' = Truth(OnlyImpression)
    BY <1>1, NothingArrives
  <1>9. Enriching'
    BY <1>1, <1>3, <1>8 DEF Agreeing, Enriching
  <1>10. Patient'
    <2>1. ~Early
      BY <1>4 DEF Agreeing, Patient
    <2>2. ~Early'
      BY <1>1, <1>8, <2>1 DEF Early
    <2> QED
      BY <1>5, <1>8, <2>2 DEF Patient
  <1>11. Accounted'
    <2>1. Truth(OnlyClick) \subseteq contributions'
      BY <1>4, <1>7 DEF Agreeing, Accounted
    <2>2. OnlyImpression # None => Truth(OnlyImpression) \subseteq contributions'
      BY <1>7 DEF Agreeing, Accounted
    <2>3. ASSUME NEW w \in ArrivedOf("conversion")
          PROVE  \/ w \in Events(conversions)' \/ w \in waiting
                 \/ (associations'[w.key] # None /\ Truth(w) \subseteq contributions')
      BY <1>3, <1>7 DEF Agreeing, Accounted
    <2> QED
      BY <1>1, <1>4, <1>8, <2>1, <2>2, <2>3 DEF Accounted
  <1>12. WaitsInVain'
    BY <1>1, <1>3, <1>8 DEF Agreeing, WaitsInVain
  <1> QED
    BY <1>7, <1>9, <1>10, <1>11, <1>12 DEF Agreeing

(* A conversion that waits: a click that was forgotten is out of reach.    *)
LEMMA AgreeingConversionWaits ==
    ASSUME Inv, Agreeing, ConversionWaits
    PROVE  Agreeing'
  <1> DEFINE v == Head(conversions)
             known == \E u \in waiting : u.key = v.key
  <1>0. Counted /\ Clocks /\ Held /\ Linked
    BY DEF Inv
  <1>1. /\ conversions # <<>> /\ ~IsMark(v) /\ conversions' = Tail(conversions)
        /\ click = None /\ current < v.time + Wait
        /\ waiting' = IF known THEN waiting ELSE waiting \cup {v}
        /\ associations' = IF known THEN associations
                           ELSE [associations EXCEPT ![v.key] = Association("AWAITING_CLICK")]
        /\ UNCHANGED <<arrivals, watermark, impression, pendingClick, clicks, click, contributions, current>>
    <2>1. v.time + Wait > current => current < v.time + Wait
      BY DEF v
    <2> QED
      BY <2>1 DEF ConversionWaits, Takes, source, exposure, valve
  <1>2. Events(conversions) = Events(conversions)' \cup {v} /\ Events(clicks)' = Events(clicks)
    <2>1. Events(conversions)' = Events(conversions') /\ Events(clicks)' = Events(clicks')
      BY DEF Events
    <2> QED
      BY <1>0, <1>1, <2>1, EventsTail DEF Held
  <1>3. v \in ArrivedOf("conversion")
    BY <1>0, <1>2, HeldOnly
  <1> HIDE DEF v
  <1>4. v.key \in ConversionKey /\ v \in Event /\ v.time \in Nat
    BY <1>0, <1>3, OnlyEvents, EventFacts DEF ConversionKey
  <1>5. \A w \in ArrivedOf("conversion") : w.key = v.key => w = v
    BY <1>0, <1>3, OnlyEvents DEF Counted
  <1>6. waiting' = waiting \cup {v}
    BY <1>0, <1>1, <1>5, HeldOnly
  <1>7. Association("AWAITING_CLICK") # None /\ Association("AWAITING_CLICK").status = "pending"
    BY NoneAssumption DEF Association, Associations
  <1>8. /\ \A w \in ArrivedOf("conversion") : w # v => associations'[w.key] = associations[w.key]
        /\ associations'[v.key] = IF known THEN associations[v.key] ELSE Association("AWAITING_CLICK")
        /\ \A k \in ConversionKey : k # v.key => associations'[k] = associations[k]
    <2>1. \A w \in ArrivedOf("conversion") : w.key \in ConversionKey
      BY <1>0, OnlyEvents DEF ConversionKey
    <2> HIDE DEF known
    <2> QED
      BY <1>0, <1>1, <1>4, <1>5, <2>1 DEF Linked
  <1> HIDE DEF known
  <1>9. \A w \in ArrivedOf("conversion") : Decided(w)' =>
            Decided(w) /\ associations'[w.key] = associations[w.key]
    BY <1>7, <1>8 DEF Decided
  <1>10. /\ Arrived' = Arrived /\ OnlyImpression' = OnlyImpression /\ OnlyClick' = OnlyClick /\ Joined' = Joined
         /\ ArrivedOf("conversion")' = ArrivedOf("conversion")
         /\ \A w : (Matched(w)' <=> Matched(w)) /\ Truth(w)' = Truth(w)
         /\ Truth(OnlyClick)' = Truth(OnlyClick) /\ Truth(OnlyImpression)' = Truth(OnlyImpression)
    BY <1>1, NothingArrives
  <1>11. Enriching'
    BY <1>1, <1>2, <1>10 DEF Agreeing, Enriching
  <1>12. Patient'
    <2>1. Early' <=> Early
      BY <1>1, <1>10 DEF Early
    <2> QED
      BY <1>1, <1>2, <1>9, <1>10, <2>1 DEF Agreeing, Patient
  <1>13. Accounted'
    <2>1. ASSUME NEW w \in ArrivedOf("conversion")
          PROVE  \/ w \in Events(conversions)' \/ w \in waiting'
                 \/ (associations'[w.key] # None /\ Truth(w) \subseteq contributions)
      BY <1>2, <1>6, <1>8 DEF Agreeing, Accounted
    <2> QED
      BY <1>1, <1>2, <1>10, <2>1 DEF Agreeing, Accounted
  <1>14. WaitsInVain'
    <2>1. ASSUME OnlyClick # None, pendingClick = None, Events(clicks) = {}
          PROVE  Oracle!Unlinked(OnlyClick, v)
      <3>1. OnlyClick.time + Retention <= current /\ OnlyClick \in Event
        BY <1>0, <1>1, <2>1, OnlyEvents DEF Agreeing, Accounted
      <3> QED
        BY <1>0, <1>1, <1>4, <3>1, TooLate, BoundAssumption DEF Clocks
    <2> QED
      BY <1>1, <1>2, <1>6, <1>10, <2>1 DEF Agreeing, WaitsInVain
  <1>15. RightSoFar'
    <2>1. \A u \in contributions : \E e \in Arrived : u \in Truth(e)
      BY DEF Agreeing, RightSoFar
    <2>2. \A w \in ArrivedOf("conversion") :
             Decided(w)' => associations'[w.key].status = IF Matched(w) THEN "matched" ELSE "unmatched"
      BY <1>9 DEF Agreeing, RightSoFar
    <2>3. \A k \in ConversionKey : associations'[k] # None => \E w \in ArrivedOf("conversion") : w.key = k
      BY <1>3, <1>8 DEF Agreeing, RightSoFar
    <2> QED
      BY <1>1, <1>10, <2>1, <2>2, <2>3 DEF RightSoFar
  <1> QED
    BY <1>11, <1>12, <1>13, <1>14, <1>15 DEF Agreeing

(* A conversion whose wait is over has no click that it would match.       *)
LEMMA NoneMissed ==
    ASSUME Inv, Prompt, Agreeing, NEW v \in waiting, v.time + Wait <= current
    PROVE  ~Matched(v)
  <1>0. Counted /\ Clocks /\ Held
    BY DEF Inv
  <1>1. v \in Event /\ v.time \in Nat /\ current \in Nat /\ forwarded \in Nat /\ progress["clicks"] \in Nat
    BY <1>0, HeldOnly, OnlyEvents, EventFacts, BoundAssumption DEF Clocks, Channel
  <1>2. current <= progress["clicks"] /\ progress["clicks"] <= forwarded
    BY <1>0 DEF Prompt, Channel, Clocks
  <1>3. ASSUME OnlyClick # None, current < OnlyClick.time + Wait
        PROVE  Oracle!Unlinked(OnlyClick, v)
    <2>1. OnlyClick \in Event /\ OnlyClick.time \in Nat
      BY <1>0, <1>3, OnlyEvents, EventFacts
    <2>2. v.time < OnlyClick.time
      BY <1>1, <1>3, <2>1, RulesAssumption
    <2> QED
      BY <1>1, <2>1, <2>2, TooEarly
  <1>4. CASE OnlyClick = None
    BY <1>4, OracleFacts DEF Matched
  <1>5. CASE OnlyClick # None /\ pendingClick # None
    <2>1. pendingClick = OnlyClick /\ forwarded < OnlyClick.time + Wait
      BY <1>0, <1>5, HeldOnly DEF Prompt
    <2>2. OnlyClick.time \in Nat
      BY <1>0, <1>5, OnlyEvents, EventFacts
    <2> QED
      BY <1>1, <1>2, <1>3, <1>5, <2>1, <2>2, RulesAssumption DEF Matched
  <1>6. CASE OnlyClick # None /\ Events(clicks) # {}
    <2>1. PICK n \in 1..Len(clicks) : ~IsMark(clicks[n])
      BY <1>6 DEF Events
    <2>2. clicks[n].event = OnlyClick
      BY <1>0, <2>1, HeldOnly DEF Events
    <2>3. progress["clicks"] < OnlyClick.time + Wait
      BY <1>0, <2>1, <2>2, Carried DEF Prompt, Orderly
    <2>4. OnlyClick.time \in Nat
      BY <1>0, <1>6, OnlyEvents, EventFacts
    <2> QED
      BY <1>1, <1>2, <1>3, <1>6, <2>3, <2>4, RulesAssumption DEF Matched
  <1>7. CASE OnlyClick # None /\ pendingClick = None /\ Events(clicks) = {}
    BY <1>7 DEF Agreeing, WaitsInVain, Matched
  <1> QED
    BY <1>4, <1>5, <1>6, <1>7

(* Conversions whose wait is over are unmatched.                           *)
LEMMA AgreeingConversionTimer ==
    ASSUME Inv, Prompt, Agreeing, NEW t \in conversionTimers, ConversionTimer(t)
    PROVE  Agreeing'
  <1> DEFINE timedOut == {v \in waiting : v.time + Wait <= t}
             forget   == click # None /\ click.event.time + Retention <= t
  <1>0. Counted /\ Clocks /\ Held /\ RightSoFar
    BY DEF Inv, Agreeing
  <1>1. /\ t <= current /\ t \in Nat /\ current \in Nat /\ watermark \in Nat /\ current <= watermark
        /\ Emits(timedOut, None) /\ waiting' = waiting \ timedOut
        /\ click' = IF forget THEN None ELSE click
        /\ UNCHANGED <<arrivals, watermark, impression, pendingClick, clicks, conversions, current>>
    BY <1>0, BoundAssumption DEF ConversionTimer, source, exposure, valve, channels, Held, Clocks
  <1>2. \A v \in waiting : v \in ArrivedOf("conversion") /\ v \in Event /\ v.type = "conversion" /\ v.time \in Nat
    BY <1>0, HeldOnly, OnlyEvents, EventFacts
  <1>3. ASSUME NEW v \in timedOut
        PROVE  /\ ~Matched(v) /\ Truth(v) = {Missed(v)}
               /\ ConversionMetrics(v, None, ConversionReason(None, v)) = Truth(v)
               /\ Association(ConversionReason(None, v)).status = IF Matched(v) THEN "matched" ELSE "unmatched"
               /\ v.time + Wait <= watermark
    <2>1. v.time + Wait <= current /\ v.time + Wait <= watermark
      BY <1>1, <1>2, RulesAssumption
    <2>2. ~Matched(v)
      BY <2>1, NoneMissed
    <2>3. Truth(v) = {Missed(v)}
      BY <1>2, <2>2, TrueCounters DEF Truth, Matched, JoinedClick
    <2>4. ConversionReason(None, v) = "CLICK_NOT_FOUND"
      BY DEF ConversionReason
    <2>5. ConversionMetrics(v, None, "CLICK_NOT_FOUND") = {Missed(v)}
      BY DEF ConversionMetrics, Missed
    <2>6. Association("CLICK_NOT_FOUND").status = "unmatched"
      BY DEF Association
    <2> QED
      BY <2>1, <2>2, <2>3, <2>4, <2>5, <2>6
  <1>4. timedOut \in SUBSET ArrivedOf("conversion") /\ timedOut \subseteq waiting
    BY <1>2
  <1> HIDE DEF timedOut
  <1>5. /\ \A v \in timedOut : associations'[v.key] # None /\ Truth(v) \subseteq contributions'
        /\ \A v \in ArrivedOf("conversion") \ timedOut : associations'[v.key] = associations[v.key]
        /\ contributions \subseteq contributions'
        /\ \A u \in contributions' : u \in contributions \/ \E v \in timedOut : u \in Truth(v)
        /\ RightSoFar'
    BY <1>0, <1>1, <1>3, <1>4, EmitsTruth
  <1>6. /\ OnlyImpression' = OnlyImpression /\ OnlyClick' = OnlyClick /\ Joined' = Joined
        /\ ArrivedOf("conversion")' = ArrivedOf("conversion")
        /\ \A w : Truth(w)' = Truth(w)
        /\ Truth(OnlyClick)' = Truth(OnlyClick) /\ Truth(OnlyImpression)' = Truth(OnlyImpression)
    BY <1>1, NothingArrives
  <1>7. Events(clicks)' = Events(clicks) /\ Events(conversions)' = Events(conversions)
    BY <1>1 DEF Events
  <1>8. \A u \in contributions' :
           u \in contributions \/ (u.counter = "unmatched_conversions" /\ u.time + Wait <= watermark)
    <2> SUFFICES ASSUME NEW u \in contributions', u \notin contributions
                 PROVE  u.counter = "unmatched_conversions" /\ u.time + Wait <= watermark
      OBVIOUS
    <2>1. PICK v \in timedOut : u \in Truth(v)
      BY <1>5
    <2>2. u = Missed(v)
      BY <1>3, <2>1
    <2>3. u.counter = "unmatched_conversions" /\ u.time = v.time
      BY <1>2, <1>4, <2>2, TrueCounters
    <2> QED
      BY <1>3, <2>3
  <1>9. \A v \in ArrivedOf("conversion") : Decided(v)' => Decided(v) \/ v.time + Wait <= watermark
    <2> SUFFICES ASSUME NEW v \in ArrivedOf("conversion"), Decided(v)', ~Decided(v)
                 PROVE  v.time + Wait <= watermark
      OBVIOUS
    <2>1. v \in timedOut
      BY <1>5 DEF Decided
    <2> QED
      BY <1>3, <2>1
  <1>10. Enriching'
    BY <1>1, <1>6, <1>7 DEF Agreeing, Enriching
  <1>11. Patient'
    <2>1. Early' <=> Early
      BY <1>1, <1>6 DEF Early
    <2>2. Early => \A u \in contributions' : u.counter \in {"impressions", "unmatched_conversions"}
      BY <1>8 DEF Agreeing, Patient
    <2>3. OnlyClick = None => \A u \in contributions' : u.counter = "unmatched_conversions" => u.time + Wait <= watermark
      BY <1>8 DEF Agreeing, Patient
    <2>4. OnlyClick = None => \A v \in ArrivedOf("conversion") : Decided(v)' => v.time + Wait <= watermark
      BY <1>9 DEF Agreeing, Patient
    <2> QED
      BY <1>1, <1>6, <1>7, <2>1, <2>2, <2>3, <2>4 DEF Agreeing, Patient
  <1>12. Accounted'
    <2>1. click' # None => Truth(OnlyClick) \subseteq contributions'
      BY <1>1, <1>5 DEF Agreeing, Accounted
    <2>2. OnlyImpression # None => Truth(OnlyImpression) \subseteq contributions'
      BY <1>5 DEF Agreeing, Accounted
    <2>3. ASSUME NEW w \in ArrivedOf("conversion")
          PROVE  \/ w \in Events(conversions) \/ w \in waiting'
                 \/ (associations'[w.key] # None /\ Truth(w) \subseteq contributions')
      BY <1>1, <1>5 DEF Agreeing, Accounted
    <2>4. click # None /\ click' = None => OnlyClick.time + Retention <= current
      <3> SUFFICES ASSUME click # None, click' = None PROVE OnlyClick.time + Retention <= current
        OBVIOUS
      <3>1. click.event = OnlyClick /\ OnlyClick # None /\ forget
        BY <1>0, <1>1, HeldOnly
      <3>2. OnlyClick.time \in Nat
        BY <1>0, <3>1, OnlyEvents, EventFacts
      <3> QED
        BY <1>1, <3>1, <3>2, RulesAssumption
    <2>5. OnlyClick # None =>
             \/ pendingClick # None \/ Events(clicks) # {}
             \/ /\ Truth(OnlyClick) \subseteq contributions'
                /\ click' # None \/ OnlyClick.time + Retention <= current
      BY <1>5, <2>4 DEF Agreeing, Accounted
    <2> QED
      BY <1>1, <1>6, <1>7, <2>1, <2>2, <2>3, <2>5 DEF Accounted
  <1>13. WaitsInVain'
    BY <1>1, <1>6, <1>7 DEF Agreeing, WaitsInVain
  <1> QED
    BY <1>5, <1>10, <1>11, <1>12, <1>13 DEF Agreeing

(* Agreement is kept while all is on time.                                 *)
LEMMA AgreeingStep ==
    ASSUME Inv, Prompt, Agreeing, [Next]_vars, OnTime'
    PROVE  Agreeing'
  <1>0. Counted /\ Clocks /\ Held /\ TimersKept
    BY DEF Inv
  <1>1. Clocks' /\ watermark <= watermark' /\ current <= current'
    BY <1>0, ClocksStep, PromptStep
  <1>2. ASSUME UNCHANGED <<arrivals, impression, pendingClick, click, waiting, associations, contributions>>,
               Events(clicks)' = Events(clicks), Events(conversions)' = Events(conversions)
        PROVE  Agreeing'
    BY <1>0, <1>1, <1>2, AgreeingRests
  <1>4. Events(clicks)' = Events(clicks') /\ Events(conversions)' = Events(conversions')
    BY DEF Events
  <1>5. ASSUME NEW e \in Event, LateAtExposure(e)
        PROVE  FALSE
    BY <1>0, <1>5, ArrivesOnTime DEF LateAtExposure
  <1>6. ASSUME NEW t \in 1..MaxTime, WatermarkAdvances(t)
        PROVE  Agreeing'
    <2>1. /\ conversions' = Append(conversions, Mark(t)) /\ clicks' = clicks
          /\ UNCHANGED <<arrivals, impression, pendingClick, click, waiting, associations, contributions>>
      BY <1>6 DEF WatermarkAdvances, exposure, conversion, outputs
    <2>2. Events(conversions)' = Events(conversions)
      BY <1>0, <1>4, <2>1, EventsAppend, SentItems DEF Held
    <2> QED
      BY <1>2, <1>4, <2>1, <2>2
  <1>7. CASE WatermarkForwarded
    <2>1. /\ clicks' = Append(clicks, Mark(watermark)) /\ conversions' = conversions
          /\ UNCHANGED <<arrivals, impression, pendingClick, click, waiting, associations, contributions>>
      BY <1>7 DEF WatermarkForwarded, exposure, conversion, outputs, source
    <2>2. Events(clicks)' = Events(clicks)
      BY <1>0, <1>4, <2>1, EventsAppend, SentItems DEF Held
    <2> QED
      BY <1>2, <1>4, <2>1, <2>2
  <1>8. CASE SourceIdles
    <2>1. idles' = idles + 1 /\ idles' = 0 /\ idles \in Nat
      BY <1>0, <1>8, BoundAssumption DEF SourceIdles, OnTime, Counted
    <2> QED
      BY <2>1
  <1>9. CASE ClickMark
    <2>1. /\ clicks # <<>> /\ IsMark(Head(clicks)) /\ clicks' = Tail(clicks) /\ conversions' = conversions
          /\ UNCHANGED <<arrivals, impression, pendingClick, click, waiting, associations, contributions>>
      BY <1>9 DEF ClickMark, Takes, exposure, conversion, outputs, source
    <2>2. Events(clicks)' = Events(clicks)
      BY <1>0, <1>4, <2>1, EventsTail DEF Held
    <2> QED
      BY <1>2, <1>4, <2>1, <2>2
  <1>10. CASE ConversionMark
    <2>1. /\ conversions # <<>> /\ IsMark(Head(conversions)) /\ conversions' = Tail(conversions) /\ clicks' = clicks
          /\ UNCHANGED <<arrivals, impression, pendingClick, click, waiting, associations, contributions>>
      BY <1>10 DEF ConversionMark, Takes, exposure, conversion, outputs, source
    <2>2. Events(conversions)' = Events(conversions)
      BY <1>0, <1>4, <2>1, EventsTail DEF Held
    <2> QED
      BY <1>2, <1>4, <2>1, <2>2
  <1>11. CASE UNCHANGED vars
    BY <1>2, <1>4, <1>11 DEF vars, source, exposure, conversion, outputs, channels
  <1>12. CASE ExposureStep
    BY <1>5, <1>6, <1>7, <1>8, <1>12, AgreeingImpression, AgreeingClickPasses, AgreeingClickWaits,
       AgreeingConversion, AgreeingExposureTimer DEF ExposureStep
  <1>13. CASE ConversionStep
    BY <1>0, <1>9, <1>10, <1>13, NoneLate, AgreeingClickJoins, AgreeingConversionJoins,
       AgreeingConversionWaits, AgreeingConversionTimer DEF ConversionStep
  <1> QED
    BY <1>11, <1>12, <1>13 DEF Next

-----------------------------------------------------------------------------
(* When event time is over.                                                *)

(* Before anything arrives all is on time.                                 *)
LEMMA OnTimeInit == Init => Prompt /\ Agreeing
  <1> SUFFICES ASSUME Init PROVE Prompt /\ Agreeing
    OBVIOUS
  <1>1. Arrived = {} /\ ArrivedOf("conversion") = {}
    BY DEF Init, Arrived, ArrivedOf
  <1>2. OnlyImpression = None /\ OnlyClick = None
    BY <1>1 DEF OnlyImpression, OnlyClick, Oracle!TheEvent
  <1>3. Joined = None
    BY <1>2, OracleFacts
  <1>4. Events(clicks) = {} /\ Events(conversions) = {}
    <2>1. Len(clicks) = 0 /\ Len(conversions) = 0
      BY DEF Init
    <2> QED
      BY <2>1 DEF Events
  <1>5. Prompt
    <2>1. Orderly(clicks, progress["clicks"]) /\ Orderly(conversions, progress["conversions"])
      BY DEF Init, Orderly
    <2> QED
      BY <2>1 DEF Init, Prompt, Channel
  <1>6. Enriching
    BY <1>2, <1>4 DEF Init, Enriching
  <1>7. Patient
    BY <1>1, <1>4 DEF Init, Patient
  <1>8. Accounted
    BY <1>1, <1>2 DEF Init, Accounted
  <1>9. WaitsInVain
    BY <1>2 DEF WaitsInVain
  <1>10. RightSoFar
    BY <1>1 DEF Init, RightSoFar
  <1> QED
    BY <1>5, <1>6, <1>7, <1>8, <1>9, <1>10 DEF Agreeing

(* What has been on time so far was on time before.                        *)
LEMMA OnTimeSoFar ==
    ASSUME Inv, [Next]_vars, OnTime'
    PROVE  OnTime
  <1>1. idles \in Nat
    BY BoundAssumption DEF Inv, Counted
  <1>2. ASSUME UNCHANGED <<punctual, idles>> PROVE OnTime
    BY <1>2 DEF OnTime
  <1>3. ASSUME NEW e \in Event, Arrives(e) PROVE OnTime
    BY <1>3, ArrivesOnTime DEF Inv
  <1>4. CASE SourceIdles
    BY <1>1, <1>4 DEF SourceIdles, OnTime
  <1>5. CASE ConversionStep
    <2>1. UNCHANGED source
      BY <1>5 DEF ConversionStep, ClickMark, ConversionMark, ClickJoins, LateClick, ConversionJoins,
                  ConversionWaits, LateConversion, ConversionTimer
    <2> QED
      BY <1>2, <2>1 DEF source
  <1>6. CASE UNCHANGED vars
    BY <1>2, <1>6 DEF vars, source
  <1>7. ASSUME NEW t \in 1..MaxTime, WatermarkAdvances(t) PROVE OnTime
    BY <1>2, <1>7 DEF WatermarkAdvances
  <1>8. ASSUME NEW t \in exposureTimers, ExposureTimer(t) PROVE OnTime
    BY <1>2, <1>8 DEF ExposureTimer, source
  <1>9. CASE WatermarkForwarded
    BY <1>2, <1>9 DEF WatermarkForwarded, source
  <1>10. ASSUME NEW e \in Event, \/ LateAtExposure(e) \/ ImpressionArrives(e) \/ ClickPasses(e)
                                 \/ ClickWaits(e) \/ ConversionArrives(e)
         PROVE  OnTime
    BY <1>3, <1>10 DEF LateAtExposure, ImpressionArrives, ClickPasses, ClickWaits, ConversionArrives
  <1> QED
    BY <1>4, <1>5, <1>6, <1>7, <1>8, <1>9, <1>10 DEF Next, ExposureStep

(* Every wait is over with event time.                                     *)
LEMMA WaitsAreOver ==
    ASSUME Inv, Drained
    PROVE  current = MaxTime /\ waiting = {} /\ Events(clicks) = {} /\ Events(conversions) = {}
  <1>1. ASSUME NEW heard, NEW mark, Said(<<>>, heard, mark)
        PROVE  heard = mark
    BY <1>1 DEF Said
  <1>2. progress["clicks"] = MaxTime /\ progress["conversions"] = MaxTime
    BY <1>1 DEF Inv, Caught, Drained
  <1>3. current = MaxTime
    BY <1>2 DEF Inv, Caught, Drained, Channel
  <1>4. ASSUME NEW v \in waiting PROVE FALSE
    <2>1. v.time + Wait \in conversionTimers /\ v.time + Wait <= MaxTime
      BY EventFacts DEF Inv, TimersKept, Held, ArrivedOf, Arrived
    <2> QED
      BY <1>3, <2>1 DEF Drained, Due
  <1>5. Len(clicks) = 0 /\ Len(conversions) = 0
    BY DEF Drained
  <1> QED
    BY <1>3, <1>4, <1>5 DEF Events

(* All that arrived is counted and decided, and nothing else.              *)
LEMMA AllAccounted ==
    ASSUME Inv, Prompt, Agreeing, Drained
    PROVE  /\ StatusAgrees
           /\ \A u : u \in contributions <=> \E e \in Arrived : u \in Truth(e)
  <1>0. Counted /\ Clocks /\ Held
    BY DEF Inv
  <1>1. current = MaxTime /\ waiting = {} /\ Events(clicks) = {} /\ Events(conversions) = {}
    BY WaitsAreOver
  <1>2. pendingClick = None
    <2> SUFFICES ASSUME pendingClick # None PROVE FALSE
      OBVIOUS
    <2>1. pendingClick \in Event /\ MaxTime < pendingClick.time + Wait
      BY <1>0, HeldOnly, OnlyEvents DEF Prompt, Drained
    <2> QED
      BY <2>1, EventFacts, BoundAssumption, RulesAssumption
  <1>3. \A v \in ArrivedOf("conversion") : associations[v.key] # None /\ Truth(v) \subseteq contributions
    BY <1>1 DEF Agreeing, Accounted
  <1>4. ASSUME NEW v \in ArrivedOf("conversion")
        PROVE  associations[v.key].status = IF Matched(v) THEN "matched" ELSE "unmatched"
    <2>1. v.key \in ConversionKey
      BY <1>0, OnlyEvents DEF ConversionKey
    <2>2. Decided(v)
      BY <1>1, <1>3, <2>1 DEF Decided, Inv, Linked
    <2> QED
      BY <2>2 DEF Agreeing, RightSoFar
  <1>5. StatusAgrees
    BY <1>3, <1>4, OracleFacts DEF StatusAgrees, ArrivedOf, Oracle!ExpectedStatus
  <1>6. ASSUME NEW e \in Arrived
        PROVE  Truth(e) \subseteq contributions
    <2>1. e.type \in {"impression", "click", "conversion"} /\ e # None /\ e \in ArrivedOf(e.type)
      BY EventFacts DEF Arrived, ArrivedOf
    <2>2. CASE e.type = "impression"
      <3>1. e = OnlyImpression
        BY <1>0, <2>1, <2>2, OnlyEvents
      <3> QED
        BY <2>1, <3>1 DEF Agreeing, Accounted
    <2>3. CASE e.type = "click"
      <3>1. e = OnlyClick
        BY <1>0, <2>1, <2>3, OnlyEvents
      <3> QED
        BY <1>1, <1>2, <2>1, <3>1 DEF Agreeing, Accounted
    <2>4. CASE e.type = "conversion"
      BY <1>3, <2>1, <2>4
    <2> QED
      BY <2>1, <2>2, <2>3, <2>4
  <1>7. \A u \in contributions : \E e \in Arrived : u \in Truth(e)
    BY DEF Agreeing, RightSoFar
  <1> QED
    BY <1>5, <1>6, <1>7

(* What the joins count for an event, but for converted_clicks, is what    *)
(* the oracle counts.                                                      *)
Counting(u) == u.counter # "converted_clicks"

UnitsOf(e) ==
    CASE e.type = "impression" -> Oracle!ImpressionUnits(e)
      [] e.type = "click"      -> Oracle!ClickUnits(Arrived, e)
      [] OTHER                 -> Oracle!ConversionUnits(Arrived, e)

(* The joins and the oracle fill the same row in.                          *)
LEMMA SameRow ==
    ASSUME NEW e, NEW i, NEW time, NEW cohort, NEW counter
    PROVE  /\ counter # "converted_clicks" =>
                Contribution(e, i, time, cohort, counter) = Oracle!Unit(e, i, time, cohort, counter)
           /\ Contribution(e, i, time, cohort, counter).counter = counter
           /\ Oracle!Unit(e, i, time, cohort, counter).counter = counter
  BY DEF Contribution, Oracle!Unit

(* The same rows for all counters but one.                                 *)
LEMMA SameUnits ==
    ASSUME Counted, NEW e \in Arrived
    PROVE  {u \in Truth(e) : Counting(u)} = UnitsOf(e)
  <1>1. e.type \in {"impression", "click", "conversion"} /\ e \in ArrivedOf(e.type)
    BY EventFacts DEF Arrived, ArrivedOf
  <1>2. Truth(e) = Metrics(JoinedClick, e) /\ JoinedClick.event = OnlyClick /\ JoinedClick.impression = Joined
    BY DEF Truth, JoinedClick
  <1>3. OnlyClick = Oracle!TheEvent(Arrived, "click") /\ Joined = Oracle!JoinedImpression(Arrived)
    BY DEF OnlyClick, Joined
  <1>4. CASE e.type = "impression"
    <2>1. Truth(e) = ImpressionMetrics(e) /\ UnitsOf(e) = Oracle!ImpressionUnits(e)
      BY <1>2, <1>4 DEF Metrics, UnitsOf
    <2>2. ImpressionMetrics(e) = Oracle!ImpressionUnits(e) /\ \A u \in ImpressionMetrics(e) : Counting(u)
      BY SameRow DEF ImpressionMetrics, Oracle!ImpressionUnits, Counting
    <2> QED
      BY <2>1, <2>2
  <1>5. CASE e.type = "click"
    <2>1. e = OnlyClick
      BY <1>1, <1>5, OnlyEvents
    <2>2. Truth(e) = ClickMetrics(JoinedClick) /\ UnitsOf(e) = Oracle!ClickUnits(Arrived, e)
      BY <1>2, <1>5 DEF Metrics, UnitsOf
    <2>3. ClickMetrics(JoinedClick) =
            {Contribution(e, Joined, e.time, cohort, "clicks") : cohort \in {"occurrence", "click"}}
              \cup (IF Joined = None THEN {}
                    ELSE {Contribution(e, Joined, Joined.time, "impression", "clicks")})
      BY <1>2, <2>1 DEF ClickMetrics
    <2>4. Oracle!ClickUnits(Arrived, e) =
            {Oracle!Unit(e, Joined, e.time, cohort, "clicks") : cohort \in {"occurrence", "click"}}
              \cup (IF Joined = None THEN {}
                    ELSE {Oracle!Unit(e, Joined, Joined.time, "impression", "clicks")})
      BY <1>3 DEF Oracle!ClickUnits
    <2>5. \A time, cohort : /\ Contribution(e, Joined, time, cohort, "clicks") = Oracle!Unit(e, Joined, time, cohort, "clicks")
                            /\ Counting(Contribution(e, Joined, time, cohort, "clicks"))
      BY SameRow DEF Counting
    <2>6. ClickMetrics(JoinedClick) = Oracle!ClickUnits(Arrived, e)
      BY <2>3, <2>4, <2>5
    <2>7. \A u \in ClickMetrics(JoinedClick) : Counting(u)
      BY <2>3, <2>5
    <2> QED
      BY <2>2, <2>6, <2>7
  <1>6. CASE e.type = "conversion"
    <2>1. UnitsOf(e) = Oracle!ConversionUnits(Arrived, e)
      BY <1>6 DEF UnitsOf
    <2>2. \A i, time, cohort, counter : counter # "converted_clicks" =>
             /\ Contribution(e, i, time, cohort, counter) = Oracle!Unit(e, i, time, cohort, counter)
             /\ Counting(Contribution(e, i, time, cohort, counter))
      BY SameRow DEF Counting
    <2>3. CASE ~Matched(e)
      <3>1. Truth(e) = {Contribution(e, None, e.time, "occurrence", "unmatched_conversions")}
        BY <1>2, <1>6, <2>3 DEF Metrics, Matched, ConversionMetrics
      <3>2. UnitsOf(e) = {Oracle!Unit(e, None, e.time, "occurrence", "unmatched_conversions")}
        BY <2>1, <2>3, OracleFacts DEF Oracle!ConversionUnits
      <3> QED
        BY <2>2, <3>1, <3>2
    <2>4. CASE Matched(e)
      <3> DEFINE C(time, cohort, counter) == Contribution(e, Joined, time, cohort, counter)
      <3>1. Truth(e) = {C(e.time, "occurrence", "matched_conversions")}
                \cup {C(OnlyClick.time, "click", counter) : counter \in {"matched_conversions", "converted_clicks"}}
                \cup {C(OnlyClick.time, "conversion_value", counter) : counter \in {"matched_conversions", "value_minor"}}
        BY <1>2, <1>6, <2>4 DEF Metrics, Matched, ConversionMetrics
      <3>2. UnitsOf(e) = {Oracle!Unit(e, Joined, e.time, "occurrence", "matched_conversions"),
                          Oracle!Unit(e, Joined, OnlyClick.time, "click", "matched_conversions"),
                          Oracle!Unit(e, Joined, OnlyClick.time, "conversion_value", "matched_conversions"),
                          Oracle!Unit(e, Joined, OnlyClick.time, "conversion_value", "value_minor")}
        BY <1>3, <2>1, <2>4, OracleFacts DEF Oracle!ConversionUnits
      <3>3. ~Counting(C(OnlyClick.time, "click", "converted_clicks"))
        BY SameRow DEF Counting
      <3>4. UnitsOf(e) = {C(e.time, "occurrence", "matched_conversions"),
                          C(OnlyClick.time, "click", "matched_conversions"),
                          C(OnlyClick.time, "conversion_value", "matched_conversions"),
                          C(OnlyClick.time, "conversion_value", "value_minor")}
        BY <2>2, <3>2
      <3>5. \A u \in UnitsOf(e) : Counting(u)
        BY <2>2, <3>4
      <3> HIDE DEF C
      <3>6. Truth(e) = UnitsOf(e) \cup {C(OnlyClick.time, "click", "converted_clicks")}
        BY <3>1, <3>4
      <3> QED
        BY <3>3, <3>5, <3>6
    <2> QED
      BY <2>3, <2>4
  <1> QED
    BY <1>1, <1>4, <1>5, <1>6

(* Conversions in the campaign of a click are measured in the same row.    *)
SameDimensions ==
    \A v, w \in Event :
        v.type = "conversion" /\ w.type = "conversion" /\ v.campaign = w.campaign => v.dims = w.dims

(* Conversions that match count their click in one row, under its one key. *)
LEMMA ConvertedOnce ==
    ASSUME Counted, SameDimensions
    PROVE  /\ \A e \in Arrived : (\E u \in Truth(e) : ~Counting(u)) <=> (e.type = "conversion" /\ Matched(e))
           /\ \A e, f \in Arrived : \A u \in Truth(e), w \in Truth(f) : ~Counting(u) /\ ~Counting(w) => u = w
  <1> DEFINE Converted(e) == Contribution(e, Joined, OnlyClick.time, "click", "converted_clicks")
  <1>1. ASSUME NEW e \in Arrived
        PROVE  /\ \A u \in Truth(e) : ~Counting(u) => e.type = "conversion" /\ Matched(e) /\ u = Converted(e)
               /\ e.type = "conversion" /\ Matched(e) => Converted(e) \in Truth(e)
    <2>1. e \in Event /\ e.type \in {"impression", "click", "conversion"}
      BY EventFacts DEF Arrived
    <2>2. Truth(e) = Metrics(JoinedClick, e) /\ JoinedClick.event = OnlyClick /\ JoinedClick.impression = Joined
      BY DEF Truth, JoinedClick
    <2>3. CASE e.type = "conversion" /\ Matched(e)
      <3> DEFINE C(time, cohort, counter) == Contribution(e, Joined, time, cohort, counter)
      <3>1. Truth(e) = {C(e.time, "occurrence", "matched_conversions")}
                \cup {C(OnlyClick.time, "click", counter) : counter \in {"matched_conversions", "converted_clicks"}}
                \cup {C(OnlyClick.time, "conversion_value", counter) : counter \in {"matched_conversions", "value_minor"}}
        BY <2>2, <2>3 DEF Metrics, Matched, ConversionMetrics
      <3>2. \A time, cohort, counter : C(time, cohort, counter).counter = counter
        BY SameRow
      <3>3. Converted(e) = C(OnlyClick.time, "click", "converted_clicks")
        OBVIOUS
      <3> HIDE DEF C, Converted
      <3>4. \A u \in Truth(e) : ~Counting(u) => u = Converted(e)
        BY <3>1, <3>2, <3>3 DEF Counting
      <3>5. Converted(e) \in Truth(e)
        BY <3>1, <3>3
      <3> QED
        BY <2>3, <3>4, <3>5
    <2>4. CASE ~(e.type = "conversion" /\ Matched(e))
      <3>1. \A u \in Truth(e) : u.counter \in {"impressions", "clicks", "unmatched_conversions"}
        BY <2>1, <2>2, <2>4, TrueCounters DEF Matched
      <3> QED
        BY <2>4, <3>1 DEF Counting
    <2> QED
      BY <2>3, <2>4
  <1>2. ASSUME NEW e \in Arrived, e.type = "conversion", Matched(e)
        PROVE  ~Counting(Converted(e))
    BY SameRow DEF Counting
  <1>3. ASSUME NEW e \in Arrived, NEW f \in Arrived, e.type = "conversion", f.type = "conversion",
               Matched(e), Matched(f)
        PROVE  Converted(e) = Converted(f)
    <2>1. e.campaign = f.campaign
      BY <1>3 DEF Matched, Oracle!Unlinked
    <2>2. e.dims = f.dims
      BY <1>3, <2>1 DEF SameDimensions, Arrived
    <2> QED
      BY <2>2 DEF Contribution
  <1> HIDE DEF Converted
  <1> QED
    BY <1>1, <1>2, <1>3

(* What the joins end with when all was on time.                           *)
LEMMA DrainedAgrees ==
    ASSUME Inv, Prompt, Agreeing, Drained
    PROVE  /\ StatusAgrees
           /\ {u \in contributions : u.counter # "converted_clicks"} = Oracle!ExpectedUnits(Arrived)
           /\ SameDimensions => CountsAgree
  <1>0. Counted
    BY DEF Inv
  <1>1. StatusAgrees /\ \A u : u \in contributions <=> \E e \in Arrived : u \in Truth(e)
    BY AllAccounted
  <1>2. Oracle!ExpectedUnits(Arrived) = UNION {UnitsOf(e) : e \in Arrived}
    BY DEF Oracle!ExpectedUnits, UnitsOf
  <1>3. {u \in contributions : Counting(u)} = UNION {UnitsOf(e) : e \in Arrived}
    <2>1. \A e \in Arrived : {u \in Truth(e) : Counting(u)} = UnitsOf(e)
      BY <1>0, SameUnits
    <2>2. \A e \in Arrived : \A u : u \in UnitsOf(e) <=> u \in Truth(e) /\ Counting(u)
      BY <2>1
    <2> HIDE DEF Counting, UnitsOf
    <2> QED
      BY <1>1, <2>2
  <1>4. {u \in contributions : u.counter # "converted_clicks"} = {u \in contributions : Counting(u)}
    BY DEF Counting
  <1>5. ASSUME SameDimensions
        PROVE  Cardinality({u \in contributions : u.counter = "converted_clicks"})
                 = Oracle!ExpectedConvertedClicks(Arrived)
    <2> DEFINE converted == {u \in contributions : u.counter = "converted_clicks"}
    <2>1. \A u : u \in converted <=> u \in contributions /\ ~Counting(u)
      BY DEF Counting
    <2>2. \A e \in Arrived : (\E u \in Truth(e) : ~Counting(u)) <=> (e.type = "conversion" /\ Matched(e))
      BY <1>0, <1>5, ConvertedOnce
    <2>3. \A e, f \in Arrived : \A u \in Truth(e), w \in Truth(f) : ~Counting(u) /\ ~Counting(w) => u = w
      BY <1>0, <1>5, ConvertedOnce
    <2> HIDE DEF converted, Counting
    <2>4. \A u, w \in converted : u = w
      BY <1>1, <2>1, <2>3
    <2>5. converted # {} <=> \E e \in Arrived : e.type = "conversion" /\ Oracle!IsMatched(Arrived, e)
      <3>1. \A e : Oracle!IsMatched(Arrived, e) <=> Matched(e)
        BY OracleFacts
      <3> QED
        BY <1>1, <2>1, <2>2, <3>1
    <2>6. Cardinality(converted) = IF converted = {} THEN 0 ELSE 1
      <3>1. CASE converted = {}
        BY <3>1, FS_EmptySet
      <3>2. CASE converted # {}
        <4>1. PICK u \in converted : converted = {u}
          BY <2>4, <3>2
        <4> QED
          BY <3>2, <4>1, FS_Singleton
      <3> QED
        BY <3>1, <3>2
    <2>7. Cardinality(converted) = Oracle!ExpectedConvertedClicks(Arrived)
      BY <2>5, <2>6 DEF Oracle!ExpectedConvertedClicks
    <2> QED
      BY <2>7 DEF converted
  <1> QED
    BY <1>1, <1>2, <1>3, <1>4, <1>5 DEF CountsAgree

(* While all is on time the channels keep their order and nothing is       *)
(* decided that a later event on time could change.                        *)
THEOREM AgreeingCorrect == Spec => [](OnTime => Prompt /\ Agreeing)
  <1>1. Inv /\ (OnTime => Prompt /\ Agreeing) /\ [Next]_vars => (OnTime => Prompt /\ Agreeing)'
    <2> SUFFICES ASSUME Inv, OnTime => Prompt /\ Agreeing, [Next]_vars, OnTime'
                 PROVE  Prompt' /\ Agreeing'
      BY DEF OnTime
    <2>1. Prompt /\ Agreeing
      BY OnTimeSoFar
    <2> QED
      BY <2>1, PromptStep, AgreeingStep DEF Inv
  <1> QED
    BY <1>1, OnTimeInit, InvCorrect, PTL DEF Spec

(* The joins end with the oracle's statuses, and with its counters but for *)
(* converted_clicks, for any rules and events, in every order of arrival,  *)
(* repetition, timers and delays (AttributionJob.java, oracle.py).         *)
THEOREM OnTimeUnitsCorrect ==
    Spec => [](Drained /\ punctual /\ idles = 0 =>
                 /\ StatusAgrees
                 /\ {u \in contributions : u.counter # "converted_clicks"} = Oracle!ExpectedUnits(Arrived))
  <1>1. Inv /\ (OnTime => Prompt /\ Agreeing) =>
          (Drained /\ punctual /\ idles = 0 =>
             /\ StatusAgrees
             /\ {u \in contributions : u.counter # "converted_clicks"} = Oracle!ExpectedUnits(Arrived))
    BY DrainedAgrees DEF OnTime
  <1> QED
    BY <1>1, AgreeingCorrect, InvCorrect, PTL

(* All of the agreement, converted_clicks too, when conversions in one     *)
(* campaign have one set of dimensions: a click without an impression is   *)
(* otherwise counted in the row of each (Measurement.java:32-47).          *)
THEOREM OnTimeCorrect == ASSUME SameDimensions PROVE Spec => []OnTimeAgreement
  <1>1. Inv /\ (OnTime => Prompt /\ Agreeing) => OnTimeAgreement
    BY DrainedAgrees DEF OnTime, OnTimeAgreement
  <1> QED
    BY <1>1, AgreeingCorrect, InvCorrect, PTL

(* Under the same condition a click on time counts as converted once       *)
(* (docs/architecture.md:67), at any time and not only at the end.         *)
THEOREM ClickConvertsOnceCorrect ==
    ASSUME SameDimensions PROVE Spec => [](OnTime => ClickConvertsOnce)
  <1>1. Inv /\ (OnTime => Prompt /\ Agreeing) => (OnTime => ClickConvertsOnce)
    <2> SUFFICES ASSUME Inv, Agreeing PROVE ClickConvertsOnce
      OBVIOUS
    <2> DEFINE converted == {u \in contributions : u.counter = "converted_clicks"}
    <2>1. \A u \in converted : u \in contributions /\ ~Counting(u)
      BY DEF Counting
    <2>2. \A u \in contributions : \E e \in Arrived : u \in Truth(e)
      BY DEF Agreeing, RightSoFar
    <2>3. \A e, f \in Arrived : \A u \in Truth(e), w \in Truth(f) : ~Counting(u) /\ ~Counting(w) => u = w
      BY ConvertedOnce DEF Inv
    <2> HIDE DEF converted
    <2>4. \A u, w \in converted : u = w
      BY <2>1, <2>2, <2>3
    <2>5. CASE converted = {}
      BY <2>5, FS_EmptySet DEF ClickConvertsOnce, converted
    <2>6. CASE converted # {}
      <3>1. PICK u \in converted : converted = {u}
        BY <2>4, <2>6
      <3>2. Cardinality(converted) = 1
        BY <3>1, FS_Singleton
      <3> QED
        BY <3>2 DEF ClickConvertsOnce, converted
    <2> QED
      BY <2>5, <2>6
  <1> QED
    BY <1>1, AgreeingCorrect, InvCorrect, PTL
=============================================================================
