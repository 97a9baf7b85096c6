------------------------------- MODULE Aggregate -------------------------------
(***************************************************************************)
(* HistoricalDimension and Aggregate of AttributionJob.java, for the       *)
(* contributions of one campaign. HistoricalDimension gives a contribution *)
(* the channel its campaign had at that event time, as far as the CDC      *)
(* stream told, and so selects the metric row. Aggregate keeps, per row,   *)
(* every contribution by its identity and the full row, emits the row some *)
(* time after a change, and clears it when the watermark passes its window *)
(* and the retention.                                                      *)
(*                                                                         *)
(* A processing-time timer fires at any time after it was registered. Due  *)
(* event-time timers fire before the next element. Outputs are committed   *)
(* with checkpoints, so a failure shows only as a restart from a state that*)
(* readers know; state and timers survive it, the watermark does not.      *)
(***************************************************************************)
EXTENDS Integers, FiniteSets, FiniteSetsExt

CONSTANTS
    Contribution,   \* [id, time, value]; the id determines the others
    Dimension,      \* rows of campaign_versions [from, to, version, channel]
    Window,         \* rules.window
    Retention,      \* rules.retention
    MaxRepeats,     \* bound: how often a contribution comes again
    MaxWatermark,   \* bound: last watermark
    MaxRestarts,    \* bound: restarts of the job
    None

ASSUME AggregateAssumption ==
    /\ Window \in Nat \ {0} /\ Retention \in Nat
    /\ MaxRepeats \in Nat /\ MaxWatermark \in Nat /\ MaxRestarts \in Nat
    /\ None \notin Nat /\ IsFiniteSet(Contribution)
    /\ \A c \in Contribution : c.time \in Nat /\ c.value \in Nat
    /\ \A c, d \in Contribution : c.id = d.id => c = d
    /\ \A d \in Dimension : d.from \in Nat /\ d.version \in Nat /\ (d.to = None \/ d.to \in Nat)

VARIABLES
    arrivals,       \* how often each contribution has come
    known,          \* broadcast state dimension history
    moved,          \* a change of dimensions came after contributions it concerns
    watermark,
    restarts,
    contributions,  \* contribution-values-json-v1 of each row, by identity
    total,          \* full-metric-json-v1 of each row, None when cleared
    nextEmit,       \* next-emit-processing-v1 of each row is set
    receipts,       \* pending-visibility-json-v1 of each row
    emissions,      \* processing-time timers of each row
    cleanups,       \* rows with an event-time timer
    output,         \* the last row emitted
    visible,        \* receipts in the receipt_updates of emitted rows
    signals

input    == <<arrivals, known, moved>>
progress == <<watermark, restarts>>
keyed    == <<contributions, total, nextEmit, receipts, emissions, cleanups>>
outputs  == <<output, visible, signals>>
vars     == <<input, progress, keyed, outputs>>

Id      == {c.id : c \in Contribution}
Channel == {d.channel : d \in Dimension} \cup {"unknown"}
Start(time) == (time \div Window) * Window
Row     == {<<channel, Start(c.time)>> : channel \in Channel, c \in Contribution}
Cleanup(r) == r[2] + Window + Retention

Arrived == {c \in Contribution : arrivals[c] > 0}

Init ==
    /\ arrivals = [c \in Contribution |-> 0] /\ known = {} /\ moved = FALSE
    /\ watermark = 0 /\ restarts = 0
    /\ contributions = [r \in Row |-> [i \in {} |-> 0]]
    /\ total = [r \in Row |-> None] /\ nextEmit = [r \in Row |-> FALSE]
    /\ receipts = [r \in Row |-> {}]
    /\ emissions = [r \in Row |-> 0] /\ cleanups = {}
    /\ output = [r \in Row |-> None] /\ visible = {} /\ signals = {}

-----------------------------------------------------------------------------
(* HistoricalDimension.                                                    *)

(* Wrong variant: the end of a version is not checked.                     *)
ValidSince(d, time) == d.from <= time

ValidAt(d, time) == d.from <= time /\ (d.to # None => time < d.to)

(* The version that counts at a time: the latest by source, then by start. *)
DimensionAt(dimensions, time) ==
    LET candidates == {d \in dimensions : ValidAt(d, time)}
    IN  {d \in candidates : \A e \in candidates :
            e.version < d.version \/ (e.version = d.version /\ e.from <= d.from)}

RowOf(dimensions, c) ==
    LET best == DimensionAt(dimensions, c.time)
    IN  <<IF best = {} THEN "unknown" ELSE (CHOOSE d \in best : TRUE).channel, Start(c.time)>>

TimersFired == \A r \in cleanups : watermark < Cleanup(r)

(* A change of a version replaces it; a deletion is a change to "deleted". *)
DimensionArrives(d) ==
    LET now == {e \in known : e.from # d.from \/ e.version # d.version} \cup {d}
    IN  /\ TimersFired
        /\ d \notin known
        /\ known' = now
        /\ moved' = (moved \/ \E c \in Arrived : RowOf(known, c) # RowOf(now, c))
        /\ signals' = signals \cup {"DIMENSION_CHANGE_REPLAY_REQUIRED"}
        /\ UNCHANGED <<arrivals, progress, keyed, output, visible>>

-----------------------------------------------------------------------------
(* Aggregate.                                                              *)

Comes(c) ==
    /\ TimersFired
    /\ arrivals[c] <= MaxRepeats
    /\ arrivals' = [arrivals EXCEPT ![c] = @ + 1]

HistorySignal(c) ==
    IF DimensionAt(known, c.time) = {} THEN {"DIMENSION_HISTORY_MISSING"} ELSE {}

Frozen(c) ==
    /\ Comes(c)
    /\ watermark >= Cleanup(RowOf(known, c))
    /\ signals' = signals \cup HistorySignal(c) \cup {"METRIC_FROZEN_REPLAY_REQUIRED"}
    /\ UNCHANGED <<known, moved, progress, keyed, output, visible>>

(* A contribution replaces the one with its identity.                      *)
CountsAs(c, r, previous) ==
    /\ Comes(c)
    /\ watermark < Cleanup(r)
    /\ total' = [total EXCEPT ![r] = (IF @ = None THEN 0 ELSE @) - previous + c.value]
    /\ contributions' = [contributions EXCEPT ![r] = [i \in DOMAIN @ \cup {c.id} |->
                            IF i = c.id THEN c.value ELSE contributions[r][i]]]
    /\ receipts' = [receipts EXCEPT ![r] = @ \cup {c.id}]
    /\ nextEmit' = [nextEmit EXCEPT ![r] = TRUE]
    /\ emissions' = [emissions EXCEPT ![r] = IF nextEmit[r] THEN @ ELSE @ + 1]
    /\ cleanups' = cleanups \cup {r}
    /\ signals' = signals \cup HistorySignal(c)
    /\ UNCHANGED <<known, moved, progress, output, visible>>

(* Wrong variant: what the contribution replaces is not taken off.         *)
CountsAgain(c) == CountsAs(c, RowOf(known, c), 0)

Counts(c) ==
    LET r == RowOf(known, c)
    IN  CountsAs(c, r, IF c.id \in DOMAIN contributions[r] THEN contributions[r][c.id] ELSE 0)

(* onTimer: the row is emitted with the receipts it makes visible.         *)
Emits(r) ==
    /\ total[r] # None
    /\ output' = [output EXCEPT ![r] = total[r]]
    /\ visible' = visible \cup receipts[r]
    /\ receipts' = [receipts EXCEPT ![r] = {}]

(* Wrong variant: the row still counts as scheduled.                       *)
EmissionKeepsMark(r) ==
    /\ emissions[r] > 0 /\ TimersFired
    /\ emissions' = [emissions EXCEPT ![r] = @ - 1]
    /\ Emits(r)
    /\ UNCHANGED <<input, progress, contributions, total, nextEmit, cleanups, signals>>

EmissionTimer(r) ==
    /\ emissions[r] > 0 /\ TimersFired
    /\ emissions' = [emissions EXCEPT ![r] = @ - 1]
    /\ Emits(r)
    /\ nextEmit' = [nextEmit EXCEPT ![r] = FALSE]
    /\ UNCHANGED <<input, progress, contributions, total, cleanups, signals>>

CleanupWith(r, timers) ==
    /\ r \in cleanups /\ watermark >= Cleanup(r)
    /\ cleanups' = cleanups \ {r}
    /\ Emits(r)
    /\ contributions' = [contributions EXCEPT ![r] = [i \in {} |-> 0]]
    /\ total' = [total EXCEPT ![r] = None]
    /\ emissions' = timers
    /\ nextEmit' = [nextEmit EXCEPT ![r] = FALSE]
    /\ UNCHANGED <<input, progress, signals>>

(* Wrong variant: the emission that is now void stays registered.          *)
CleanupKeepsEmission(r) == CleanupWith(r, emissions)

CleanupTimer(r) ==
    CleanupWith(r, [emissions EXCEPT ![r] = IF nextEmit[r] THEN @ - 1 ELSE @])

WatermarkAdvances(t) ==
    /\ TimersFired
    /\ watermark < t
    /\ watermark' = t
    /\ UNCHANGED <<input, restarts, keyed, outputs>>

(* Flink does not restore watermarks.                                      *)
Restart ==
    /\ restarts < MaxRestarts
    /\ restarts' = restarts + 1
    /\ watermark' = 0
    /\ UNCHANGED <<input, keyed, outputs>>

Next ==
    \/ \E d \in Dimension : DimensionArrives(d)
    \/ \E c \in Contribution : Frozen(c) \/ Counts(c)
    \/ \E r \in Row : EmissionTimer(r) \/ CleanupTimer(r)
    \/ \E t \in 1..MaxWatermark : WatermarkAdvances(t)
    \/ Restart

Spec == Init /\ [][Next]_vars

(* Flink fires the timers of a running job.                                *)
FairSpec == Spec /\ \A r \in Row : WF_vars(EmissionTimer(r)) /\ WF_vars(CleanupTimer(r))

-----------------------------------------------------------------------------
(* dimension_at and add() of oracle.py, over everything that came.         *)
OracleChannel(dimensions, time) ==
    LET candidates == {d \in dimensions : d.from <= time /\ (d.to = None \/ time < d.to)}
        NotAfter(e, d) == e.version < d.version \/ (e.version = d.version /\ e.from <= d.from)
        latest == CHOOSE d \in candidates : \A e \in candidates : NotAfter(e, d)
    IN  IF candidates = {} THEN "unknown" ELSE latest.channel

OracleValue(r) ==
    LET cs == {c \in Arrived : r = <<OracleChannel(known, c.time), Start(c.time)>>}
    IN  IF cs = {} THEN None ELSE MapThenSumSet(LAMBDA c : c.value, cs)

-----------------------------------------------------------------------------
(* The types; timers of a row exist exactly when next-emit is set, so that *)
(* a row is neither emitted twice for one change nor never.                *)
TypeOK ==
    /\ arrivals \in [Contribution -> 0..(MaxRepeats + 1)]
    /\ known \subseteq Dimension /\ moved \in BOOLEAN
    /\ watermark \in 0..MaxWatermark /\ restarts \in 0..MaxRestarts
    /\ \A r \in Row : /\ DOMAIN contributions[r] \subseteq Id
                      /\ total[r] # None => total[r] \in Nat
                      /\ emissions[r] = IF nextEmit[r] THEN 1 ELSE 0
    /\ receipts \in [Row -> SUBSET Id] /\ cleanups \subseteq Row /\ visible \subseteq Id

(* Rows are what MetricRow promises: the incremental total is the sum of   *)
(* the contributions in the row, each counted once however often it came,  *)
(* and a closed row stays (AttributionJob.java:196-230).                   *)
Rows == INSTANCE MetricRow WITH
    counted <- [r \in Row |-> {c \in Contribution : c.id \in DOMAIN contributions[r]}],
    shown   <- output,
    frozen  <- {r \in Row \ cleanups : watermark >= Cleanup(r)}
RowsImplemented == Rows!Spec

(* When no dimension changed under contributions already counted and none  *)
(* was refused, rows at rest are those the oracle computes, channel and    *)
(* all, whatever the order of contributions, dimensions and timers.        *)
RowsAgree ==
    ( /\ ~moved /\ restarts = 0
      /\ "METRIC_FROZEN_REPLAY_REQUIRED" \notin signals
      /\ \A r \in Row : ~nextEmit[r] )
    => \A r \in Row : output[r] = OracleValue(r)

(* Every contribution that was counted is shown in the end, and its        *)
(* receipt is reported visible: no update is left without a timer.         *)
AllShown ==
    \A r \in Row : (total[r] # None /\ (total[r] # output[r] \/ receipts[r] # {}))
        ~> (total[r] = None \/ (total[r] = output[r] /\ receipts[r] = {}))

(* docs/architecture.md:52: events for a frozen metric ask for a replay, a *)
(* result of the past is never overwritten by an aggregate that starts     *)
(* empty. Contributions are counters, so a row never shows less.           *)
HistoryKept == [][\A r \in Row : output[r] # None => output'[r] >= output[r]]_vars
=============================================================================
