-------------------------------- MODULE CleanJob --------------------------------
(***************************************************************************)
(* CleanJob.java: the raw topic is validated, then deduplicated by event   *)
(* id, then by business key. Both layers are the one operator Deduplicate, *)
(* which remembers a key for Dedup of processing time. Records of an event *)
(* id keep their order up to the second layer; those of different ids      *)
(* arrive there in any order.                                              *)
(*                                                                         *)
(* Sources, state and both sinks are restored together from a checkpoint,  *)
(* so a failure of the job is only a delay of what readers have not seen.  *)
(***************************************************************************)
EXTENDS Naturals, Sequences, FiniteSets

CONSTANTS
    Event,      \* [id, key, verdict]: verdict is what the contract says of it
    Dedup,      \* rules.dedup
    MaxClock,   \* bound: last processing time
    None

ASSUME CleanAssumption ==
    /\ Dedup \in Nat \ {0} /\ MaxClock \in Nat /\ None \notin Nat
    /\ \A e \in Event : e.verdict \in {"OK", "SCHEMA_INVALID", "SCHEMA_VERSION_DISABLED", "RULE_FILTERED"}

VARIABLES
    raw,        \* the raw topic: packets [receipt, event]
    read,       \* positions of raw that were read
    between,    \* packets on their way to the second layer, by event id
    expires,    \* expires-processing-v1 of each key of each layer
    timers,     \* pending timers <<key, time>>
    clock,      \* processing time
    quality,    \* rows [receipt, code] of the quality topic
    clean       \* rows [packet, at] of the clean topic

cleanVars == <<read, between, expires, timers, clock, quality, clean>>

Id       == {e.id : e \in Event}
Key      == ({"id"} \X Id) \cup ({"business"} \X {e.key : e \in Event})
EventKey(packet)    == <<"id", packet.event.id>>
BusinessKey(packet) == <<"business", packet.event.key>>

CleanInit ==
    /\ read = {} /\ between = [i \in Id |-> <<>>]
    /\ expires = [k \in Key |-> None] /\ timers = {} /\ clock = 0
    /\ quality = {} /\ clean = {}

-----------------------------------------------------------------------------
(* Validate.                                                               *)

(* Raw is keyed by event id: partitions keep the order of an id.           *)
Reads(n) ==
    /\ n \in DOMAIN raw \ read
    /\ \A m \in 1..(n - 1) : raw[m].event.id = raw[n].event.id => m \in read
    /\ read' = read \cup {n}

(* The code of a quality row determines its disposition.                   *)
Reports(packet, code) == quality' = quality \cup {[receipt |-> packet.receipt, code |-> code]}

Rejects(n) ==
    /\ raw[n].event.verdict # "OK" /\ Reads(n)
    /\ Reports(raw[n], raw[n].event.verdict)
    /\ UNCHANGED <<raw, between, expires, timers, clock, clean>>

-----------------------------------------------------------------------------
(* Deduplicate.                                                            *)

Remembered(k) == expires[k] # None /\ clock < expires[k]

Forgets(k) == expires' = [expires EXCEPT ![k] = None]

(* Wrong variant: only a key that was not there gets a timer.              *)
RemembersQuietly(k) ==
    /\ ~Remembered(k)
    /\ expires' = [expires EXCEPT ![k] = clock + Dedup]
    /\ timers' = IF expires[k] = None THEN timers \cup {<<k, clock + Dedup>>} ELSE timers

Remembers(k) ==
    /\ ~Remembered(k)
    /\ expires' = [expires EXCEPT ![k] = clock + Dedup]
    /\ timers' = timers \cup {<<k, clock + Dedup>>}

(* Wrong variant: the repeated event leaves no trace.                      *)
DropsId(n) ==
    /\ raw[n].event.verdict = "OK" /\ Reads(n)
    /\ Remembered(EventKey(raw[n]))
    /\ UNCHANGED <<raw, between, expires, timers, clock, quality, clean>>

RefusesId(n) ==
    /\ raw[n].event.verdict = "OK" /\ Reads(n)
    /\ Remembered(EventKey(raw[n]))
    /\ Reports(raw[n], "DUPLICATE_EVENT_ID")
    /\ UNCHANGED <<raw, between, expires, timers, clock, clean>>

(* Wrong variant: the first layer checks the id and does not remember it.  *)
PassesIdUnseen(n) ==
    /\ raw[n].event.verdict = "OK" /\ Reads(n)
    /\ ~Remembered(EventKey(raw[n]))
    /\ between' = [between EXCEPT ![raw[n].event.id] = Append(@, raw[n])]
    /\ UNCHANGED <<raw, expires, timers, clock, quality, clean>>

PassesId(n) ==
    /\ raw[n].event.verdict = "OK" /\ Reads(n)
    /\ Remembers(EventKey(raw[n]))
    /\ between' = [between EXCEPT ![raw[n].event.id] = Append(@, raw[n])]
    /\ UNCHANGED <<raw, clock, quality, clean>>

Takes(i) ==
    /\ between[i] # <<>>
    /\ between' = [between EXCEPT ![i] = Tail(@)]

RefusesKey(i) ==
    /\ Takes(i)
    /\ Remembered(BusinessKey(Head(between[i])))
    /\ Reports(Head(between[i]), "DUPLICATE_BUSINESS_KEY")
    /\ UNCHANGED <<raw, read, expires, timers, clock, clean>>

Cleans(i) ==
    LET packet == Head(between[i])
    IN  /\ Takes(i)
        /\ Remembers(BusinessKey(packet))
        /\ Reports(packet, "OK")
        /\ clean' = clean \cup {[packet |-> packet, at |-> clock]}
        /\ UNCHANGED <<raw, read, clock>>

(* Wrong variant: a timer left from before forgets a newer time.           *)
FiresAlways(k, t) ==
    /\ <<k, t>> \in timers /\ t <= clock
    /\ timers' = timers \ {<<k, t>>} /\ Forgets(k)
    /\ UNCHANGED <<raw, read, between, clock, quality, clean>>

Fires(k, t) ==
    /\ <<k, t>> \in timers /\ t <= clock
    /\ timers' = timers \ {<<k, t>>}
    /\ IF expires[k] # None /\ t >= expires[k] THEN Forgets(k) ELSE UNCHANGED expires
    /\ UNCHANGED <<raw, read, between, clock, quality, clean>>

Tick ==
    /\ clock < MaxClock /\ clock' = clock + 1
    /\ UNCHANGED <<raw, read, between, expires, timers, quality, clean>>

CleanSteps ==
    \/ \E n \in DOMAIN raw : Rejects(n) \/ RefusesId(n) \/ PassesId(n)
    \/ \E i \in Id : RefusesKey(i) \/ Cleans(i)

CleanNext == CleanSteps \/ Tick \/ \E k \in Key, t \in 0..(MaxClock + Dedup) : Fires(k, t)

-----------------------------------------------------------------------------
(* The types; a remembered key has a timer that will forget it, and no key *)
(* is remembered for longer than Dedup: the state of CleanJob stays small. *)
CleanTypeOK ==
    /\ read \subseteq DOMAIN raw /\ clock \in 0..MaxClock
    /\ expires \in [Key -> 0..(MaxClock + Dedup) \cup {None}]
    /\ \A k \in Key : expires[k] # None => /\ <<k, expires[k]>> \in timers
                                           /\ expires[k] <= clock + Dedup

(* Two clean rows of a business key are at least Dedup apart, whatever the *)
(* event ids they came with, however often a client sent them, and however *)
(* late a timer fires (CleanJob.java:78-94).                               *)
CleanedApart ==
    \A c, d \in clean :
        (c # d /\ c.packet.event.key = d.packet.event.key) =>
            (c.at + Dedup <= d.at \/ d.at + Dedup <= c.at)
=============================================================================
