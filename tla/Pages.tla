---------------------------------- MODULE Pages ----------------------------------
(***************************************************************************)
(* The result endpoints of api.py, with pagination.py and ClickHouse.page  *)
(* of storage.py. A client walks through the rows of a release page by     *)
(* page: it sends back the cursor of the last page until there is none.    *)
(* The cursor names release, position and expiry under the secret of the   *)
(* API process. Requests beyond the query slots are answered 503 at once,  *)
(* and whatever raises gives its slot back.                                *)
(*                                                                         *)
(* Meanwhile releases are activated, rows of the live release get new      *)
(* versions, cursors expire, and the API restarts with a new secret.       *)
(***************************************************************************)
EXTENDS Integers, FiniteSets, SequencesExt

CONSTANTS
    Client,
    Release, Live,   \* release ids; the live one changes
    Keys,            \* output keys are 1..Keys
    Field,           \* values of the field that is filtered on
    Stored,          \* [Release -> [1..Keys -> sequence of Field]]: versions by offset
    Limit,           \* rows of a page
    Slots,           \* ADPULSE_QUERY_CONCURRENCY
    Ttl,             \* CURSOR_TTL_SECONDS
    MaxClock,        \* bound: last time
    MaxChanges,      \* bound: versions added to live rows
    MaxRestarts,     \* bound: restarts of the API
    None

ASSUME PagesAssumption ==
    /\ Keys \in Nat /\ Limit \in Nat \ {0} /\ Slots \in Nat \ {0} /\ Ttl \in Nat \ {0}
    /\ MaxClock \in Nat /\ MaxChanges \in Nat /\ MaxRestarts \in Nat
    /\ Live \in Release /\ IsFiniteSet(Client) /\ None \notin Nat \cup Release

VARIABLES
    table,    \* results of ClickHouse: [release -> [key -> versions]]
    active,   \* active_release of the deployment
    slots,    \* QUERY_SLOTS
    secret,   \* of the API process
    phase,    \* of the client's request: "idle", "held" or "query"
    request,  \* [release, after, expires] of it
    cursor,   \* what the client sends next: NoCursor, or a cursor
    walk,     \* what it has: [asked, filter, from, keys, since, done]
    steady,   \* keys that matched at every moment of its walk
    ever,     \* keys that matched at some moment of it
    clock, changes

vars == <<table, active, slots, secret, phase, request, cursor, walk, steady, ever, clock, changes>>

Key == 1..Keys
NewWalk == [asked |-> None, filter |-> None, from |-> {}, keys |-> <<>>, since |-> None, done |-> FALSE]
NoRequest == [release |-> None, after |-> 0, expires |-> None]
NoCursor == [release |-> None, after |-> 0, expires |-> None, secret |-> None]

Init ==
    /\ table = Stored /\ active = None
    /\ slots = Slots /\ secret = 0
    /\ phase = [c \in Client |-> "idle"] /\ request = [c \in Client |-> NoRequest]
    /\ cursor = [c \in Client |-> NoCursor]
    /\ \E asked \in [Client -> Release \cup {None}], filter \in [Client -> Field \cup {None}] :
          walk = [c \in Client |-> [NewWalk EXCEPT !.asked = asked[c], !.filter = filter[c]]]
    /\ steady = [c \in Client |-> Key] /\ ever = [c \in Client |-> {}]
    /\ clock = 0 /\ changes = 0

-----------------------------------------------------------------------------
(* ClickHouse.page: the latest version of each key, then the filter.       *)

Matches(versions, filter) == versions # <<>> /\ (filter = None \/ Last(versions) = filter)

(* Wrong variant: the next page begins at the key after the one looked at. *)
NextFromExtra(found) == found[Limit + 1]

NextKey(found) == found[Limit]

(* Keys in their order: the n-th has n - 1 before it.                      *)
Ascending(keys) ==
    [n \in 1..Cardinality(keys) |-> CHOOSE k \in keys : Cardinality({j \in keys : j < k}) = n - 1]

Found(release, after, filter) ==
    Ascending({k \in Key : k > after /\ Matches(table[release][k], filter)})

Expected(t, release, filter) == {k \in Key : t[release][k] # <<>> /\ (filter = None \/ Last(t[release][k]) = filter)}

-----------------------------------------------------------------------------
(* A request.                                                              *)

Acquire(c) ==
    /\ phase[c] = "idle" /\ ~walk[c].done /\ slots > 0
    /\ slots' = slots - 1
    /\ phase' = [phase EXCEPT ![c] = "held"]
    /\ UNCHANGED <<table, active, secret, request, cursor, walk, steady, ever, clock, changes>>

(* The client sends a cursor.                                              *)
Continues(c) == cursor[c].release # None

Authentic(c) == cursor[c].secret = secret /\ clock < cursor[c].expires

ReleaseOf(c) ==
    IF Continues(c) THEN cursor[c].release
    ELSE IF walk[c].asked # None THEN walk[c].asked ELSE active

Decode(c) ==
    /\ phase[c] = "held"
    /\ Continues(c) => Authentic(c)
    /\ ReleaseOf(c) # None
    /\ request' = [request EXCEPT ![c] =
          [release |-> ReleaseOf(c),
           after   |-> cursor[c].after,
           expires |-> cursor[c].expires]]
    /\ phase' = [phase EXCEPT ![c] = "query"]
    /\ UNCHANGED <<table, active, slots, secret, cursor, walk, steady, ever, clock, changes>>

(* Wrong variant: every page has a lease of its own.                       *)
LeaseRenewed(c) == clock + Ttl

Lease(c) == IF request[c].expires = None THEN clock + Ttl ELSE request[c].expires

(* What the client has after one more page.                                *)
Further(w, release, page, more) ==
    [w EXCEPT !.from = @ \cup {release}, !.keys = @ \o page,
              !.since = IF w.from = {} THEN clock ELSE @, !.done = ~more]

Page(c) ==
    LET found == Found(request[c].release, request[c].after, walk[c].filter)
        more  == Len(found) > Limit
    IN  /\ phase[c] = "query"
        /\ walk' = [walk EXCEPT ![c] = Further(walk[c], request[c].release,
                      SubSeq(found, 1, IF more THEN Limit ELSE Len(found)), more)]
        /\ cursor' = [cursor EXCEPT ![c] =
              IF more THEN [release |-> request[c].release, after |-> NextKey(found),
                            expires |-> Lease(c), secret |-> secret]
              ELSE NoCursor]
        /\ LET matching == Expected(table, request[c].release, walk[c].filter)
           IN  /\ steady' = [steady EXCEPT ![c] = @ \cap matching]
               /\ ever' = [ever EXCEPT ![c] = @ \cup matching]
        /\ slots' = slots + 1
        /\ phase' = [phase EXCEPT ![c] = "idle"] /\ request' = [request EXCEPT ![c] = NoRequest]
        /\ UNCHANGED <<table, active, secret, clock, changes>>

(* Wrong variant: the slot of a request that raised is gone.               *)
RaiseKeepsSlot(c) ==
    /\ phase[c] # "idle"
    /\ phase' = [phase EXCEPT ![c] = "idle"] /\ request' = [request EXCEPT ![c] = NoRequest]
    /\ UNCHANGED <<table, active, slots, secret, cursor, walk, steady, ever, clock, changes>>

(* A cursor refused, no active release, a release not servable, a query    *)
(* that failed or was cut off by its budget. The client may ask again.     *)
Raise(c) ==
    /\ phase[c] # "idle"
    /\ slots' = slots + 1
    /\ phase' = [phase EXCEPT ![c] = "idle"] /\ request' = [request EXCEPT ![c] = NoRequest]
    /\ UNCHANGED <<table, active, secret, cursor, walk, steady, ever, clock, changes>>

(* What the answers 400 and CURSOR_EXPIRED tell the client to do.          *)
StartOver(c) ==
    /\ phase[c] = "idle" /\ Continues(c) /\ ~Authentic(c)
    /\ cursor' = [cursor EXCEPT ![c] = NoCursor]
    /\ walk' = [walk EXCEPT ![c] = [NewWalk EXCEPT !.asked = walk[c].asked, !.filter = walk[c].filter]]
    /\ steady' = [steady EXCEPT ![c] = Key] /\ ever' = [ever EXCEPT ![c] = {}]
    /\ UNCHANGED <<table, active, slots, secret, phase, request, clock, changes>>

-----------------------------------------------------------------------------
(* Everything else.                                                        *)

Activate(r) ==
    /\ active # r /\ active' = r
    /\ UNCHANGED <<table, slots, secret, phase, request, cursor, walk, steady, ever, clock, changes>>

(* The sink writes a new version of a live row.                            *)
LiveChanges(k, value) ==
    /\ changes < MaxChanges /\ changes' = changes + 1
    /\ table' = [table EXCEPT ![Live][k] = Append(@, value)]
    /\ steady' = [c \in Client |-> IF walk[c].from = {Live}
                    THEN steady[c] \cap Expected(table', Live, walk[c].filter) ELSE steady[c]]
    /\ ever' = [c \in Client |-> IF walk[c].from = {Live}
                    THEN ever[c] \cup Expected(table', Live, walk[c].filter) ELSE ever[c]]
    /\ UNCHANGED <<active, slots, secret, phase, request, cursor, walk, clock>>

Tick ==
    /\ clock < MaxClock /\ clock' = clock + 1
    /\ UNCHANGED <<table, active, slots, secret, phase, request, cursor, walk, steady, ever, changes>>

(* Without ADPULSE_CURSOR_SECRET each process makes up its own.            *)
Restart ==
    /\ secret < MaxRestarts /\ secret' = secret + 1
    /\ slots' = Slots
    /\ phase' = [c \in Client |-> "idle"] /\ request' = [c \in Client |-> NoRequest]
    /\ UNCHANGED <<table, active, cursor, walk, steady, ever, clock, changes>>

Next ==
    \/ \E c \in Client : Acquire(c) \/ Decode(c) \/ Page(c) \/ Raise(c) \/ StartOver(c)
    \/ \E r \in Release : Activate(r)
    \/ \E k \in Key, value \in Field : LiveChanges(k, value)
    \/ Tick \/ Restart

Spec == Init /\ [][Next]_vars

-----------------------------------------------------------------------------
(* Clients whose request is at work.                                       *)
Busy == {c \in Client : phase[c] # "idle"}

(* The types; every slot is free or held by one request at work, so that   *)
(* no error and no interleaving wears the capacity out (api.py:41-48).     *)
TypeOK ==
    /\ active \in Release \cup {None} /\ secret \in 0..MaxRestarts
    /\ slots \in 0..Slots
    /\ slots + Cardinality(Busy) = Slots
    /\ \A c \in Client : /\ phase[c] \in {"idle", "held", "query"}
                         /\ walk[c].from \subseteq Release
                         /\ steady[c] \subseteq Key /\ ever[c] \subseteq Key
    /\ clock \in 0..MaxClock /\ changes \in 0..MaxChanges

(* A walk stays in one release, though another one may be activated        *)
(* between any two pages, and gives no key twice; when it ends it has      *)
(* given every key that matched all along, and only keys that matched at   *)
(* some time - those that match, when the release does not change          *)
(* (api.py:61-62, storage.py:155-199).                                     *)
WalkComplete ==
    \A c \in Client :
        /\ Cardinality(walk[c].from) <= 1
        /\ \A m, n \in DOMAIN walk[c].keys : m < n => walk[c].keys[m] < walk[c].keys[n]
        /\ ToSet(walk[c].keys) \subseteq ever[c]
        /\ walk[c].done => steady[c] \subseteq ToSet(walk[c].keys)

(* Pages after the first are only asked of ClickHouse within Ttl of the    *)
(* first, however many there are and whatever the time that passes between *)
(* the check of a cursor and the page: expired cursors are refused, and    *)
(* following cursors does not renew the lease (api.py:81,                  *)
(* pagination.py:43-48, 70-71).                                            *)
LeaseBounded ==
    [][\A c \in Client :
         walk[c].from # {} /\ phase[c] = "held" /\ phase'[c] = "query" =>
             clock < walk[c].since + Ttl]_vars
=============================================================================
