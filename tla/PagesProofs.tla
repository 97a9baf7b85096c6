------------------------------ MODULE PagesProofs ------------------------------
(* Proofs about Pages for any clients, releases, rows, slots and limits.   *)
EXTENDS Pages, FiniteSetTheorems, TLAPS

-----------------------------------------------------------------------------
(* The inductive invariant.                                                *)

Shapes ==
    /\ DOMAIN phase = Client /\ DOMAIN request = Client /\ DOMAIN cursor = Client
    /\ DOMAIN walk = Client /\ DOMAIN steady = Client /\ DOMAIN ever = Client
    /\ secret \in Nat /\ clock \in Nat /\ changes \in Nat
    /\ \A c \in Client :
          /\ DOMAIN walk[c] = {"asked", "filter", "from", "keys", "since", "done"}
          /\ walk[c].asked \in Release \cup {None} /\ walk[c].done \in BOOLEAN

(* What a lease says of the walk it belongs to.                            *)
LeaseOf(c, release, expires) ==
    /\ expires \in Nat /\ walk[c].since \in Nat /\ expires <= walk[c].since + Ttl
    /\ walk[c].from = {release} /\ release \in Release

CursorSound(c) == Continues(c) => LeaseOf(c, cursor[c].release, cursor[c].expires)

RequestSound(c) ==
    phase[c] = "query" =>
        IF request[c].expires = None
        THEN walk[c].from = {} /\ request[c].release \in Release
        ELSE LeaseOf(c, request[c].release, request[c].expires)

(* A walk has rows of one release; under way it has a cursor to go on      *)
(* with, and at its end no request.                                        *)
WalkSound(c) ==
    /\ \A r, s \in walk[c].from : r = s
    /\ ~Continues(c) => cursor[c].expires = None
    /\ walk[c].from # {} /\ ~walk[c].done => Continues(c)
    /\ walk[c].done => phase[c] = "idle" /\ ~Continues(c)

Sound(c) == CursorSound(c) /\ RequestSound(c) /\ WalkSound(c)

Inv == Shapes /\ TypeOK /\ \A c \in Client : Sound(c)

-----------------------------------------------------------------------------
(* No walk has begun and every slot is free at the start.                  *)
LEMMA InitInv == Init => Inv
  <1> SUFFICES ASSUME Init PROVE Inv
    OBVIOUS
  <1>1. PICK asked \in [Client -> Release \cup {None}], filter \in [Client -> Field \cup {None}] :
            walk = [c \in Client |-> [NewWalk EXCEPT !.asked = asked[c], !.filter = filter[c]]]
    BY DEF Init
  <1>2. /\ active = None /\ slots = Slots /\ secret = 0 /\ clock = 0 /\ changes = 0
        /\ phase = [c \in Client |-> "idle"] /\ request = [c \in Client |-> NoRequest]
        /\ cursor = [c \in Client |-> NoCursor]
        /\ steady = [c \in Client |-> Key] /\ ever = [c \in Client |-> {}]
    BY DEF Init
  <1>3. ASSUME NEW c \in Client
        PROVE  /\ DOMAIN walk[c] = {"asked", "filter", "from", "keys", "since", "done"}
               /\ walk[c].asked \in Release \cup {None} /\ walk[c].done = FALSE
               /\ walk[c].from = {}
    BY <1>1 DEF NewWalk
  <1>4. Shapes
    BY <1>1, <1>2, <1>3 DEF Shapes
  <1>5. slots \in 0..Slots /\ slots + Cardinality(Busy) = Slots
    <2>1. Busy = {}
      BY <1>2 DEF Busy
    <2> QED
      BY <1>2, <2>1, FS_EmptySet, PagesAssumption
  <1>6. TypeOK
    <2>1. active \in Release \cup {None}
      BY <1>2
    <2>2. secret \in 0..MaxRestarts
      BY <1>2, PagesAssumption
    <2>3. clock \in 0..MaxClock /\ changes \in 0..MaxChanges
      BY <1>2, PagesAssumption
    <2>4. ASSUME NEW c \in Client PROVE /\ phase[c] \in {"idle", "held", "query"}
                         /\ walk[c].from \subseteq Release
                         /\ steady[c] \subseteq Key /\ ever[c] \subseteq Key
      BY <1>2, <1>3
    <2> QED
      BY <1>5, <2>1, <2>2, <2>3, <2>4 DEF TypeOK
  <1>7. ASSUME NEW c \in Client PROVE Sound(c)
    BY <1>2, <1>3 DEF Sound, CursorSound, RequestSound, WalkSound, Continues, NoCursor
  <1> QED
    BY <1>4, <1>6, <1>7 DEF Inv

-----------------------------------------------------------------------------
(* The slots. A request takes one and gives it back.                       *)
LEMMA BusyFinite == IsFiniteSet(Busy) /\ Cardinality(Busy) \in Nat
  <1>1. IsFiniteSet(Busy)
    BY PagesAssumption, FS_Subset DEF Busy
  <1> QED
    BY <1>1, FS_CardinalityType

(* A request that begins is counted.                                       *)
LEMMA SlotTaken ==
    ASSUME Inv, NEW c \in Client, phase[c] = "idle", NEW next \in {"held", "query"},
           phase' = [phase EXCEPT ![c] = next], slots > 0, slots' = slots - 1
    PROVE  slots' \in 0..Slots /\ slots' + Cardinality(Busy') = Slots
  <1>1. Busy' = Busy \cup {c} /\ c \notin Busy
    BY DEF Busy, Inv, Shapes
  <1>2. Cardinality(Busy') = Cardinality(Busy) + 1
    BY <1>1, BusyFinite, FS_AddElement
  <1> QED
    BY <1>2, BusyFinite, PagesAssumption DEF Inv, TypeOK, Busy

(* A request that ends is not counted any more.                            *)
LEMMA SlotReturned ==
    ASSUME Inv, NEW c \in Client, phase[c] # "idle",
           phase' = [phase EXCEPT ![c] = "idle"], slots' = slots + 1
    PROVE  slots' \in 0..Slots /\ slots' + Cardinality(Busy') = Slots
  <1>1. Busy' = Busy \ {c} /\ c \in Busy
    BY DEF Busy, Inv, Shapes
  <1>2. Cardinality(Busy') = Cardinality(Busy) - 1 /\ IsFiniteSet(Busy')
    BY <1>1, BusyFinite, FS_RemoveElement
  <1>3. Cardinality(Busy') \in Nat
    BY <1>2, FS_CardinalityType
  <1> QED
    BY <1>2, <1>3, BusyFinite, PagesAssumption DEF Inv, TypeOK, Busy

-----------------------------------------------------------------------------
(* What a client keeps when only other clients, releases or rows move.     *)
LEMMA SoundKept ==
    ASSUME NEW c \in Client, Sound(c), cursor'[c] = cursor[c], request'[c] = request[c],
           walk'[c] = walk[c], phase'[c] = phase[c]
    PROVE  Sound(c)'
  BY DEF Sound, CursorSound, RequestSound, WalkSound, LeaseOf, Continues

(* A request that gives up leaves cursor and walk as they are.             *)
LEMMA SoundIdle ==
    ASSUME NEW c \in Client, Sound(c), cursor'[c] = cursor[c], walk'[c] = walk[c], phase'[c] = "idle"
    PROVE  Sound(c)'
  BY DEF Sound, CursorSound, RequestSound, WalkSound, LeaseOf, Continues

(* A request begins.                                                       *)
LEMMA AcquireStep == ASSUME Inv, NEW c \in Client, Acquire(c) PROVE Inv'
  <1>1. Shapes'
    BY DEF Inv, Shapes, Acquire
  <1>2. slots' \in 0..Slots /\ slots' + Cardinality(Busy') = Slots
    BY SlotTaken DEF Acquire
  <1>3. TypeOK'
    BY <1>2 DEF Inv, Shapes, TypeOK, Acquire
  <1>4. Sound(c)'
    BY DEF Inv, Shapes, Acquire, Sound, CursorSound, RequestSound, WalkSound, LeaseOf, Continues
  <1>5. \A d \in Client \ {c} : Sound(d)'
    BY SoundKept DEF Inv, Shapes, Acquire
  <1> QED
    BY <1>1, <1>3, <1>4, <1>5 DEF Inv

(* The cursor gives the release and the lease of the request.              *)
LEMMA DecodeStep == ASSUME Inv, NEW c \in Client, Decode(c) PROVE Inv'
  <1>1. Shapes'
    BY DEF Inv, Shapes, Decode
  <1>2. Busy' = Busy
    BY DEF Inv, Shapes, Decode, Busy
  <1>3. TypeOK'
    BY <1>2 DEF Inv, Shapes, TypeOK, Decode
  <1>4. ReleaseOf(c) \in Release
    BY DEF Inv, Shapes, TypeOK, Decode, ReleaseOf, Sound, CursorSound, LeaseOf
  <1>5. ~walk[c].done
    BY DEF Inv, Decode, Sound, WalkSound
  <1>6. /\ request'[c].release = ReleaseOf(c) /\ request'[c].expires = cursor[c].expires
        /\ phase'[c] = "query"
    BY DEF Inv, Shapes, Decode
  <1>7. ASSUME Continues(c) PROVE Sound(c)'
    <2>1. request'[c].release = cursor[c].release
      BY <1>6, <1>7 DEF ReleaseOf
    <2>2. request'[c].expires # None
      BY <1>6, <1>7, PagesAssumption DEF Inv, Sound, CursorSound, LeaseOf
    <2> QED
      BY <1>5, <1>6, <1>7, <2>1, <2>2 DEF Inv, Decode, Sound, CursorSound, RequestSound, WalkSound, LeaseOf, Continues
  <1>8. ASSUME ~Continues(c) PROVE Sound(c)'
    BY <1>4, <1>5, <1>6, <1>8 DEF Inv, Decode, Sound, CursorSound, RequestSound, WalkSound, LeaseOf, Continues
  <1>9. \A d \in Client \ {c} : Sound(d)'
    BY SoundKept DEF Inv, Shapes, Decode
  <1> QED
    BY <1>1, <1>3, <1>7, <1>8, <1>9 DEF Inv

(* A page and the cursor for the next one: the lease of the first page is  *)
(* carried along.                                                          *)
LEMMA PageStep == ASSUME Inv, NEW c \in Client, Page(c) PROVE Inv'
  <1> DEFINE found == Found(request[c].release, request[c].after, walk[c].filter)
             more  == Len(found) > Limit
  <1>1. /\ phase[c] = "query"
        /\ phase' = [phase EXCEPT ![c] = "idle"] /\ request' = [request EXCEPT ![c] = NoRequest]
        /\ slots' = slots + 1
        /\ UNCHANGED <<active, secret, clock, changes>>
    BY DEF Page
  <1>2. cursor' = [cursor EXCEPT ![c] =
              IF more THEN [release |-> request[c].release, after |-> NextKey(found),
                            expires |-> Lease(c), secret |-> secret]
              ELSE NoCursor]
    BY DEF Page
  <1>3. walk' = [walk EXCEPT ![c] = Further(walk[c], request[c].release,
                      SubSeq(found, 1, IF more THEN Limit ELSE Len(found)), more)]
    BY DEF Page
  <1> HIDE DEF found, more
  <1>4. /\ DOMAIN walk' = Client /\ \A d \in Client \ {c} : walk'[d] = walk[d]
        /\ DOMAIN walk'[c] = DOMAIN walk[c] /\ walk'[c].asked = walk[c].asked
        /\ walk'[c].from = walk[c].from \cup {request[c].release}
        /\ walk'[c].since = IF walk[c].from = {} THEN clock ELSE walk[c].since
        /\ walk'[c].done = ~more
    <2>1. DOMAIN walk = Client /\ DOMAIN walk[c] = {"asked", "filter", "from", "keys", "since", "done"}
      BY DEF Inv, Shapes
    <2>2. DOMAIN walk' = Client /\ \A d \in Client \ {c} : walk'[d] = walk[d]
      BY <1>3, <2>1
    <2>3. walk'[c] = Further(walk[c], request[c].release,
                      SubSeq(found, 1, IF more THEN Limit ELSE Len(found)), more)
      BY <1>3, <2>1
    <2> QED
      BY <2>1, <2>2, <2>3 DEF Further
  <1>5. /\ DOMAIN steady' = Client /\ DOMAIN ever' = Client
        /\ \A d \in Client : steady'[d] \subseteq Key /\ ever'[d] \subseteq Key
    BY DEF Inv, Shapes, TypeOK, Page, Expected
  <1>6. Shapes'
    BY <1>1, <1>2, <1>4, <1>5 DEF Inv, Shapes
  <1>7. request[c].release \in Release
    BY <1>1 DEF Inv, Sound, RequestSound, LeaseOf
  <1>8. slots' \in 0..Slots /\ slots' + Cardinality(Busy') = Slots
    BY <1>1, SlotReturned
  <1>9. TypeOK'
    BY <1>1, <1>4, <1>5, <1>7, <1>8 DEF Inv, Shapes, TypeOK
  <1>10. ASSUME more PROVE Sound(c)'
    <2>1. /\ cursor'[c].release = request[c].release /\ cursor'[c].expires = Lease(c)
          /\ phase'[c] = "idle" /\ ~walk'[c].done
      BY <1>1, <1>2, <1>4, <1>10 DEF Inv, Shapes
    <2>2. /\ Lease(c) \in Nat /\ walk'[c].since \in Nat /\ Lease(c) <= walk'[c].since + Ttl
          /\ walk'[c].from = {request[c].release}
      <3>1. CASE request[c].expires = None
        BY <1>1, <1>4, <3>1, PagesAssumption DEF Inv, Shapes, Sound, RequestSound, Lease
      <3>2. CASE request[c].expires # None
        BY <1>1, <1>4, <3>2 DEF Inv, Shapes, Sound, RequestSound, LeaseOf, Lease
      <3> QED
        BY <3>1, <3>2
    <2> QED
      BY <1>7, <2>1, <2>2, PagesAssumption DEF Sound, CursorSound, RequestSound, WalkSound, LeaseOf, Continues
  <1>11. ASSUME ~more PROVE Sound(c)'
    <2>1. walk[c].from \subseteq {request[c].release}
      BY <1>1 DEF Inv, Sound, RequestSound, LeaseOf
    <2>2. walk'[c].from = {request[c].release}
      BY <1>4, <2>1
    <2> QED
      BY <1>1, <1>2, <1>4, <1>11, <2>2 DEF Inv, Shapes, NoCursor, Sound, CursorSound, RequestSound, WalkSound, Continues
  <1>12. \A d \in Client \ {c} : Sound(d)'
    BY <1>1, <1>2, <1>4, SoundKept DEF Inv, Shapes
  <1> QED
    BY <1>6, <1>9, <1>10, <1>11, <1>12 DEF Inv

(* A request that is refused gives its slot back, and nothing else changes.*)
LEMMA RaiseStep == ASSUME Inv, NEW c \in Client, Raise(c) PROVE Inv'
  <1>1. Shapes'
    BY DEF Inv, Shapes, Raise
  <1>2. slots' \in 0..Slots /\ slots' + Cardinality(Busy') = Slots
    BY SlotReturned DEF Raise
  <1>3. TypeOK'
    BY <1>2 DEF Inv, Shapes, TypeOK, Raise
  <1>4. Sound(c)'
    BY SoundIdle DEF Inv, Shapes, Raise
  <1>5. \A d \in Client \ {c} : Sound(d)'
    BY SoundKept DEF Inv, Shapes, Raise
  <1> QED
    BY <1>1, <1>3, <1>4, <1>5 DEF Inv

(* A walk that begins anew has neither rows nor a lease.                   *)
LEMMA StartOverStep == ASSUME Inv, NEW c \in Client, StartOver(c) PROVE Inv'
  <1>1. walk'[c] = [NewWalk EXCEPT !.asked = walk[c].asked, !.filter = walk[c].filter]
    BY DEF Inv, Shapes, StartOver
  <1>2. /\ DOMAIN walk'[c] = {"asked", "filter", "from", "keys", "since", "done"}
        /\ walk'[c].asked = walk[c].asked /\ walk'[c].done = FALSE /\ walk'[c].from = {}
    BY <1>1 DEF NewWalk
  <1>3. /\ DOMAIN walk' = Client /\ \A d \in Client \ {c} : walk'[d] = walk[d]
        /\ DOMAIN steady' = Client /\ DOMAIN ever' = Client
        /\ \A d \in Client : steady'[d] \subseteq Key /\ ever'[d] \subseteq Key
    BY DEF Inv, Shapes, TypeOK, StartOver
  <1>4. /\ cursor' = [cursor EXCEPT ![c] = NoCursor] /\ phase[c] = "idle"
        /\ UNCHANGED <<active, slots, secret, phase, request, clock, changes>>
    BY DEF StartOver
  <1>5. Shapes'
    BY <1>2, <1>3, <1>4 DEF Inv, Shapes
  <1>6. Busy' = Busy
    BY <1>4 DEF Busy
  <1>7. TypeOK'
    BY <1>2, <1>3, <1>4, <1>6 DEF Inv, TypeOK
  <1>8. Sound(c)'
    BY <1>2, <1>4 DEF Inv, Shapes, NoCursor, Sound, CursorSound, RequestSound, WalkSound, Continues
  <1>9. \A d \in Client \ {c} : Sound(d)'
    BY <1>3, <1>4, SoundKept DEF Inv, Shapes
  <1> QED
    BY <1>5, <1>7, <1>8, <1>9 DEF Inv

(* Activations, rows and time leave the requests alone.                    *)
LEMMA OutsideStep ==
    ASSUME Inv,
           \/ \E r \in Release : Activate(r)
           \/ \E k \in Key, value \in Field : LiveChanges(k, value)
           \/ Tick \/ UNCHANGED vars
    PROVE  Inv'
  <1>1. UNCHANGED <<slots, secret, phase, request, cursor, walk>>
    BY DEF Activate, LiveChanges, Tick, vars
  <1>2. /\ active' \in Release \cup {None}
        /\ clock' \in 0..MaxClock /\ changes' \in 0..MaxChanges
    BY PagesAssumption DEF Inv, TypeOK, Activate, LiveChanges, Tick, vars
  <1>3. /\ DOMAIN steady' = Client /\ DOMAIN ever' = Client
        /\ \A d \in Client : steady'[d] \subseteq Key /\ ever'[d] \subseteq Key
    <2>1. CASE \E k \in Key, value \in Field : LiveChanges(k, value)
      BY <2>1 DEF Inv, TypeOK, LiveChanges, Expected
    <2>2. CASE UNCHANGED <<steady, ever>>
      BY <2>2 DEF Inv, TypeOK, Shapes
    <2> QED
      BY <2>1, <2>2 DEF Activate, Tick, vars
  <1>4. Shapes'
    BY <1>1, <1>2, <1>3 DEF Inv, Shapes
  <1>5. Busy' = Busy
    BY <1>1 DEF Busy
  <1>6. TypeOK'
    BY <1>1, <1>2, <1>3, <1>5 DEF Inv, TypeOK
  <1>7. \A d \in Client : Sound(d)'
    BY <1>1, SoundKept DEF Inv
  <1> QED
    BY <1>4, <1>6, <1>7 DEF Inv

(* A new process has all its slots and no requests.                        *)
LEMMA RestartStep == ASSUME Inv, Restart PROVE Inv'
  <1>1. /\ \A c \in Client : phase'[c] = "idle"
        /\ slots' = Slots /\ secret' \in 0..MaxRestarts
        /\ UNCHANGED <<active, cursor, walk, steady, ever, clock, changes>>
    BY PagesAssumption DEF Inv, Shapes, TypeOK, Restart
  <1>2. Shapes'
    BY <1>1 DEF Inv, Shapes, Restart
  <1>3. Busy' = {}
    BY <1>1 DEF Busy
  <1>4. slots' \in 0..Slots /\ slots' + Cardinality(Busy') = Slots
    BY <1>1, <1>3, FS_EmptySet, PagesAssumption
  <1>5. TypeOK'
    BY <1>1, <1>4 DEF Inv, TypeOK
  <1>6. \A c \in Client : Sound(c)'
    BY <1>1, SoundIdle DEF Inv
  <1> QED
    BY <1>2, <1>5, <1>6 DEF Inv

-----------------------------------------------------------------------------
(* Cursors, requests and walks agree in every reachable state.             *)
THEOREM InvCorrect == Spec => []Inv
  <1>1. Inv /\ [Next]_vars => Inv'
    BY AcquireStep, DecodeStep, PageStep, RaiseStep, StartOverStep, OutsideStep, RestartStep DEF Next
  <1> QED
    BY InitInv, <1>1, PTL DEF Spec

(* No error and no interleaving of requests loses a query slot             *)
(* (api.py:41-48).                                                         *)
THEOREM TypeCorrect == Spec => []TypeOK
  <1>1. Inv => TypeOK
    BY DEF Inv
  <1> QED
    BY InvCorrect, <1>1, PTL

(* Only a request that decodes its cursor goes on to ClickHouse.           *)
LEMMA QueryFrom ==
    ASSUME Inv, [Next]_vars, NEW c \in Client, phase[c] = "held", phase'[c] = "query"
    PROVE  Decode(c)
  <1>1. ASSUME NEW d \in Client, Acquire(d) PROVE FALSE
    BY <1>1 DEF Inv, Shapes, Acquire
  <1>2. ASSUME NEW d \in Client, Decode(d) PROVE d = c
    BY <1>2 DEF Inv, Shapes, Decode
  <1>3. ASSUME NEW d \in Client, Page(d) \/ Raise(d) PROVE FALSE
    <2>1. phase' = [phase EXCEPT ![d] = "idle"]
      BY <1>3 DEF Page, Raise
    <2> QED
      BY <2>1 DEF Inv, Shapes
  <1>4. ASSUME UNCHANGED phase PROVE FALSE
    BY <1>4
  <1>5. ASSUME Restart PROVE FALSE
    BY <1>5 DEF Restart
  <1> QED
    BY <1>1, <1>2, <1>3, <1>4, <1>5 DEF Next, StartOver, Activate, LiveChanges, Tick, vars

(* No page after the first is begun when the lease of the first is over:   *)
(* expired cursors are refused, and following cursors never renews it      *)
(* (api.py:81, pagination.py:43-48, 70-71).                                *)
THEOREM LeaseBoundedCorrect == Spec => LeaseBounded
  <1>1. ASSUME Inv, [Next]_vars, NEW c \in Client,
               walk[c].from # {}, phase[c] = "held", phase'[c] = "query"
        PROVE  clock < walk[c].since + Ttl
    <2>1. Decode(c)
      BY <1>1, QueryFrom
    <2>2. Continues(c)
      BY <1>1 DEF Inv, Sound, WalkSound
    <2>3. clock < cursor[c].expires
      BY <2>1, <2>2 DEF Decode, Authentic
    <2>4. /\ cursor[c].expires \in Nat /\ walk[c].since \in Nat
          /\ cursor[c].expires <= walk[c].since + Ttl
      BY <1>1, <2>2 DEF Inv, Sound, CursorSound, LeaseOf
    <2>5. clock \in Nat
      BY <1>1 DEF Inv, Shapes
    <2> QED
      BY <2>3, <2>4, <2>5, PagesAssumption
  <1>2. Inv /\ [Next]_vars => [\A c \in Client :
            walk[c].from # {} /\ phase[c] = "held" /\ phase'[c] = "query" =>
                clock < walk[c].since + Ttl]_vars
    BY <1>1
  <1> QED
    BY InvCorrect, <1>2, PTL DEF Spec, LeaseBounded

-----------------------------------------------------------------------------
(* The order of the rows.                                                  *)

(* How many of a set of numbers are below one of them.                     *)
Below(keys, k) == Cardinality({j \in keys : j < k})

(* A larger member has more below it.                                      *)
LEMMA BelowRises ==
    ASSUME NEW keys \in SUBSET Int, IsFiniteSet(keys), NEW k \in keys, NEW m \in keys, k < m
    PROVE  Below(keys, k) < Below(keys, m)
  <1> DEFINE under(n) == {j \in keys : j < n}
  <1>1. \A n : IsFiniteSet(under(n)) /\ Cardinality(under(n)) \in Nat
    <2> TAKE n
    <2>1. IsFiniteSet(under(n))
      BY FS_Subset
    <2> QED
      BY <2>1, FS_CardinalityType
  <1>2. under(k) \subseteq under(m) /\ k \in under(m) /\ k \notin under(k)
    <2>1. \A j \in keys : j \in Int
      OBVIOUS
    <2>2. \A j \in keys : j < k => j < m
      BY <2>1
    <2>3. ~(k < k)
      BY <2>1
    <2> QED
      BY <2>2, <2>3
  <1>3. under(k) # under(m)
    BY <1>2
  <1>4. Cardinality(under(k)) <= Cardinality(under(m)) /\ Cardinality(under(k)) # Cardinality(under(m))
    BY <1>1, <1>2, <1>3, FS_Subset
  <1>5. Cardinality(under(k)) < Cardinality(under(m))
    BY <1>1, <1>4
  <1> QED
    BY <1>5 DEF Below

(* Each place is somebody's: an injection into a set of the same size.     *)
LEMMA EveryPlaceTaken ==
    ASSUME NEW keys \in SUBSET Int, IsFiniteSet(keys), NEW n \in 1..Cardinality(keys)
    PROVE  \E k \in keys : Below(keys, k) = n - 1
  <1> DEFINE size == Cardinality(keys)
             place == [k \in keys |-> Below(keys, k) + 1]
  <1>1. size \in Nat
    BY FS_CardinalityType
  <1>2. ASSUME NEW k \in keys PROVE Below(keys, k) \in 0..(size - 1)
    <2> DEFINE under == {j \in keys : j < k}
    <2>1. IsFiniteSet(under) /\ Cardinality(under) <= size /\ (size = Cardinality(under) => keys = under)
      BY FS_Subset
    <2>2. Cardinality(under) \in Nat
      BY <2>1, FS_CardinalityType
    <2>3. k \notin under
      OBVIOUS
    <2>4. size # Cardinality(under)
      BY <2>1, <2>3
    <2>5. Cardinality(under) \in 0..(size - 1)
      BY <1>1, <2>1, <2>2, <2>4
    <2> QED
      BY <2>5 DEF Below
  <1>3. place \in [keys -> 1..size]
    BY <1>1, <1>2
  <1>4. ASSUME NEW k \in keys, NEW m \in keys, place[k] = place[m] PROVE k = m
    <2>1. Below(keys, k) = Below(keys, m)
      BY <1>2, <1>4
    <2>2. ~(k < m) /\ ~(m < k)
      BY <1>2, <2>1, BelowRises
    <2> QED
      BY <2>2
  <1>5. place \in Injection(keys, 1..size)
    BY <1>3, <1>4 DEF Injection, IsInjective
  <1>6. IsFiniteSet(1..size) /\ Cardinality(1..size) = size
    BY <1>1, FS_Interval
  <1>7. place \in Surjection(keys, 1..size)
    BY <1>5, <1>6, FS_Injection
  <1>8. PICK k \in keys : place[k] = n
    BY <1>7 DEF Surjection
  <1> QED
    BY <1>1, <1>2, <1>8

(* What Ascending makes of a set: its members, in order.                   *)
LEMMA AscendingFacts ==
    ASSUME NEW keys \in SUBSET Int, IsFiniteSet(keys)
    PROVE  /\ Ascending(keys) \in Seq(keys)
           /\ \A m, n \in 1..Len(Ascending(keys)) : m < n => Ascending(keys)[m] < Ascending(keys)[n]
           /\ \A k \in keys : \E n \in 1..Len(Ascending(keys)) : Ascending(keys)[n] = k
  <1> DEFINE size == Cardinality(keys)
             rows == Ascending(keys)
  <1>1. size \in Nat
    BY FS_CardinalityType
  <1>2. ASSUME NEW n \in 1..size PROVE rows[n] \in keys /\ Below(keys, rows[n]) = n - 1
    <2>1. rows[n] = CHOOSE k \in keys : Below(keys, k) = n - 1
      BY DEF Ascending, Below
    <2>2. \E k \in keys : Below(keys, k) = n - 1
      BY EveryPlaceTaken
    <2> QED
      BY <2>1, <2>2
  <1>3. rows \in [1..size -> keys]
    BY <1>2 DEF Ascending
  <1>7. ASSUME NEW k \in keys, NEW m \in keys, Below(keys, k) <= Below(keys, m) PROVE k <= m
    <2>1. \A x \in keys : Below(keys, x) \in Nat
      <3>1. \A x \in keys : IsFiniteSet({j \in keys : j < x})
        BY FS_Subset
      <3> QED
        BY <3>1, FS_CardinalityType DEF Below
    <2>2. ASSUME m < k PROVE FALSE
      <3>1. Below(keys, m) < Below(keys, k)
        BY <2>2, BelowRises
      <3> QED
        BY <1>7, <2>1, <3>1
    <2>3. k \in Int /\ m \in Int
      OBVIOUS
    <2> QED
      BY <2>2, <2>3
  <1> HIDE DEF rows
  <1>4. rows \in Seq(keys) /\ Len(rows) = size
    BY <1>1, <1>2, <1>3
  <1>5. ASSUME NEW m \in 1..size, NEW n \in 1..size, m < n PROVE rows[m] < rows[n]
    <2>1. rows[m] \in keys /\ rows[n] \in keys /\ rows[m] \in Int /\ rows[n] \in Int
      BY <1>2
    <2>2. Below(keys, rows[m]) <= Below(keys, rows[n])
      BY <1>1, <1>2, <1>5
    <2>3. rows[m] <= rows[n]
      BY <1>7, <2>1, <2>2
    <2>4. rows[m] # rows[n]
      BY <1>1, <1>2, <1>5
    <2> QED
      BY <2>1, <2>3, <2>4
  <1>6. ASSUME NEW k \in keys PROVE \E n \in 1..size : rows[n] = k
    <2> DEFINE under == {j \in keys : j < k}
    <2>1. IsFiniteSet(under) /\ Cardinality(under) <= size /\ (size = Cardinality(under) => keys = under)
      BY FS_Subset
    <2>2. Cardinality(under) \in Nat
      BY <2>1, FS_CardinalityType
    <2>3. k \notin under
      OBVIOUS
    <2>4. size # Cardinality(under)
      BY <2>1, <2>3
    <2>5. Cardinality(under) + 1 \in 1..size
      BY <1>1, <2>1, <2>2, <2>4
    <2>6. Below(keys, k) = Cardinality(under)
      BY DEF Below
    <2> HIDE DEF under
    <2>7. Below(keys, rows[Cardinality(under) + 1]) = Below(keys, k) /\ rows[Cardinality(under) + 1] \in keys
      BY <1>2, <2>2, <2>5, <2>6
    <2>8. rows[Cardinality(under) + 1] = k
      <3>1. Below(keys, k) \in Nat
        BY <2>2, <2>6
      <3>2. Below(keys, rows[Cardinality(under) + 1]) <= Below(keys, k)
        BY <2>7, <3>1
      <3>3. Below(keys, k) <= Below(keys, rows[Cardinality(under) + 1])
        BY <2>7, <3>1
      <3>4. rows[Cardinality(under) + 1] <= k
        BY <1>7, <2>7, <3>2
      <3>5. k <= rows[Cardinality(under) + 1]
        BY <1>7, <2>7, <3>3
      <3>6. k \in Int /\ rows[Cardinality(under) + 1] \in Int
        BY <2>7
      <3> QED
        BY <3>4, <3>5, <3>6
    <2> QED
      BY <2>5, <2>8
  <1> QED
    BY <1>4, <1>5, <1>6 DEF rows

-----------------------------------------------------------------------------
(* What a walk has, and what is still ahead of it.                         *)

Ordered(s) == \A m, n \in DOMAIN s : m < n => s[m] < s[n]

Ahead(release, after, filter) == {k \in Key : k > after /\ Matches(table[release][k], filter)}

(* Until it ends, a walk has given the keys up to its cursor that matched  *)
(* all along, and none beyond; its request goes on from that cursor.       *)
Visited(c) ==
    /\ walk[c].keys \in Seq(Key) /\ Ordered(walk[c].keys)
    /\ ToSet(walk[c].keys) \subseteq ever[c]
    /\ walk[c].done => steady[c] \subseteq ToSet(walk[c].keys)
    /\ ~walk[c].done =>
          /\ cursor[c].after \in Nat
          /\ \A k \in ToSet(walk[c].keys) : k <= cursor[c].after
          /\ \A k \in steady[c] : k <= cursor[c].after => k \in ToSet(walk[c].keys)
    /\ phase[c] = "query" => request[c].after = cursor[c].after

Rows(found) == SubSeq(found, 1, IF Len(found) > Limit THEN Limit ELSE Len(found))

(* A page: the least keys ahead, and all of them up to its cursor.         *)
LEMMA PageFacts ==
    ASSUME NEW release, NEW after \in Nat, NEW filter
    PROVE  LET found == Found(release, after, filter)
               ahead == Ahead(release, after, filter)
           IN  /\ Len(found) \in Nat
               /\ Rows(found) \in Seq(Key) /\ Ordered(Rows(found))
               /\ ToSet(Rows(found)) \subseteq ahead
               /\ Len(found) <= Limit => ahead \subseteq ToSet(Rows(found))
               /\ Len(found) > Limit =>
                     /\ NextKey(found) \in ahead
                     /\ \A k \in ahead : k <= NextKey(found) <=> k \in ToSet(Rows(found))
  <1> DEFINE ahead == Ahead(release, after, filter)
             found == Found(release, after, filter)
             page  == Rows(found)
  <1>1. Key \subseteq Nat /\ IsFiniteSet(Key)
    BY FS_Interval, PagesAssumption DEF Key
  <1>2. ahead \in SUBSET Int /\ ahead \subseteq Key /\ \A k \in ahead : k \in Int
    <2>1. ahead \subseteq Key
      BY DEF Ahead
    <2> HIDE DEF ahead
    <2>2. \A k \in ahead : k \in Int
      BY <1>1, <2>1
    <2>3. ahead \subseteq Int
      BY <2>2
    <2> QED
      BY <2>1, <2>2, <2>3
  <1>3. IsFiniteSet(ahead)
    BY <1>1, <1>2, FS_Subset
  <1>4. found = Ascending(ahead)
    BY DEF Found, Ahead
  <1>5. /\ found \in Seq(ahead)
        /\ \A m, n \in 1..Len(found) : m < n => found[m] < found[n]
        /\ \A k \in ahead : \E n \in 1..Len(found) : found[n] = k
    BY <1>2, <1>3, <1>4, AscendingFacts
  <1> HIDE DEF ahead, found
  <1> DEFINE size == IF Len(found) > Limit THEN Limit ELSE Len(found)
  <1>6. size \in 0..Len(found) /\ Len(found) \in Nat /\ Limit \in Nat \ {0}
    BY <1>5, PagesAssumption
  <1>7. /\ page \in Seq(ahead) /\ Len(page) = size /\ DOMAIN page = 1..size
        /\ \A n \in 1..size : page[n] = found[n] /\ found[n] \in ahead
    BY <1>5, <1>6 DEF Rows
  <1> HIDE DEF page, size
  <1>8. page \in Seq(Key) /\ Ordered(page)
    <2>1. page \in Seq(Key)
      <3>1. \A n \in 1..Len(page) : page[n] \in Key
        BY <1>2, <1>7
      <3> QED
        BY <1>7, <3>1
    <2>2. \A n \in 1..size : n \in 1..Len(found)
      BY <1>6
    <2>3. \A m, n \in 1..size : m < n => page[m] < page[n]
      BY <1>5, <1>7, <2>2
    <2> QED
      BY <1>7, <2>1, <2>3 DEF Ordered
  <1>9. ToSet(page) = {found[n] : n \in 1..size}
    BY <1>7 DEF ToSet
  <1>10. ToSet(page) \subseteq ahead
    BY <1>7, <1>9
  <1>11. Len(found) <= Limit => ahead \subseteq ToSet(page)
    BY <1>5, <1>6, <1>9 DEF size
  <1>12. ASSUME Len(found) > Limit
         PROVE  /\ NextKey(found) \in ahead
                /\ \A k \in ahead : k <= NextKey(found) <=> k \in ToSet(page)
    <2>1. size = Limit /\ NextKey(found) = found[Limit] /\ Limit \in 1..Len(found)
      BY <1>6, <1>12 DEF size, NextKey
    <2>2. ASSUME NEW n \in 1..Len(found) PROVE found[n] <= found[Limit] <=> n <= Limit
      <3>1. found[n] \in Int /\ found[Limit] \in Int
        <4>1. found[n] \in ahead /\ found[Limit] \in ahead
          BY <1>5, <2>1
        <4> QED
          BY <1>2, <4>1
      <3>2. CASE n < Limit
        <4>1. found[n] < found[Limit]
          BY <1>5, <2>1, <3>2
        <4>2. found[n] <= found[Limit]
          BY <3>1, <4>1
        <4>3. n <= Limit
          BY <1>6, <3>2
        <4> QED
          BY <4>2, <4>3
      <3>3. CASE n = Limit
        BY <3>1, <3>3, <1>6
      <3>4. CASE n > Limit
        <4>1. found[Limit] < found[n]
          BY <1>5, <1>6, <2>1, <3>4
        <4>2. ~(found[n] <= found[Limit])
          BY <3>1, <4>1
        <4>3. ~(n <= Limit)
          BY <1>6, <3>4
        <4> QED
          BY <4>2, <4>3
      <3>5. n < Limit \/ n = Limit \/ n > Limit
        BY <1>6
      <3> QED
        BY <3>2, <3>3, <3>4, <3>5
    <2>3. ASSUME NEW k \in ahead, k <= found[Limit] PROVE k \in ToSet(page)
      <3>1. PICK n \in 1..Len(found) : found[n] = k
        BY <1>5
      <3>2. n \in 1..size
        BY <1>6, <2>1, <2>2, <2>3, <3>1
      <3> QED
        BY <1>9, <3>1, <3>2
    <2>4. ASSUME NEW k \in ToSet(page) PROVE k <= found[Limit]
      <3>1. PICK n \in 1..size : found[n] = k
        BY <1>9
      <3>2. n \in 1..Len(found) /\ n <= Limit
        BY <1>6, <2>1, <3>1
      <3> QED
        BY <2>2, <3>1, <3>2
    <2>5. found[Limit] \in ahead
      BY <1>5, <2>1
    <2> QED
      BY <2>1, <2>3, <2>4, <2>5
  <1> QED
    BY <1>6, <1>8, <1>10, <1>11, <1>12 DEF page, found, ahead

(* Two ascending sequences, the second beyond the first.                   *)
LEMMA OrderedConcat ==
    ASSUME NEW s \in Seq(Key), NEW t \in Seq(Key), Ordered(s), Ordered(t),
           \A k \in ToSet(s), m \in ToSet(t) : k < m
    PROVE  s \o t \in Seq(Key) /\ Ordered(s \o t) /\ ToSet(s \o t) = ToSet(s) \cup ToSet(t)
  <1> DEFINE both == s \o t
  <1>1. /\ both \in Seq(Key) /\ Len(both) = Len(s) + Len(t)
        /\ DOMAIN both = 1..(Len(s) + Len(t)) /\ DOMAIN s = 1..Len(s) /\ DOMAIN t = 1..Len(t)
        /\ \A n \in 1..Len(s) : both[n] = s[n]
        /\ \A n \in 1..Len(t) : both[n + Len(s)] = t[n]
        /\ Len(s) \in Nat /\ Len(t) \in Nat
    OBVIOUS
  <1> HIDE DEF both
  <1>2. ASSUME NEW n \in 1..(Len(s) + Len(t))
        PROVE  \/ n \in 1..Len(s) /\ both[n] = s[n]
               \/ n > Len(s) /\ (n - Len(s)) \in 1..Len(t) /\ both[n] = t[n - Len(s)]
    <2>1. CASE n <= Len(s)
      BY <1>1, <2>1
    <2>2. CASE n > Len(s)
      <3>1. n - Len(s) \in 1..Len(t) /\ (n - Len(s)) + Len(s) = n
        BY <1>1, <2>2
      <3> QED
        BY <1>1, <2>2, <3>1
    <2> QED
      BY <1>1, <2>1, <2>2
  <1>3. Ordered(both)
    <2> SUFFICES ASSUME NEW m \in 1..(Len(s) + Len(t)), NEW n \in 1..(Len(s) + Len(t)), m < n
                 PROVE  both[m] < both[n]
      BY <1>1 DEF Ordered
    <2>1. CASE n \in 1..Len(s) /\ both[n] = s[n]
      <3>1. m \in 1..Len(s)
        BY <1>1, <2>1
      <3> QED
        BY <1>1, <2>1, <3>1 DEF Ordered
    <2>2. CASE m \in 1..Len(s) /\ both[m] = s[m] /\ n > Len(s) /\ (n - Len(s)) \in 1..Len(t) /\ both[n] = t[n - Len(s)]
      <3>1. both[m] \in ToSet(s) /\ both[n] \in ToSet(t)
        BY <1>1, <2>2 DEF ToSet
      <3> QED
        BY <3>1
    <2>3. CASE /\ m > Len(s) /\ (m - Len(s)) \in 1..Len(t) /\ both[m] = t[m - Len(s)]
               /\ n > Len(s) /\ (n - Len(s)) \in 1..Len(t) /\ both[n] = t[n - Len(s)]
      <3>1. m - Len(s) < n - Len(s)
        BY <1>1
      <3> QED
        BY <1>1, <2>3, <3>1 DEF Ordered
    <2> QED
      BY <1>1, <1>2, <2>1, <2>2, <2>3
  <1>4. ToSet(both) = ToSet(s) \cup ToSet(t)
    <2>1. ASSUME NEW k \in ToSet(both) PROVE k \in ToSet(s) \cup ToSet(t)
      <3>1. PICK n \in 1..(Len(s) + Len(t)) : both[n] = k
        BY <1>1, <2>1 DEF ToSet
      <3> QED
        BY <1>1, <1>2, <3>1 DEF ToSet
    <2>2. ASSUME NEW k \in ToSet(s) PROVE k \in ToSet(both)
      <3>1. PICK n \in 1..Len(s) : s[n] = k
        BY <1>1 DEF ToSet
      <3>2. n \in 1..(Len(s) + Len(t)) /\ both[n] = k
        BY <1>1, <3>1
      <3> QED
        BY <1>1, <3>2 DEF ToSet
    <2>3. ASSUME NEW k \in ToSet(t) PROVE k \in ToSet(both)
      <3>1. PICK n \in 1..Len(t) : t[n] = k
        BY <1>1 DEF ToSet
      <3>2. n + Len(s) \in 1..(Len(s) + Len(t)) /\ both[n + Len(s)] = k
        BY <1>1, <3>1
      <3> QED
        BY <1>1, <3>2 DEF ToSet
    <2> QED
      BY <2>1, <2>2, <2>3
  <1> QED
    BY <1>1, <1>3, <1>4 DEF both

-----------------------------------------------------------------------------
(* A step that leaves a client's walk and cursor alone may only take from  *)
(* what matched all along and add to what matched once.                    *)
LEMMA VisitedKept ==
    ASSUME NEW c \in Client, Visited(c), cursor'[c] = cursor[c], walk'[c] = walk[c],
           steady'[c] \subseteq steady[c], ever[c] \subseteq ever'[c],
           phase'[c] = "query" => request'[c].after = cursor[c].after
    PROVE  Visited(c)'
  BY DEF Visited, Ordered

(* No walk has begun.                                                      *)
LEMMA VisitedInit == Init => \A c \in Client : Visited(c)
  <1> SUFFICES ASSUME Init, NEW c \in Client PROVE Visited(c)
    OBVIOUS
  <1>1. PICK asked \in [Client -> Release \cup {None}], filter \in [Client -> Field \cup {None}] :
            walk = [d \in Client |-> [NewWalk EXCEPT !.asked = asked[d], !.filter = filter[d]]]
    BY DEF Init
  <1>2. walk[c].keys = <<>> /\ walk[c].done = FALSE
    BY <1>1 DEF NewWalk
  <1>3. phase[c] = "idle" /\ cursor[c].after = 0 /\ steady[c] = Key
    BY DEF Init, NoCursor
  <1>4. ToSet(walk[c].keys) = {}
    BY <1>2 DEF ToSet
  <1>5. \A k \in Key : ~(k <= 0)
    BY PagesAssumption DEF Key
  <1> QED
    BY <1>2, <1>3, <1>4, <1>5 DEF Visited, Ordered

(* A page adds the keys that come next, and its cursor is the last of them.*)
LEMMA VisitedPage == ASSUME Inv, NEW c \in Client, Visited(c), Page(c) PROVE Visited(c)'
  <1> DEFINE release == request[c].release
             after   == request[c].after
             filter  == walk[c].filter
             found   == Found(release, after, filter)
             ahead   == Ahead(release, after, filter)
             more    == Len(found) > Limit
             page    == Rows(found)
             matching == Expected(table, release, filter)
  <1>1. /\ phase[c] = "query" /\ phase'[c] = "idle" /\ ~walk[c].done
        /\ steady'[c] = steady[c] \cap matching /\ ever'[c] = ever[c] \cup matching
    BY DEF Page, Inv, Shapes, Sound, WalkSound
  <1>2. walk'[c] = Further(walk[c], release, page, more)
    BY DEF Page, Inv, Shapes, Rows
  <1>3. walk'[c].keys = walk[c].keys \o page /\ walk'[c].done = ~more
    <2>1. DOMAIN walk[c] = {"asked", "filter", "from", "keys", "since", "done"}
      BY DEF Inv, Shapes
    <2> HIDE DEF page, more
    <2> QED
      BY <1>2, <2>1 DEF Further
  <1>4. more => cursor'[c].after = NextKey(found)
    BY DEF Page, Inv, Shapes
  <1>5. after = cursor[c].after /\ after \in Nat
    BY <1>1 DEF Visited
  <1>6. /\ page \in Seq(Key) /\ Ordered(page) /\ ToSet(page) \subseteq ahead
        /\ ~more => ahead \subseteq ToSet(page)
        /\ more => /\ NextKey(found) \in ahead
                   /\ \A k \in ahead : k <= NextKey(found) <=> k \in ToSet(page)
    <2>1. Len(found) \in Nat
      BY <1>5, PageFacts
    <2>2. /\ page \in Seq(Key) /\ Ordered(page) /\ ToSet(page) \subseteq ahead
          /\ Len(found) <= Limit => ahead \subseteq ToSet(page)
          /\ Len(found) > Limit => /\ NextKey(found) \in ahead
                                  /\ \A k \in ahead : k <= NextKey(found) <=> k \in ToSet(page)
      BY <1>5, PageFacts
    <2> HIDE DEF found, page, ahead
    <2> QED
      BY <2>1, <2>2, PagesAssumption
  <1>7. \A k \in ahead : k \in Key /\ k > after /\ k \in matching
    BY DEF Ahead, Expected, Matches
  <1>8. \A k \in matching : k \in Key /\ (k > after => k \in ahead)
    BY DEF Ahead, Expected, Matches
  <1>9. \A k \in Key : k \in Nat
    BY PagesAssumption DEF Key
  <1> HIDE DEF found, ahead, more, page, matching, release, after, filter
  <1> DEFINE old == walk[c].keys
  <1>10. /\ old \in Seq(Key) /\ Ordered(old) /\ ToSet(old) \subseteq ever[c]
         /\ \A k \in ToSet(old) : k <= after
         /\ \A k \in steady[c] : k <= after => k \in ToSet(old)
         /\ ToSet(old) \subseteq Key
    <2>1. old \in Seq(Key)
      BY DEF Visited
    <2>2. ToSet(old) \subseteq Key
      BY <2>1 DEF ToSet
    <2> QED
      BY <1>1, <1>5, <2>1, <2>2 DEF Visited
  <1> HIDE DEF old
  <1>11. \A k \in ToSet(old), m \in ToSet(page) : k < m
    BY <1>5, <1>6, <1>7, <1>9, <1>10
  <1>12. /\ walk'[c].keys \in Seq(Key) /\ Ordered(walk'[c].keys)
         /\ ToSet(walk'[c].keys) = ToSet(old) \cup ToSet(page)
    BY <1>3, <1>6, <1>10, <1>11, OrderedConcat DEF old
  <1>13. ToSet(walk'[c].keys) \subseteq ever'[c]
    BY <1>1, <1>6, <1>7, <1>10, <1>12
  <1>14. ~more => steady'[c] \subseteq ToSet(walk'[c].keys)
    <2> SUFFICES ASSUME ~more, NEW k \in steady'[c] PROVE k \in ToSet(old) \cup ToSet(page)
      BY <1>12
    <2>1. k \in steady[c] /\ k \in matching /\ k \in Key
      BY <1>1, <1>8
    <2>2. CASE k <= after
      BY <1>10, <2>1, <2>2
    <2>3. CASE k > after
      BY <1>6, <1>8, <2>1, <2>3
    <2> QED
      BY <1>5, <1>9, <2>1, <2>2, <2>3
  <1>15. more => /\ cursor'[c].after \in Nat
                 /\ \A k \in ToSet(walk'[c].keys) : k <= cursor'[c].after
                 /\ \A k \in steady'[c] : k <= cursor'[c].after => k \in ToSet(walk'[c].keys)
    <2> SUFFICES ASSUME more PROVE
                 /\ cursor'[c].after \in Nat
                 /\ \A k \in ToSet(walk'[c].keys) : k <= cursor'[c].after
                 /\ \A k \in steady'[c] : k <= cursor'[c].after => k \in ToSet(walk'[c].keys)
      OBVIOUS
    <2>1. /\ cursor'[c].after \in ahead /\ cursor'[c].after \in Nat /\ cursor'[c].after > after
          /\ \A k \in ahead : k <= cursor'[c].after <=> k \in ToSet(page)
      BY <1>4, <1>6, <1>7, <1>9
    <2>2. ASSUME NEW k \in ToSet(old) \cup ToSet(page) PROVE k <= cursor'[c].after
      <3>1. CASE k \in ToSet(old)
        BY <1>5, <1>9, <1>10, <2>1, <3>1
      <3>2. CASE k \in ToSet(page)
        BY <1>6, <2>1, <3>2
      <3> QED
        BY <2>2, <3>1, <3>2
    <2>3. ASSUME NEW k \in steady'[c], k <= cursor'[c].after PROVE k \in ToSet(old) \cup ToSet(page)
      <3>1. k \in steady[c] /\ k \in matching /\ k \in Key
        BY <1>1, <1>8
      <3>2. CASE k <= after
        BY <1>10, <3>1, <3>2
      <3>3. CASE k > after
        BY <1>8, <2>1, <2>3, <3>1, <3>3
      <3> QED
        BY <1>5, <1>9, <3>1, <3>2, <3>3
    <2> QED
      BY <1>12, <2>1, <2>2, <2>3
  <1>16. walk'[c].done = ~more /\ phase'[c] # "query"
    BY <1>1, <1>3
  <1>17. (\A m, n \in DOMAIN walk'[c].keys : m < n => walk'[c].keys[m] < walk'[c].keys[n])
    BY <1>12 DEF Ordered
  <1> QED
    BY <1>12, <1>13, <1>14, <1>15, <1>16, <1>17 DEF Visited, Ordered

(* A walk that begins anew has all its keys ahead.                         *)
LEMMA VisitedStartOver == ASSUME Inv, NEW c \in Client, StartOver(c) PROVE Visited(c)'
  <1>1. walk'[c] = [NewWalk EXCEPT !.asked = walk[c].asked, !.filter = walk[c].filter]
    BY DEF Inv, Shapes, StartOver
  <1>2. walk'[c].keys = <<>> /\ walk'[c].done = FALSE
    BY <1>1 DEF NewWalk
  <1>3. phase'[c] = "idle" /\ cursor'[c].after = 0 /\ steady'[c] = Key
    BY DEF Inv, Shapes, StartOver, NoCursor
  <1>4. ToSet(walk'[c].keys) = {}
    BY <1>2 DEF ToSet
  <1>5. \A k \in Key : ~(k <= 0)
    BY PagesAssumption DEF Key
  <1> QED
    BY <1>2, <1>3, <1>4, <1>5 DEF Visited, Ordered

(* Every step of every actor keeps what all walks have.                    *)
LEMMA VisitedStep ==
    ASSUME Inv, [Next]_vars, \A c \in Client : Visited(c), NEW d \in Client
    PROVE  Visited(d)'
  <1>1. ASSUME NEW c \in Client, Acquire(c) PROVE Visited(d)'
    BY <1>1, VisitedKept DEF Acquire, Inv, Shapes, Visited
  <1>2. ASSUME NEW c \in Client, Decode(c) PROVE Visited(d)'
    <2>1. phase'[d] = "query" => request'[d].after = cursor[d].after
      BY <1>2 DEF Decode, Inv, Shapes, Visited
    <2> QED
      BY <1>2, <2>1, VisitedKept DEF Decode
  <1>3. ASSUME NEW c \in Client, Page(c) PROVE Visited(d)'
    <2>1. CASE c = d
      BY <1>3, <2>1, VisitedPage
    <2>2. CASE c # d
      <3>1. /\ cursor'[d] = cursor[d] /\ walk'[d] = walk[d] /\ steady'[d] = steady[d]
            /\ ever'[d] = ever[d] /\ request'[d] = request[d] /\ phase'[d] = phase[d]
        BY <1>3, <2>2 DEF Page, Inv, Shapes
      <3> QED
        BY <3>1, VisitedKept DEF Visited
    <2> QED
      BY <2>1, <2>2
  <1>4. ASSUME NEW c \in Client, Raise(c) PROVE Visited(d)'
    BY <1>4, VisitedKept DEF Raise, Inv, Shapes, Visited
  <1>5. ASSUME NEW c \in Client, StartOver(c) PROVE Visited(d)'
    <2>1. CASE c = d
      BY <1>5, <2>1, VisitedStartOver
    <2>2. CASE c # d
      <3>1. /\ cursor'[d] = cursor[d] /\ walk'[d] = walk[d] /\ steady'[d] = steady[d]
            /\ ever'[d] = ever[d] /\ request'[d] = request[d] /\ phase'[d] = phase[d]
        BY <1>5, <2>2 DEF StartOver, Inv, Shapes
      <3> QED
        BY <3>1, VisitedKept DEF Visited
    <2> QED
      BY <2>1, <2>2
  <1>6. ASSUME \E r \in Release : Activate(r) PROVE Visited(d)'
    BY <1>6, VisitedKept DEF Activate, Visited
  <1>7. ASSUME NEW k \in Key, NEW value \in Field, LiveChanges(k, value) PROVE Visited(d)'
    <2>1. steady'[d] \subseteq steady[d] /\ ever[d] \subseteq ever'[d]
      BY <1>7 DEF LiveChanges
    <2> QED
      BY <1>7, <2>1, VisitedKept DEF LiveChanges, Visited
  <1>8. ASSUME Tick PROVE Visited(d)'
    BY <1>8, VisitedKept DEF Tick, Visited
  <1>9. ASSUME Restart PROVE Visited(d)'
    BY <1>9, VisitedKept DEF Restart
  <1>10. ASSUME UNCHANGED vars PROVE Visited(d)'
    BY <1>10, VisitedKept DEF vars, Visited
  <1> QED
    BY <1>1, <1>2, <1>3, <1>4, <1>5, <1>6, <1>7, <1>8, <1>9, <1>10 DEF Next

(* A walk stays in one release and gives every key that matched all along, *)
(* none twice, and none that never matched - whatever is written,          *)
(* activated or restarted between its pages (api.py:61-62,                 *)
(* storage.py:155-199).                                                    *)
THEOREM WalkCompleteCorrect == Spec => []WalkComplete
  <1> DEFINE Walks == \A c \in Client : Visited(c)
  <1>1. Init => Walks
    BY VisitedInit
  <1>2. Inv /\ Walks /\ [Next]_vars => Walks'
    <2> SUFFICES ASSUME Inv, Walks, [Next]_vars, NEW c \in Client PROVE Visited(c)'
      OBVIOUS
    <2> QED
      BY VisitedStep
  <1>3. Inv /\ Walks => WalkComplete
    <2> SUFFICES ASSUME Inv, Walks, NEW c \in Client
                 PROVE  /\ Cardinality(walk[c].from) <= 1
                        /\ \A m, n \in DOMAIN walk[c].keys : m < n => walk[c].keys[m] < walk[c].keys[n]
                        /\ ToSet(walk[c].keys) \subseteq ever[c]
                        /\ walk[c].done => steady[c] \subseteq ToSet(walk[c].keys)
      BY DEF WalkComplete
    <2>1. walk[c].from = {} \/ \E r : walk[c].from = {r}
      BY DEF Inv, Sound, WalkSound
    <2>2. Cardinality(walk[c].from) <= 1
      <3>1. CASE walk[c].from = {}
        BY <3>1, FS_EmptySet
      <3>2. CASE \E r : walk[c].from = {r}
        <4>1. Cardinality(walk[c].from) = 1
          BY <3>2, FS_Singleton
        <4> QED
          BY <4>1
      <3> QED
        BY <2>1, <3>1, <3>2
    <2> QED
      BY <2>2 DEF Visited, Ordered
  <1>4. Spec => []Inv
    BY InvCorrect
  <1> HIDE DEF Walks
  <1> QED
    BY <1>1, <1>2, <1>3, <1>4, PTL DEF Spec
=============================================================================
