----------------------------- MODULE IngestProofs -----------------------------
(* Proofs about Ingest for any clients, events, batches and expiry.        *)
EXTENDS Ingest, FiniteSetTheorems, SequenceTheorems, WellFoundedInduction, TLAPS

-----------------------------------------------------------------------------
(* The inductive invariant: the collector.                                 *)

Phases  == {"wait", "done"} \cup Holding
Packets == [receipt : Nat \X Nat, event : Event]

(* Types, as far as they are needed.                                       *)
Threads ==
    /\ sender \in Seq(Client) /\ Len(sender) <= MaxBatches
    /\ phase \in Seq(Phases) /\ Len(phase) = Len(sender)
    /\ answer \in Seq({None, "202", "503"}) /\ Len(answer) = Len(sender)
    /\ lock \in Batch \cup {None} /\ producer \in {"ready", "open", "stuck"}
    /\ manifests \subseteq Batch /\ crashes \in 0..MaxCrashes

(* The thread that holds the lock is the one between begin and its answer. *)
LockHeld == \A b \in Batch : phase[b] \in Holding <=> lock = b

(* What is pending is nothing, the batch of the thread at work, or what an *)
(* abort will drop; a stuck producer has a whole batch or nothing.         *)
Whole(b) == [receipts |-> Produced(b), manifests |-> {b}]

Uncommitted ==
    \A b \in Batch : phase[b] \in {"wait", "produce", "commit"} => b \notin manifests

PendingSound ==
    /\ producer = "ready" => pending = Nothing
    /\ producer = "stuck" =>
         pending = Nothing \/ \E b \in Batch \ manifests : pending = Whole(b) /\ phase[b] \in {"abort", "done"}
    /\ \A b \in Batch :
         /\ phase[b] = "produce" => producer = "open" /\ pending = Nothing
         /\ phase[b] = "commit" => /\ producer = "open"
                                   /\ pending = [receipts |-> Produced(b), manifests |-> {}]
         /\ phase[b] = "abort" => producer # "ready"

RawTyped == raw \in Seq(Packets)

CollectorSound ==
    Threads /\ LockHeld /\ Uncommitted /\ PendingSound /\ RawTyped /\ RawHasManifest

-----------------------------------------------------------------------------
(* Batches.                                                                *)

(* Batches are numbered, and each has a sequence of events.                *)
LEMMA BatchFacts ==
    ASSUME sender \in Seq(Client)
    PROVE  /\ Batch = 1..Len(sender) /\ Batch \subseteq Nat /\ None \notin Batch
           /\ \A b \in Batch : /\ sender[b] \in Client
                               /\ Sends[sender[b]] \in Seq(Event)
                               /\ DOMAIN Sends[sender[b]] = 1..Len(Sends[sender[b]])
                               /\ Len(Sends[sender[b]]) \in Nat
  BY IngestAssumption, CleanAssumption DEF Batch

(* A thread that goes on changes no other one.                             *)
LEMMA PhaseStep ==
    ASSUME Threads, NEW b \in Batch, NEW l \in Phases, GoesTo(b, l)
    PROVE  /\ phase' \in Seq(Phases) /\ Len(phase') = Len(phase)
           /\ phase'[b] = l
           /\ \A c \in Batch : c # b => phase'[c] = phase[c]
  <1>1. phase \in Seq(Phases) /\ b \in 1..Len(phase) /\ Batch = 1..Len(phase)
    BY DEF Threads, Batch
  <1>2. phase' = [phase EXCEPT ![b] = l]
    BY DEF GoesTo
  <1> QED
    BY <1>1, <1>2

(* No record goes away or changes.                                         *)
RawKept == \A n \in DOMAIN raw : n \in DOMAIN raw' /\ raw'[n] = raw[n]

(* A batch that the broker commits is read once, with its manifest.        *)
LEMMA BatchCommitted ==
    ASSUME Threads, RawTyped, RawHasManifest, UNCHANGED sender,
           NEW b \in Batch \ manifests, BrokerCommits(Whole(b))
    PROVE  RawTyped' /\ RawHasManifest' /\ RawKept
  <1> DEFINE events == Sends[sender[b]]
             new    == [n \in 1..Len(events) |-> Packet(<<b, n>>)]
  <1>1. /\ events \in Seq(Event) /\ DOMAIN events = 1..Len(events) /\ Len(events) \in Nat
        /\ b \in Nat
    BY BatchFacts DEF Threads
  <1>2. raw' = raw \o new /\ manifests' = manifests \cup {b}
    <2>1. Produced(b) = [n \in 1..Len(events) |-> <<b, n>>]
      BY <1>1 DEF Produced
    <2> QED
      BY <1>1, <2>1 DEF BrokerCommits, Whole
  <1>3. \A n \in 1..Len(events) : /\ new[n].receipt = <<b, n>>
                                  /\ new[n] \in Packets
    <2> TAKE n \in 1..Len(events)
    <2>1. events[n] \in Event /\ n \in Nat
      BY <1>1
    <2>2. Packet(<<b, n>>) = [receipt |-> <<b, n>>, event |-> events[n]]
      BY DEF Packet
    <2> QED
      BY <1>1, <2>1, <2>2 DEF Packets
  <1>4. new \in Seq(Packets) /\ Len(new) = Len(events)
    <2>1. new \in [1..Len(events) -> Packets]
      BY <1>3
    <2> HIDE DEF new
    <2> QED
      BY <1>1, <2>1
  <1>5. RawTyped'
    BY <1>2, <1>4 DEF RawTyped
  <1>6. /\ Len(raw') = Len(raw) + Len(events) /\ DOMAIN raw = 1..Len(raw) /\ DOMAIN raw' = 1..Len(raw')
        /\ Len(raw) \in Nat /\ Len(raw') \in Nat
    BY <1>1, <1>2, <1>4, <1>5 DEF RawTyped
  <1>7. ASSUME NEW n \in DOMAIN raw' PROVE
          \/ n \in DOMAIN raw /\ raw'[n] = raw[n]
          \/ n - Len(raw) \in 1..Len(events) /\ raw'[n].receipt = <<b, n - Len(raw)>>
    <2>1. CASE n <= Len(raw)
      BY <2>1, <1>2, <1>4, <1>6 DEF RawTyped
    <2>2. CASE n > Len(raw)
      <3>1. n - Len(raw) \in 1..Len(events) /\ raw'[n] = new[n - Len(raw)]
        BY <2>2, <1>1, <1>2, <1>4, <1>6 DEF RawTyped
      <3> QED
        BY <3>1, <1>3
    <2> QED
      BY <2>1, <2>2, <1>6
  <1>8. /\ \A n \in DOMAIN raw : n \in DOMAIN raw' /\ raw'[n] = raw[n]
        /\ \A i \in 1..Len(events) : /\ Len(raw) + i \in DOMAIN raw'
                                     /\ raw'[Len(raw) + i].receipt = <<b, i>>
    <2>1. ASSUME NEW n \in DOMAIN raw PROVE n \in DOMAIN raw' /\ raw'[n] = raw[n]
      BY <1>1, <1>2, <1>4, <1>6 DEF RawTyped
    <2>2. ASSUME NEW i \in 1..Len(events)
          PROVE  Len(raw) + i \in DOMAIN raw' /\ raw'[Len(raw) + i].receipt = <<b, i>>
      <3>1. Len(raw) + i \in DOMAIN raw' /\ raw'[Len(raw) + i] = new[i]
        BY <1>1, <1>2, <1>4, <1>6 DEF RawTyped
      <3> QED
        BY <3>1, <1>3
    <2> QED
      BY <2>1, <2>2
  <1>9. \A c \in Batch : Receipts(c)' = Receipts(c)
    BY DEF Receipts
  <1>10. Receipts(b) = {<<b, i>> : i \in 1..Len(events)}
    BY <1>1 DEF Receipts
  <1>11. \A n \in DOMAIN raw : raw[n].receipt \in UNION {Receipts(c) : c \in manifests}
    BY DEF RawHasManifest
  <1>12. \A n \in DOMAIN raw : raw[n].receipt[1] # b
    BY <1>11 DEF Receipts
  <1>13. {raw'[n].receipt : n \in DOMAIN raw'} = UNION {Receipts(c)' : c \in manifests'}
    <2>1. {raw'[n].receipt : n \in DOMAIN raw'} = {raw[n].receipt : n \in DOMAIN raw} \cup Receipts(b)
      BY <1>7, <1>8, <1>10
    <2>2. UNION {Receipts(c)' : c \in manifests'} = (UNION {Receipts(c) : c \in manifests}) \cup Receipts(b)
      BY <1>2, <1>9 DEF Threads
    <2> QED
      BY <2>1, <2>2 DEF RawHasManifest
  <1>14. ASSUME NEW n \in DOMAIN raw', NEW m \in DOMAIN raw', raw'[n].receipt = raw'[m].receipt
         PROVE  n = m
    <2>1. CASE n \in DOMAIN raw /\ m \in DOMAIN raw
      BY <2>1, <1>8, <1>14 DEF RawHasManifest
    <2>2. CASE n \notin DOMAIN raw /\ m \notin DOMAIN raw
      <3>1. /\ n - Len(raw) \in 1..Len(events) /\ raw'[n].receipt = <<b, n - Len(raw)>>
            /\ m - Len(raw) \in 1..Len(events) /\ raw'[m].receipt = <<b, m - Len(raw)>>
        BY <1>7, <2>2
      <3>2. n - Len(raw) = m - Len(raw)
        <4>1. \A i, j : <<b, i>> = <<b, j>> => i = j
          OBVIOUS
        <4> QED
          BY <1>14, <3>1, <4>1
      <3> QED
        BY <3>2, <1>6
    <2>3. CASE n \in DOMAIN raw /\ m \notin DOMAIN raw
      <3>1. raw'[m].receipt[1] = b
        BY <1>7, <2>3
      <3> QED
        BY <1>8, <1>12, <1>14, <2>3, <3>1
    <2>4. CASE n \notin DOMAIN raw /\ m \in DOMAIN raw
      <3>1. raw'[n].receipt[1] = b
        BY <1>7, <2>4
      <3> QED
        BY <1>8, <1>12, <1>14, <2>4, <3>1
    <2> QED
      BY <2>1, <2>2, <2>3, <2>4
  <1>15. RawHasManifest'
    BY <1>13, <1>14 DEF RawHasManifest
  <1> QED
    BY <1>5, <1>8, <1>15 DEF RawKept

-----------------------------------------------------------------------------
(* The steps of the collector.                                             *)

(* At the start nothing was sent.                                          *)
LEMMA CollectorStart == CollectorInit => CollectorSound
  <1> SUFFICES ASSUME CollectorInit PROVE CollectorSound
    OBVIOUS
  <1> USE DEF CollectorInit, Batch
  <1>1. Threads
    BY IngestAssumption DEF Threads
  <1>2. LockHeld /\ Uncommitted /\ PendingSound
    BY DEF LockHeld, Uncommitted, PendingSound
  <1>3. RawTyped /\ RawHasManifest
    BY DEF RawTyped, RawHasManifest
  <1> QED
    BY <1>1, <1>2, <1>3 DEF CollectorSound

(* One thread goes on, takes the lock as it begins and frees it as it ends.*)
LEMMA ThreadMoves ==
    ASSUME CollectorSound, NEW b \in Batch, NEW l \in Holding \cup {"done"}, GoesTo(b, l),
           lock \in {b, None}, lock' = IF l \in Holding THEN b ELSE None,
           answer' = answer \/ \E status \in {"202", "503"} : answer' = [answer EXCEPT ![b] = status],
           producer' \in {"ready", "open", "stuck"},
           manifests' \subseteq manifests \cup {b},
           l \in {"produce", "commit"} => b \notin manifests',
           UNCHANGED <<sender, crashes>>
    PROVE  Threads' /\ LockHeld' /\ Uncommitted' /\ Batch' = Batch
  <1>1. /\ phase' \in Seq(Phases) /\ Len(phase') = Len(phase) /\ phase'[b] = l
        /\ \A c \in Batch : c # b => phase'[c] = phase[c]
    BY PhaseStep DEF CollectorSound, Phases
  <1>2. answer' \in Seq({None, "202", "503"}) /\ Len(answer') = Len(answer)
    BY DEF CollectorSound, Threads
  <1>3. Batch' = Batch
    BY DEF Batch
  <1>4. Threads'
    BY <1>1, <1>2, <1>3 DEF CollectorSound, Threads
  <1>5. None \notin Batch
    BY BatchFacts DEF CollectorSound, Threads
  <1>6. LockHeld'
    BY <1>1, <1>3, <1>5 DEF CollectorSound, LockHeld
  <1>7. Uncommitted'
    <2> SUFFICES ASSUME NEW c \in Batch, phase'[c] \in {"wait", "produce", "commit"}
                 PROVE  c \notin manifests'
      BY <1>3 DEF Uncommitted
    <2>1. CASE c = b
      BY <1>1, <2>1 DEF Holding
    <2>2. CASE c # b
      BY <1>1, <2>2 DEF CollectorSound, Uncommitted
    <2> QED
      BY <2>1, <2>2
  <1> QED
    BY <1>3, <1>4, <1>6, <1>7

(* No other thread is between begin and its answer.                        *)
LEMMA Alone ==
    ASSUME CollectorSound, NEW b \in Batch, lock \in {b, None}, NEW c \in Batch, c # b
    PROVE  phase[c] \in {"wait", "done"}
  <1>1. None \notin Batch
    BY BatchFacts DEF CollectorSound, Threads
  <1>2. phase[c] \in Phases
    BY DEF CollectorSound, Threads, Batch
  <1> QED
    BY <1>1, <1>2 DEF CollectorSound, LockHeld, Phases

(* Batches keep their records.                                             *)
LEMMA Unread ==
    ASSUME CollectorSound, UNCHANGED <<sender, raw, manifests>>
    PROVE  RawTyped' /\ RawHasManifest'
  BY DEF CollectorSound, RawTyped, RawHasManifest, Receipts

(* The thread of a batch keeps the collector sound.                        *)
LEMMA AcceptStep ==
    ASSUME CollectorSound, NEW b \in Batch, Accept(b)
    PROVE  CollectorSound'
  <1>1. /\ Threads /\ LockHeld /\ Uncommitted /\ PendingSound /\ RawTyped /\ RawHasManifest
        /\ phase[b] \in Holding => lock = b
    BY DEF CollectorSound, LockHeld
  <1>2. \A c \in Batch : lock \in {b, None} /\ c # b => phase[c] \in {"wait", "done"}
    BY Alone
  <1>3. ASSUME NEW l \in Holding \cup {"done"}, GoesTo(b, l)
        PROVE  /\ phase'[b] = l
               /\ \A c \in Batch : c # b => phase'[c] = phase[c]
    BY <1>1, <1>3, PhaseStep DEF Phases
  <1>4. CASE Begin(b)
    <2>1. b \notin manifests
      BY <1>1, <1>4 DEF Begin, Locks, Uncommitted
    <2>2. Threads' /\ LockHeld' /\ Uncommitted' /\ Batch' = Batch
      BY <1>4, <2>1, ThreadMoves DEF Begin, Locks, Holding
    <2>3. PendingSound'
      BY <1>1, <1>2, <1>3, <1>4, <2>2 DEF Begin, Locks, PendingSound, Holding
    <2> QED
      BY <1>4, <2>2, <2>3, Unread DEF CollectorSound, Begin
  <1>5. CASE BeginRaises(b)
    <2>1. Threads' /\ LockHeld' /\ Uncommitted' /\ Batch' = Batch
      BY <1>1, <1>5, ThreadMoves DEF BeginRaises, BeginRaisesTo, Locks, Holding, Threads
    <2>2. PendingSound'
      BY <1>1, <1>2, <1>3, <1>5, <2>1
         DEF BeginRaises, BeginRaisesTo, Locks, PendingSound, Whole, Produced, Holding
    <2> QED
      BY <1>5, <2>1, <2>2, Unread DEF CollectorSound, BeginRaises, BeginRaisesTo
  <1>6. CASE Deliver(b)
    <2>1. phase[b] = "produce" /\ lock = b /\ b \notin manifests
      BY <1>1, <1>6 DEF Deliver, Produces, Uncommitted, Holding
    <2>2. Threads' /\ LockHeld' /\ Uncommitted' /\ Batch' = Batch
      BY <1>1, <1>6, <2>1, ThreadMoves DEF Deliver, Produces, Holding, Threads
    <2>3. pending' = [receipts |-> Produced(b), manifests |-> {}]
      <3>1. pending = Nothing
        BY <1>1, <2>1 DEF PendingSound
      <3>2. Produced(b) \in Seq({b} \X Nat)
        <4>1. Produced(b) \in [1..Len(Sends[sender[b]]) -> {b} \X Nat] /\ Len(Sends[sender[b]]) \in Nat
          BY <1>1, BatchFacts DEF Threads, Produced
        <4> QED
          BY <4>1
      <3>3. <<>> \o Produced(b) = Produced(b)
        BY <3>2
      <3> QED
        BY <1>6, <3>1, <3>3 DEF Deliver, Produces, Nothing
    <2>4. PendingSound'
      BY <1>1, <1>2, <1>3, <1>6, <2>1, <2>2, <2>3 DEF Deliver, Produces, PendingSound, Produced, Holding
    <2> QED
      BY <1>6, <2>2, <2>4, Unread DEF CollectorSound, Deliver, Produces
  <1>7. CASE DeliverFails(b)
    <2>1. /\ phase[b] = "produce" /\ GoesTo(b, "abort")
          /\ UNCHANGED <<sender, answer, lock, producer, raw, manifests, crashes>>
      BY <1>7 DEF DeliverFails, Produces
    <2>2. lock = b
      BY <1>1, <2>1 DEF Holding
    <2>3. Threads' /\ LockHeld' /\ Uncommitted' /\ Batch' = Batch
      BY <1>1, <2>1, <2>2, ThreadMoves DEF Holding, Threads
    <2>4. PendingSound'
      BY <1>1, <1>2, <1>3, <2>1, <2>2, <2>3 DEF PendingSound, Holding
    <2> QED
      BY <2>1, <2>3, <2>4, Unread DEF CollectorSound
  <1>8. CASE Commit(b)
    <2>1. phase[b] = "commit" /\ lock = b /\ b \notin manifests
      BY <1>1, <1>8 DEF Commit, Uncommitted, Holding
    <2>2. WithManifest(b) = Whole(b)
      BY <1>1, <2>1 DEF WithManifest, Whole, PendingSound
    <2>3. BrokerCommits(Whole(b)) /\ UNCHANGED sender
      BY <1>8, <2>2 DEF Commit
    <2>4. manifests' = manifests \cup {b} /\ pending' = Nothing
      BY <2>3 DEF BrokerCommits, Whole
    <2>5. Threads' /\ LockHeld' /\ Uncommitted' /\ Batch' = Batch
      BY <1>1, <1>8, <2>1, <2>4, ThreadMoves DEF Commit, Answers, Holding
    <2>6. PendingSound'
      BY <1>1, <1>2, <1>3, <1>8, <2>1, <2>4, <2>5 DEF Commit, Answers, PendingSound, Holding
    <2>7. RawTyped' /\ RawHasManifest'
      BY <1>1, <2>1, <2>3, BatchCommitted
    <2> QED
      BY <2>5, <2>6, <2>7 DEF CollectorSound
  <1>9. CASE CommitRaises(b) \/ CommitUnanswered(b)
    <2>1. /\ phase[b] = "commit" /\ GoesTo(b, "abort") /\ pending' = WithManifest(b)
          /\ producer' = producer \/ producer' = "stuck"
          /\ UNCHANGED <<sender, answer, lock, raw, manifests, crashes>>
      BY <1>9 DEF CommitRaises, CommitUnanswered
    <2>2. lock = b /\ b \notin manifests /\ producer = "open"
      BY <1>1, <2>1 DEF Uncommitted, PendingSound, Holding
    <2>3. pending' = Whole(b)
      BY <1>1, <2>1 DEF WithManifest, Whole, PendingSound
    <2>4. Threads' /\ LockHeld' /\ Uncommitted' /\ Batch' = Batch
      BY <1>1, <2>1, <2>2, ThreadMoves DEF Holding, Threads
    <2>5. PendingSound'
      <3>1. phase'[b] = "abort" /\ \A c \in Batch : c # b => phase'[c] \in {"wait", "done"}
        BY <1>2, <1>3, <2>1, <2>2 DEF Holding
      <3>2. pending' = Whole(b)'
        BY <2>1, <2>3 DEF Whole, Produced
      <3>3. b \in Batch' \ manifests'
        BY <2>1, <2>2, <2>4
      <3>4. producer' # "ready"
        BY <2>1, <2>2
      <3> QED
        BY <2>4, <3>1, <3>2, <3>3, <3>4 DEF PendingSound
    <2> QED
      BY <2>1, <2>4, <2>5, Unread DEF CollectorSound
  <1>10. CASE Abort(b)
    <2>1. phase[b] = "abort" /\ lock = b
      BY <1>1, <1>10 DEF Abort, Holding
    <2>2. Threads' /\ LockHeld' /\ Uncommitted' /\ Batch' = Batch
      BY <1>1, <1>10, <2>1, ThreadMoves DEF Abort, Answers, Holding, Threads
    <2>3. PendingSound'
      BY <1>1, <1>2, <1>3, <1>10, <2>1, <2>2 DEF Abort, Answers, PendingSound, Holding
    <2> QED
      BY <1>10, <2>2, <2>3, Unread DEF CollectorSound, Abort
  <1>11. CASE AbortRaises(b)
    <2>1. phase[b] = "abort" /\ lock = b
      BY <1>1, <1>11 DEF AbortRaises, Holding
    <2>2. Threads' /\ LockHeld' /\ Uncommitted' /\ Batch' = Batch
      BY <1>1, <1>11, <2>1, ThreadMoves DEF AbortRaises, Answers, Holding, Threads
    <2>3. /\ phase'[b] = "done" /\ \A c \in Batch : c # b => phase'[c] = phase[c]
          /\ UNCHANGED <<sender, producer, pending, manifests>>
      BY <1>3, <1>11 DEF AbortRaises, Answers
    <2>4. PendingSound'
      <3>1. ASSUME producer = "stuck", pending # Nothing
            PROVE  \E c \in Batch \ manifests : pending = Whole(c)' /\ phase'[c] \in {"abort", "done"}
        <4>1. PICK c \in Batch \ manifests : pending = Whole(c) /\ phase[c] \in {"abort", "done"}
          BY <1>1, <3>1 DEF PendingSound
        <4>2. Whole(c)' = Whole(c)
          BY <2>3 DEF Whole, Produced
        <4> QED
          BY <2>3, <4>1, <4>2
      <3>2. \A c \in Batch : phase'[c] \in {"wait", "done"}
        BY <1>2, <2>1, <2>3
      <3> QED
        BY <1>1, <2>2, <2>3, <3>1, <3>2 DEF PendingSound, Nothing
    <2> QED
      BY <1>11, <2>2, <2>4, Unread DEF CollectorSound, AbortRaises
  <1> QED
    BY <1>4, <1>5, <1>6, <1>7, <1>8, <1>9, <1>10, <1>11 DEF Accept

(* Requests arrive, commits are carried out late, the collector restarts.  *)
LEMMA CollectorStep == CollectorSound /\ CollectorNext => CollectorSound'
  <1> SUFFICES ASSUME CollectorSound, CollectorNext PROVE CollectorSound'
    OBVIOUS
  <1>1. Threads /\ LockHeld /\ Uncommitted /\ PendingSound /\ RawTyped /\ RawHasManifest
    BY DEF CollectorSound
  <1>2. Batch = 1..Len(sender) /\ Len(sender) \in Nat /\ None \notin Batch
    BY <1>1, BatchFacts DEF Threads
  <1>3. ASSUME NEW c \in Client, Post(c) PROVE CollectorSound'
    <2>1. /\ sender' \in Seq(Client) /\ Len(sender') = Len(sender) + 1
          /\ \A b \in Batch : sender'[b] = sender[b]
      BY <1>1, <1>2, <1>3 DEF Post, Threads
    <2>2. /\ phase' \in Seq(Phases) /\ Len(phase') = Len(sender')
          /\ phase'[Len(sender')] = "wait"
          /\ \A b \in Batch : phase'[b] = phase[b]
      BY <1>1, <1>2, <1>3, <2>1 DEF Post, Threads, Phases
    <2>3. answer' \in Seq({None, "202", "503"}) /\ Len(answer') = Len(sender')
      BY <1>1, <1>3, <2>1 DEF Post, Threads
    <2>4. Batch' = Batch \cup {Len(sender')} /\ Len(sender') \notin Batch /\ Batch' = 1..Len(sender')
      <3>1. Batch' = 1..Len(sender')
        BY <2>1 DEF Batch
      <3> QED
        BY <1>2, <2>1, <3>1
    <2>5. UNCHANGED <<lock, producer, pending, raw, manifests, crashes>>
      BY <1>3 DEF Post
    <2>6. Threads'
      <3>1. Len(sender') <= MaxBatches
        BY <1>2, <1>3, <2>1, IngestAssumption DEF Post
      <3> QED
        BY <1>1, <2>1, <2>2, <2>3, <2>4, <2>5, <3>1 DEF Threads
    <2>7. LockHeld'
      <3>1. lock # Len(sender')
        <4>1. lock \in Batch \cup {None} /\ Len(sender') \in Nat /\ None \notin Nat
          BY <1>1, <1>2, <2>1, CleanAssumption DEF Threads
        <4> QED
          BY <2>4, <4>1
      <3> QED
        BY <1>1, <2>2, <2>4, <2>5, <3>1 DEF LockHeld, Holding
    <2>8. Uncommitted'
      BY <1>1, <2>2, <2>4, <2>5 DEF Uncommitted, Threads
    <2>9. \A b \in Batch : Produced(b)' = Produced(b) /\ Receipts(b)' = Receipts(b) /\ Whole(b)' = Whole(b)
      BY <2>1 DEF Produced, Receipts, Whole
    <2>10. PendingSound'
      BY <1>1, <2>2, <2>4, <2>5, <2>9 DEF PendingSound, Nothing
    <2>11. RawTyped' /\ RawHasManifest'
      BY <1>1, <2>5, <2>9 DEF RawTyped, RawHasManifest, Threads
    <2> QED
      BY <2>6, <2>7, <2>8, <2>10, <2>11 DEF CollectorSound
  <1>4. CASE LateCommit
    <2>1. /\ producer = "stuck" /\ BrokerCommits(pending)
          /\ UNCHANGED <<sender, phase, answer, lock, producer, crashes>>
      BY <1>4 DEF LateCommit
    <2>2. PICK b \in Batch \ manifests : pending = Whole(b) /\ phase[b] \in {"abort", "done"}
      BY <1>1, <1>4 DEF LateCommit, PendingSound
    <2>3. manifests' = manifests \cup {b} /\ pending' = Nothing
      BY <2>1, <2>2 DEF BrokerCommits, Whole
    <2>4. Batch' = Batch
      BY <2>1 DEF Batch
    <2>5. Threads' /\ LockHeld'
      BY <1>1, <2>1, <2>3, <2>4 DEF Threads, LockHeld
    <2>6. Uncommitted'
      BY <1>1, <2>1, <2>2, <2>3, <2>4 DEF Uncommitted
    <2>7. PendingSound'
      BY <1>1, <2>1, <2>3, <2>4 DEF PendingSound
    <2>8. RawTyped' /\ RawHasManifest'
      BY <1>1, <2>1, <2>2, BatchCommitted
    <2> QED
      BY <2>5, <2>6, <2>7, <2>8 DEF CollectorSound
  <1>5. CASE Crash
    <2>1. /\ phase' = [b \in Batch |-> "done"] /\ lock' = None /\ producer' = "ready" /\ pending' = Nothing
          /\ crashes' \in 0..MaxCrashes
          /\ UNCHANGED <<sender, answer, raw, manifests>>
      BY <1>1, <1>5, IngestAssumption DEF Crash, Threads
    <2>2. phase' \in Seq(Phases) /\ Len(phase') = Len(sender)
      <3>1. phase' \in [1..Len(sender) -> Phases]
        BY <1>2, <2>1 DEF Phases
      <3> QED
        BY <1>2, <3>1
    <2>3. Batch' = Batch
      BY <2>1 DEF Batch
    <2>4. Threads' /\ LockHeld'
      BY <1>1, <1>2, <2>1, <2>2, <2>3 DEF Threads, LockHeld, Holding
    <2>5. Uncommitted' /\ PendingSound'
      BY <2>1, <2>3 DEF Uncommitted, PendingSound
    <2> QED
      BY <2>1, <2>4, <2>5, Unread DEF CollectorSound
  <1> QED
    BY <1>3, <1>4, <1>5, AcceptStep DEF CollectorNext

-----------------------------------------------------------------------------
(* The cleaning job.                                                       *)

CleanTyped ==
    /\ read \subseteq DOMAIN raw /\ clock \in 0..MaxClock
    /\ between \in [Id -> Seq(Packets)]
    /\ expires \in [Key -> Nat \cup {None}]
    /\ clean \subseteq [packet : Packets, at : Nat]

(* A remembered key has its timer.                                         *)
Timed ==
    \A k \in Key : expires[k] # None => <<k, expires[k]>> \in timers /\ expires[k] <= clock + Dedup

(* A business key that was cleaned is remembered until it may come again.  *)
Spaced ==
    \A c \in clean :
        LET k == BusinessKey(c.packet)
        IN  /\ c.at <= clock
            /\ (expires[k] # None /\ c.at + Dedup <= expires[k]) \/ c.at + Dedup <= clock

CleanSound == CleanTyped /\ Timed /\ Spaced /\ CleanedApart

(* The keys of a packet are keys.                                          *)
LEMMA KeysOf == \A p \in Packets : EventKey(p) \in Key /\ BusinessKey(p) \in Key /\ p.event.id \in Id
  BY DEF Packets, EventKey, BusinessKey, Key, Id

(* What Remembers does, in numbers.                                        *)
LEMMA Remembering ==
    ASSUME CleanTyped, Timed, NEW k \in Key, Remembers(k), UNCHANGED clock
    PROVE  /\ expires' \in [Key -> Nat \cup {None}] /\ Timed'
           /\ expires'[k] = clock + Dedup
           /\ \A l \in Key : l # k => expires'[l] = expires[l]
           /\ expires[k] = None \/ expires[k] <= clock
  <1>1. clock + Dedup \in Nat /\ clock \in Nat /\ None \notin Nat
    BY CleanAssumption DEF CleanTyped
  <1>2. /\ expires' = [expires EXCEPT ![k] = clock + Dedup]
        /\ timers' = timers \cup {<<k, clock + Dedup>>}
        /\ ~(expires[k] # None /\ clock < expires[k])
    BY DEF Remembers, Remembered
  <1>3. expires[k] = None \/ expires[k] <= clock
    BY <1>1, <1>2 DEF CleanTyped
  <1>4. /\ expires' \in [Key -> Nat \cup {None}] /\ expires'[k] = clock + Dedup
        /\ \A l \in Key : l # k => expires'[l] = expires[l]
    BY <1>1, <1>2 DEF CleanTyped
  <1>5. Timed'
    BY <1>1, <1>2, <1>4 DEF Timed
  <1> QED
    BY <1>3, <1>4, <1>5

(* Rows stay apart while nothing is cleaned and no key is forgotten.       *)
LEMMA StaysSpaced ==
    ASSUME CleanTyped, Spaced, CleanedApart, UNCHANGED <<clean, clock>>,
           \A c \in clean : expires'[BusinessKey(c.packet)] = expires[BusinessKey(c.packet)]
    PROVE  Spaced' /\ CleanedApart'
  <1>1. Spaced'
    BY DEF Spaced, BusinessKey
  <1>2. CleanedApart'
    BY DEF CleanedApart
  <1> QED
    BY <1>1, <1>2

(* Nothing is read or remembered at the start.                             *)
LEMMA CleanStart == CleanInit => CleanSound
  BY CleanAssumption DEF CleanInit, CleanSound, CleanTyped, Timed, Spaced, CleanedApart

(* The collector only adds to what can be read.                            *)
LEMMA RawGrows ==
    ASSUME CollectorSound, CollectorNext
    PROVE  RawKept
  <1>1. Threads /\ LockHeld /\ Uncommitted /\ PendingSound /\ RawTyped /\ RawHasManifest
    BY DEF CollectorSound
  <1>2. ASSUME NEW b \in Batch, Commit(b) PROVE RawKept
    <2>1. b \notin manifests /\ WithManifest(b) = Whole(b)
      BY <1>1, <1>2 DEF Commit, Uncommitted, PendingSound, WithManifest, Whole
    <2> QED
      BY <1>1, <1>2, <2>1, BatchCommitted DEF Commit
  <1>3. CASE LateCommit
    <2>1. PICK b \in Batch \ manifests : pending = Whole(b)
      BY <1>1, <1>3 DEF LateCommit, PendingSound
    <2> QED
      BY <1>1, <1>3, <2>1, BatchCommitted DEF LateCommit
  <1>4. UNCHANGED raw \/ LateCommit \/ \E b \in Batch : Commit(b)
    BY DEF CollectorNext, Post, Accept, Begin, BeginRaises, BeginRaisesTo, Deliver, DeliverFails, Produces,
           CommitRaises, CommitUnanswered, Abort, AbortRaises, Crash
  <1> QED
    BY <1>2, <1>3, <1>4 DEF RawKept

(* What the cleaning job does leaves the collector as it is.               *)
LEMMA CollectorWaits ==
    ASSUME CollectorSound, UNCHANGED <<collectorOnly, raw>>
    PROVE  CollectorSound'
  <1>1. UNCHANGED <<sender, phase, answer, lock, producer, pending, manifests, crashes, raw>>
    BY DEF collectorOnly
  <1>2. Batch' = Batch
    BY <1>1 DEF Batch
  <1>3. Threads' /\ LockHeld' /\ Uncommitted'
    BY <1>1, <1>2 DEF CollectorSound, Threads, LockHeld, Uncommitted
  <1>4. PendingSound'
    <2>1. \A b \in Batch : Produced(b)' = Produced(b) /\ Whole(b)' = Whole(b)
      BY <1>1 DEF Produced, Whole
    <2> QED
      BY <1>1, <1>2, <2>1 DEF CollectorSound, PendingSound, Nothing
  <1> QED
    BY <1>1, <1>3, <1>4, Unread DEF CollectorSound

(* What the collector does leaves the cleaning job as it is.               *)
LEMMA CleanWaits ==
    ASSUME CleanSound, RawKept, UNCHANGED cleanVars
    PROVE  CleanSound'
  BY DEF RawKept, CleanSound, CleanTyped, Timed, Spaced, CleanedApart, cleanVars

(* Both layers keep rows apart; a timer forgets a key when it may come.    *)
LEMMA CleanStep == RawTyped /\ CleanSound /\ CleanNext => CleanSound'
  <1> SUFFICES ASSUME RawTyped, CleanSound, CleanNext PROVE CleanSound'
    OBVIOUS
  <1>1. CleanTyped /\ Timed /\ Spaced /\ CleanedApart /\ raw \in Seq(Packets)
    BY DEF CleanSound, RawTyped
  <1>2. clock \in Nat /\ Dedup \in Nat /\ MaxClock \in Nat /\ None \notin Nat
    BY <1>1, CleanAssumption DEF CleanTyped
  <1>3. \A n \in DOMAIN raw : /\ raw[n] \in Packets /\ EventKey(raw[n]) \in Key
                              /\ raw[n].event.id \in Id
    BY <1>1, KeysOf
  <1>4. \A i \in Id : between[i] # <<>> => /\ Head(between[i]) \in Packets
                                           /\ Tail(between[i]) \in Seq(Packets)
                                           /\ BusinessKey(Head(between[i])) \in Key
    BY <1>1, KeysOf DEF CleanTyped
  <1>5. \A c \in clean : BusinessKey(c.packet) \in Key /\ c.at \in Nat /\ c.packet \in Packets
    BY <1>1, KeysOf DEF CleanTyped
  <1>6. ASSUME NEW n \in DOMAIN raw, Rejects(n) \/ RefusesId(n) PROVE CleanSound'
    <2>1. /\ read' = read \cup {n}
          /\ UNCHANGED <<raw, between, expires, timers, clock, clean>>
      BY <1>6 DEF Rejects, RefusesId, Reads
    <2>2. CleanTyped' /\ Timed'
      BY <1>1, <2>1 DEF CleanTyped, Timed
    <2> QED
      BY <1>1, <2>1, <2>2, StaysSpaced DEF CleanSound
  <1>7. ASSUME NEW n \in DOMAIN raw, PassesId(n) PROVE CleanSound'
    <2>1. /\ read' = read \cup {n} /\ Remembers(EventKey(raw[n]))
          /\ between' = [between EXCEPT ![raw[n].event.id] = Append(@, raw[n])]
          /\ UNCHANGED <<raw, clock, quality, clean>>
      BY <1>7 DEF PassesId, Reads
    <2>2. between' \in [Id -> Seq(Packets)]
      BY <1>1, <1>3, <2>1 DEF CleanTyped
    <2>3. /\ expires' \in [Key -> Nat \cup {None}] /\ Timed'
          /\ \A l \in Key : l # EventKey(raw[n]) => expires'[l] = expires[l]
      BY <1>1, <1>3, <2>1, Remembering
    <2>4. CleanTyped'
      BY <1>1, <2>1, <2>2, <2>3 DEF CleanTyped
    <2>5. \A c \in clean : BusinessKey(c.packet) # EventKey(raw[n])
      BY DEF BusinessKey, EventKey
    <2> QED
      BY <1>1, <1>5, <2>1, <2>3, <2>4, <2>5, StaysSpaced DEF CleanSound
  <1>8. ASSUME NEW i \in Id, RefusesKey(i) PROVE CleanSound'
    <2>1. /\ between[i] # <<>> /\ between' = [between EXCEPT ![i] = Tail(@)]
          /\ UNCHANGED <<raw, read, expires, timers, clock, clean>>
      BY <1>8 DEF RefusesKey, Takes
    <2>2. CleanTyped' /\ Timed'
      BY <1>1, <1>4, <2>1 DEF CleanTyped, Timed
    <2> QED
      BY <1>1, <2>1, <2>2, StaysSpaced DEF CleanSound
  <1>9. ASSUME NEW i \in Id, Cleans(i) PROVE CleanSound'
    <2> DEFINE packet == Head(between[i])
               row    == [packet |-> packet, at |-> clock]
               key    == BusinessKey(packet)
    <2>1. /\ between[i] # <<>> /\ between' = [between EXCEPT ![i] = Tail(@)]
          /\ Remembers(key) /\ clean' = clean \cup {row}
          /\ UNCHANGED <<raw, read, clock>>
      BY <1>9 DEF Cleans, Takes
    <2>2. packet \in Packets /\ key \in Key /\ Tail(between[i]) \in Seq(Packets)
      BY <1>4, <2>1
    <2>3. /\ expires' \in [Key -> Nat \cup {None}] /\ Timed'
          /\ expires'[key] = clock + Dedup
          /\ \A l \in Key : l # key => expires'[l] = expires[l]
          /\ expires[key] = None \/ expires[key] <= clock
      BY <1>1, <2>1, <2>2, Remembering
    <2>4. between' \in [Id -> Seq(Packets)] /\ clean' \subseteq [packet : Packets, at : Nat]
      BY <1>1, <1>2, <2>1, <2>2 DEF CleanTyped
    <2>5. CleanTyped'
      BY <1>1, <2>1, <2>3, <2>4 DEF CleanTyped
    <2>6. ASSUME NEW c \in clean, BusinessKey(c.packet) = key PROVE c.at + Dedup <= clock
      <3>1. c.at \in Nat
        BY <1>5
      <3>2. (expires[key] # None /\ c.at + Dedup <= expires[key]) \/ c.at + Dedup <= clock
        BY <1>1, <2>6 DEF Spaced
      <3>3. expires[key] # None => expires[key] \in Nat
        BY <1>1, <2>2 DEF CleanTyped
      <3> QED
        BY <1>2, <2>3, <3>1, <3>2, <3>3
    <2>7. Spaced'
      <3> SUFFICES ASSUME NEW c \in clean'
                   PROVE  /\ c.at <= clock'
                          /\ \/ /\ expires'[BusinessKey(c.packet)] # None
                                /\ c.at + Dedup <= expires'[BusinessKey(c.packet)]
                             \/ c.at + Dedup <= clock'
        BY DEF Spaced, BusinessKey
      <3>1. CASE c = row
        <4>1. c.at = clock /\ BusinessKey(c.packet) = key
          BY <3>1
        <4>2. expires'[key] # None /\ clock + Dedup <= expires'[key]
          BY <1>2, <2>3
        <4> QED
          BY <1>2, <2>1, <4>1, <4>2
      <3>2. CASE c \in clean /\ BusinessKey(c.packet) = key
        BY <1>1, <2>1, <2>6, <3>2 DEF Spaced
      <3>3. CASE c \in clean /\ BusinessKey(c.packet) # key
        BY <1>1, <1>5, <2>1, <2>3, <3>3 DEF Spaced
      <3> QED
        BY <2>1, <3>1, <3>2, <3>3
    <2>8. CleanedApart'
      <3>1. \A c \in clean : c.packet.event.key = row.packet.event.key => c.at + Dedup <= row.at
        BY <2>6 DEF BusinessKey
      <3> QED
        BY <1>1, <2>1, <3>1 DEF CleanedApart
    <2> QED
      BY <2>3, <2>5, <2>7, <2>8 DEF CleanSound
  <1>10. CASE Tick
    <2>1. /\ clock' = clock + 1 /\ clock < MaxClock
          /\ UNCHANGED <<raw, read, between, expires, timers, quality, clean>>
      BY <1>10 DEF Tick
    <2>2. CleanTyped'
      BY <1>1, <1>2, <2>1 DEF CleanTyped
    <2>3. Timed'
      <3>1. \A k \in Key : expires[k] # None => expires[k] \in Nat
        BY <1>1 DEF CleanTyped
      <3> QED
        BY <1>1, <1>2, <2>1, <3>1 DEF Timed
    <2>4. Spaced'
      <3>1. \A c \in clean : /\ c.at <= clock => c.at <= clock'
                             /\ c.at + Dedup <= clock => c.at + Dedup <= clock'
        BY <1>2, <1>5, <2>1
      <3> QED
        BY <1>1, <2>1, <3>1 DEF Spaced, BusinessKey
    <2>5. CleanedApart'
      BY <1>1, <2>1 DEF CleanedApart
    <2> QED
      BY <2>2, <2>3, <2>4, <2>5 DEF CleanSound
  <1>11. ASSUME NEW k \in Key, NEW t \in 0..(MaxClock + Dedup), Fires(k, t) PROVE CleanSound'
    <2>1. /\ t <= clock /\ t \in Nat /\ timers' = timers \ {<<k, t>>}
          /\ \/ expires[k] # None /\ t >= expires[k] /\ expires' = [expires EXCEPT ![k] = None]
             \/ ~(expires[k] # None /\ t >= expires[k]) /\ UNCHANGED expires
          /\ UNCHANGED <<raw, read, between, clock, quality, clean>>
      BY <1>2, <1>11 DEF Fires, Forgets
    <2>2. CleanTyped'
      BY <1>1, <2>1 DEF CleanTyped
    <2>3. \A l \in Key : expires[l] # None => expires[l] \in Nat
      BY <1>1 DEF CleanTyped
    <2>4. Timed'
      <3> SUFFICES ASSUME NEW l \in Key, expires'[l] # None
                   PROVE  <<l, expires'[l]>> \in timers' /\ expires'[l] <= clock' + Dedup
        BY DEF Timed
      <3>1. expires'[l] = expires[l] /\ <<l, expires[l]>> \in timers /\ expires[l] <= clock + Dedup
        BY <1>1, <2>1 DEF Timed, CleanTyped
      <3>2. <<l, expires[l]>> # <<k, t>>
        <4>1. CASE l = k
          <5>1. ~(t >= expires[k])
            BY <1>1, <2>1, <3>1, <4>1 DEF CleanTyped
          <5>2. t # expires[l]
            BY <2>1, <2>3, <3>1, <4>1, <5>1
          <5> QED
            BY <5>2
        <4>2. CASE l # k
          BY <4>2
        <4> QED
          BY <4>1, <4>2
      <3> QED
        BY <2>1, <3>1, <3>2
    <2>5. Spaced'
      <3> SUFFICES ASSUME NEW c \in clean
                   PROVE  /\ c.at <= clock
                          /\ \/ /\ expires'[BusinessKey(c.packet)] # None
                                /\ c.at + Dedup <= expires'[BusinessKey(c.packet)]
                             \/ c.at + Dedup <= clock
        BY <2>1 DEF Spaced, BusinessKey
      <3>1. /\ c.at <= clock /\ c.at \in Nat /\ BusinessKey(c.packet) \in Key
            /\ \/ /\ expires[BusinessKey(c.packet)] # None
                  /\ c.at + Dedup <= expires[BusinessKey(c.packet)]
               \/ c.at + Dedup <= clock
        BY <1>1, <1>5 DEF Spaced
      <3>2. CASE expires'[BusinessKey(c.packet)] = expires[BusinessKey(c.packet)]
        BY <3>1, <3>2
      <3>3. CASE expires'[BusinessKey(c.packet)] # expires[BusinessKey(c.packet)]
        <4>1. BusinessKey(c.packet) = k /\ expires[k] # None /\ t >= expires[k]
          BY <1>1, <2>1, <3>1, <3>3 DEF CleanTyped
        <4> QED
          BY <1>2, <2>1, <2>3, <3>1, <4>1
      <3> QED
        BY <3>2, <3>3
    <2>6. CleanedApart'
      BY <1>1, <2>1 DEF CleanedApart
    <2> QED
      BY <2>2, <2>4, <2>5, <2>6 DEF CleanSound
  <1> QED
    BY <1>6, <1>7, <1>8, <1>9, <1>10, <1>11 DEF CleanNext, CleanSteps

-----------------------------------------------------------------------------
(* Orders, and the pass of the oracle over one.                            *)

(* A set of numbers that is not empty has a least one.                     *)
LEMMA LeastNumber ==
    ASSUME NEW T, T \subseteq Nat, T # {}
    PROVE  \E n \in T : \A m \in T : ~(m < n)
  <1>1. PICK n \in T : \A m \in T : ~(<<m, n>> \in OpToRel(<, Nat))
    BY WFMin, NatLessThanWellFounded
  <1> QED
    BY <1>1 DEF OpToRel

(* The oracle's pass is the one function in which every code follows from  *)
(* those before.                                                           *)
LEMMA PassFacts ==
    ASSUME NEW packets, NEW N \in Nat, DOMAIN packets = 1..N,
           NEW code, DOMAIN code = 1..N, \A n \in 1..N : code[n] = CodeOf(packets, code, n)
    PROVE  Normalized(packets) = {[receipt |-> packets[n].receipt, code |-> code[n]] : n \in 1..N}
  <1> DEFINE Pass(g) == g = [n \in 1..N |-> CodeOf(packets, g, n)]
             pass    == CHOOSE g : Pass(g)
             wrong   == {n \in 1..N : pass[n] # code[n]}
  <1>1. Normalized(packets) = {[receipt |-> packets[n].receipt, code |-> pass[n]] : n \in 1..N}
    BY DEF Normalized
  <1>2. \E g : Pass(g)
    <2>1. \E g : g = [n \in 1..N |-> code[n]]
      OBVIOUS
    <2>2. PICK g : g = [n \in 1..N |-> code[n]]
      BY <2>1
    <2>3. \A n \in 1..N : CodeOf(packets, g, n) = code[n]
      <3> TAKE n \in 1..N
      <3>1. \A m \in 1..(n - 1) : g[m] = code[m]
        BY <2>2
      <3>2. CodeOf(packets, g, n) = CodeOf(packets, code, n)
        BY <3>1 DEF CodeOf
      <3> QED
        BY <3>2
    <2>4. Pass(g)
      BY <2>2, <2>3
    <2> QED
      BY <2>4
  <1>3. \A n \in 1..N : pass[n] = CodeOf(packets, pass, n)
    <2>1. Pass(pass)
      BY <1>2
    <2> HIDE DEF pass
    <2> QED
      BY <2>1
  <1> HIDE DEF pass
  <1>4. wrong = {}
    <2> SUFFICES ASSUME wrong # {} PROVE FALSE
      OBVIOUS
    <2>1. PICK n \in wrong : \A m \in wrong : ~(m < n)
      <3>1. wrong \subseteq Nat
        OBVIOUS
      <3> HIDE DEF wrong
      <3> QED
        BY <3>1, LeastNumber
    <2>2. \A m \in 1..(n - 1) : m \in 1..N /\ m < n /\ pass[m] = code[m]
      BY <2>1
    <2>3. CodeOf(packets, pass, n) = CodeOf(packets, code, n)
      BY <2>2 DEF CodeOf
    <2> QED
      BY <1>3, <2>1, <2>3
  <1> QED
    BY <1>1, <1>4

(* A strict order of all members.                                          *)
StrictOrder(D, before) ==
    /\ \A m \in D : <<m, m>> \notin before
    /\ \A m, n \in D : m # n => <<m, n>> \in before \/ <<n, m>> \in before
    /\ \A l, m, n \in D : <<l, m>> \in before /\ <<m, n>> \in before => <<l, n>> \in before

(* Places can be put in any strict order: the place of each is the number  *)
(* of those up to it.                                                      *)
LEMMA InOrder ==
    ASSUME NEW N \in Nat, NEW before, StrictOrder(1..N, before)
    PROVE  \E order \in Bijection(1..N, 1..N) :
              \A p, q \in 1..N : <<order[p], order[q]>> \in before => p < q
  <1> DEFINE D       == 1..N
             upTo(n) == {m \in D : m = n \/ <<m, n>> \in before}
             rank    == [n \in D |-> Cardinality(upTo(n))]
             order   == [p \in D |-> CHOOSE n \in D : rank[n] = p]
  <1>1. IsFiniteSet(D) /\ Cardinality(D) = N
    BY FS_Interval
  <1>2. ASSUME NEW n \in D PROVE IsFiniteSet(upTo(n)) /\ rank[n] \in D
    <2>1. IsFiniteSet(upTo(n)) /\ Cardinality(upTo(n)) \in Nat /\ Cardinality(upTo(n)) <= N
      BY <1>1, FS_Subset, FS_CardinalityType
    <2>2. Cardinality(upTo(n)) # 0
      BY <2>1, FS_EmptySet
    <2> QED
      BY <2>1, <2>2
  <1>3. ASSUME NEW m \in D, NEW n \in D, <<m, n>> \in before PROVE rank[m] < rank[n]
    <2>1. upTo(m) \subseteq upTo(n) /\ n \in upTo(n) /\ n \notin upTo(m)
      BY <1>3 DEF StrictOrder
    <2> HIDE DEF upTo
    <2>2. /\ Cardinality(upTo(m)) <= Cardinality(upTo(n))
          /\ Cardinality(upTo(m)) # Cardinality(upTo(n))
      BY <1>2, <2>1, FS_Subset
    <2>3. /\ Cardinality(upTo(m)) \in Nat /\ Cardinality(upTo(n)) \in Nat
          /\ rank[m] = Cardinality(upTo(m)) /\ rank[n] = Cardinality(upTo(n))
      BY <1>2, FS_CardinalityType
    <2> QED
      BY <2>2, <2>3
  <1> HIDE DEF upTo
  <1>4. \A m, n \in D : rank[m] = rank[n] => m = n
    <2>1. ASSUME NEW m \in D, NEW n \in D, m # n PROVE rank[m] # rank[n]
      <3>1. rank[m] \in Nat /\ rank[n] \in Nat
        BY <1>2
      <3>2. rank[m] < rank[n] \/ rank[n] < rank[m]
        BY <1>3, <2>1 DEF StrictOrder
      <3> HIDE DEF rank
      <3> QED
        BY <3>1, <3>2
    <2> QED
      BY <2>1
  <1>5. rank \in Injection(D, D)
    BY <1>2, <1>4 DEF Injection, IsInjective
  <1>6. \A p \in D : \E n \in D : rank[n] = p
    <2> HIDE DEF rank, D
    <2>1. rank \in Surjection(D, D)
      BY <1>1, <1>5, FS_Injection
    <2> QED
      BY <2>1 DEF Surjection
  <1>7. \A p \in D : order[p] \in D /\ rank[order[p]] = p
    BY <1>6
  <1>8. order \in [D -> D]
    BY <1>7
  <1> HIDE DEF order, rank
  <1>9. order \in Bijection(D, D)
    <2>1. order \in Injection(D, D)
      BY <1>7, <1>8 DEF Injection, IsInjective
    <2>2. \A n \in D : order[rank[n]] = n
      BY <1>2, <1>4, <1>7
    <2>3. order \in Surjection(D, D)
      BY <1>2, <1>8, <2>2 DEF Surjection
    <2> QED
      BY <2>1, <2>3 DEF Bijection
  <1>10. ASSUME NEW p \in D, NEW q \in D, <<order[p], order[q]>> \in before PROVE p < q
    BY <1>3, <1>7, <1>10
  <1> QED
    BY <1>9, <1>10
-----------------------------------------------------------------------------
(* Agreement with the oracle: the invariant.                               *)

Valid(n)       == raw[n].event.verdict = "OK"
SameId(m, n)   == raw[m].event.id = raw[n].event.id
SameKey(m, n)  == raw[m].event.key = raw[n].event.key
Repeated(n)    == \E m \in 1..(n - 1) : Valid(m) /\ SameId(m, n)
Row(n, code)   == [receipt |-> raw[n].receipt, code |-> code]
Duplicates     == {"DUPLICATE_EVENT_ID", "DUPLICATE_BUSINESS_KEY"}
Codes          == {"between", "OK"} \cup Rejections \cup Duplicates

(* What a record read has come to, or that it is between the layers.       *)
Sorted(code) ==
    \A n \in read :
        /\ ~Valid(n) => code[n] = raw[n].event.verdict
        /\ (Valid(n) /\ Repeated(n)) => code[n] = "DUPLICATE_EVENT_ID"
        /\ (Valid(n) /\ ~Repeated(n)) => code[n] \in {"between", "OK", "DUPLICATE_BUSINESS_KEY"}

(* The rows are those of the records that are decided, the others wait.    *)
Placed(code) ==
    /\ quality = {Row(n, code[n]) : n \in {m \in read : code[m] # "between"}}
    /\ \A n \in read : code[n] = "between" => between[raw[n].event.id] = <<raw[n]>>
    /\ \A i \in Id : between[i] # <<>> =>
          \E n \in read : code[n] = "between" /\ raw[n].event.id = i /\ between[i] = <<raw[n]>>

(* A key has one clean record, and others only after it.                   *)
KeysApart(code) ==
    /\ \A m, n \in read : (code[m] = "OK" /\ code[n] = "OK" /\ SameKey(m, n)) => m = n
    /\ \A n \in read : code[n] = "DUPLICATE_BUSINESS_KEY" =>
          \E m \in read : code[m] = "OK" /\ SameKey(m, n)

(* Each layer remembers exactly what passed it.                            *)
Known(code) ==
    /\ \A n \in read : Valid(n) => expires[EventKey(raw[n])] # None
    /\ \A n \in read : code[n] = "OK" => expires[BusinessKey(raw[n])] # None
    /\ \A i \in Id : expires[<<"id", i>>] # None => \E n \in read : Valid(n) /\ raw[n].event.id = i
    /\ \A k \in {e.key : e \in Event} : expires[<<"business", k>>] # None =>
          \E n \in read : code[n] = "OK" /\ raw[n].event.key = k

Decided(code) == Sorted(code) /\ Placed(code) /\ KeysApart(code) /\ Known(code)

(* Records of an id are read in order, and nothing expires before Dedup.   *)
InTurn == \A n \in read : \A m \in 1..(n - 1) : SameId(m, n) => m \in read
Lasting ==
    /\ \A k \in Key : expires[k] # None => expires[k] >= Dedup
    /\ \A k \in Key : \A t \in Nat : <<k, t>> \in timers => t >= Dedup

PassSound ==
    /\ InTurn /\ Lasting
    /\ clock < Dedup => \E code \in [read -> Codes] : Decided(code)

(* Before the first expiry, a key is remembered once it was seen.          *)
LEMMA Remembrance ==
    ASSUME CleanTyped, Lasting, clock < Dedup, NEW k \in Key
    PROVE  Remembered(k) <=> expires[k] # None
  <1>1. clock \in Nat /\ Dedup \in Nat /\ (expires[k] # None => expires[k] \in Nat)
    BY CleanAssumption DEF CleanTyped
  <1> QED
    BY <1>1 DEF Remembered, Lasting

(* What the records already read are does not depend on those to come.     *)
LEMMA RecordsStay ==
    ASSUME RawTyped, \A n \in DOMAIN raw : raw'[n] = raw[n]
    PROVE  /\ \A n \in DOMAIN raw : /\ n \in Nat /\ 1..(n - 1) \subseteq DOMAIN raw
                                    /\ (Valid(n)' <=> Valid(n)) /\ (Repeated(n)' <=> Repeated(n))
                                    /\ \A c : Row(n, c)' = Row(n, c)
           /\ \A m, n \in DOMAIN raw : (SameId(m, n)' <=> SameId(m, n)) /\ (SameKey(m, n)' <=> SameKey(m, n))
  <1>1. \A n \in DOMAIN raw : n \in Nat /\ 1..(n - 1) \subseteq DOMAIN raw
    BY DEF RawTyped
  <1>2. \A n \in DOMAIN raw : Repeated(n)' <=> Repeated(n)
    BY <1>1 DEF Repeated, Valid, SameId
  <1> QED
    BY <1>1, <1>2 DEF Valid, SameId, SameKey, Row

(* Events and codes.                                                       *)
LEMMA Verdicts ==
    ASSUME RawTyped, NEW n \in DOMAIN raw
    PROVE  /\ raw[n] \in Packets /\ raw[n].event \in Event
           /\ raw[n].event.id \in Id /\ raw[n].event.key \in {e.key : e \in Event}
           /\ EventKey(raw[n]) = <<"id", raw[n].event.id>> /\ EventKey(raw[n]) \in Key
           /\ BusinessKey(raw[n]) = <<"business", raw[n].event.key>> /\ BusinessKey(raw[n]) \in Key
           /\ ~Valid(n) => raw[n].event.verdict \in Rejections
  <1>1. raw[n] \in Packets
    BY DEF RawTyped
  <1>2. raw[n].event \in Event
    BY <1>1 DEF Packets
  <1> QED
    BY <1>1, <1>2, KeysOf, CleanAssumption DEF Id, EventKey, BusinessKey, Valid, Rejections

(* A record that is refused on the spot.                                   *)
LEMMA Refused ==
    ASSUME RawTyped, CleanTyped, NEW n \in DOMAIN raw \ read, NEW code \in [read -> Codes], Decided(code),
           NEW c, IF Valid(n) THEN Repeated(n) /\ c = "DUPLICATE_EVENT_ID" ELSE c = raw[n].event.verdict,
           Valid(n) => expires[EventKey(raw[n])] # None,
           read' = read \cup {n}, quality' = quality \cup {Row(n, c)}, UNCHANGED <<raw, between, expires>>
    PROVE  \E new \in [read' -> Codes] : Decided(new)'
  <1>1. c \in Rejections \cup Duplicates /\ c \notin {"between", "OK", "DUPLICATE_BUSINESS_KEY"}
    BY Verdicts DEF Duplicates, Rejections
  <1>2. read \subseteq DOMAIN raw
    BY DEF CleanTyped
  <1>3. PICK new : new = [m \in read \cup {n} |-> IF m = n THEN c ELSE code[m]]
    OBVIOUS
  <1>4. new \in [read' -> Codes] /\ new[n] = c /\ \A m \in read : m # n /\ new[m] = code[m]
    BY <1>1, <1>3 DEF Codes
  <1>5. Sorted(new)'
    BY <1>2, <1>4, RecordsStay DEF Sorted, Decided
  <1>6. Placed(new)'
    <2>1. quality' = {Row(m, new[m]) : m \in {l \in read' : new[l] # "between"}}
      BY <1>1, <1>4 DEF Placed, Decided
    <2>2. \A m \in read' : new[m] = "between" => between'[raw[m].event.id] = <<raw[m]>>
      BY <1>1, <1>4 DEF Placed, Decided
    <2>3. \A i \in Id : between'[i] # <<>> =>
             \E m \in read' : new[m] = "between" /\ raw[m].event.id = i /\ between'[i] = <<raw[m]>>
      BY <1>1, <1>4 DEF Placed, Decided
    <2> QED
      BY <2>1, <2>2, <2>3 DEF Placed, Row
  <1>7. KeysApart(new)'
    BY <1>1, <1>2, <1>4, RecordsStay DEF KeysApart, Decided
  <1>8. Known(new)'
    <2>1. \A m \in read' : /\ Valid(m) => expires[EventKey(raw[m])] # None
                           /\ new[m] = "OK" => expires[BusinessKey(raw[m])] # None
      BY <1>1, <1>4 DEF Known, Decided
    <2>2. \A i \in Id : expires[<<"id", i>>] # None => \E m \in read' : Valid(m) /\ raw[m].event.id = i
      BY DEF Known, Decided
    <2>3. \A k \in {e.key : e \in Event} : expires[<<"business", k>>] # None =>
             \E m \in read' : new[m] = "OK" /\ raw[m].event.key = k
      BY <1>4 DEF Known, Decided
    <2> QED
      BY <2>1, <2>2, <2>3 DEF Known, Valid, EventKey, BusinessKey
  <1> QED
    BY <1>4, <1>5, <1>6, <1>7, <1>8 DEF Decided

(* A record that passes the first layer.                                   *)
LEMMA Passed ==
    ASSUME RawTyped, CleanTyped, NEW n \in DOMAIN raw \ read, NEW code \in [read -> Codes], Decided(code),
           Valid(n), ~Repeated(n), expires[EventKey(raw[n])] = None,
           read' = read \cup {n}, UNCHANGED <<raw, quality>>,
           between' = [between EXCEPT ![raw[n].event.id] = Append(@, raw[n])],
           expires'[EventKey(raw[n])] # None,
           \A k \in Key : k # EventKey(raw[n]) => expires'[k] = expires[k]
    PROVE  \E new \in [read' -> Codes] : Decided(new)'
  <1> DEFINE id == raw[n].event.id
  <1>1. id \in Id /\ raw[n] \in Packets /\ EventKey(raw[n]) = <<"id", id>>
    BY Verdicts
  <1>2. read \subseteq DOMAIN raw /\ between \in [Id -> Seq(Packets)]
    BY DEF CleanTyped
  <1>3. PICK new : new = [m \in read \cup {n} |-> IF m = n THEN "between" ELSE code[m]]
    OBVIOUS
  <1>4. new \in [read' -> Codes] /\ new[n] = "between" /\ \A m \in read : m # n /\ new[m] = code[m]
    BY <1>3 DEF Codes
  <1>5. Sorted(new)'
    BY <1>2, <1>4, RecordsStay DEF Sorted, Decided
  <1>6. \A m \in read : Valid(m) => raw[m].event.id # id
    BY DEF Known, Decided, EventKey
  <1>7. \A m \in read : code[m] = "between" => raw[m].event.id # id
    <2>1. \A m \in read : code[m] = "between" => Valid(m)
      BY <1>2, Verdicts DEF Sorted, Decided, Rejections
    <2> QED
      BY <1>6, <2>1
  <1>8. between[id] = <<>>
    BY <1>1, <1>7 DEF Placed, Decided
  <1>9. between'[id] = <<raw[n]>> /\ \A i \in Id : i # id => between'[i] = between[i]
    BY <1>1, <1>2, <1>8
  <1>10. Placed(new)'
    <2>1. quality' = {Row(m, new[m]) : m \in {l \in read' : new[l] # "between"}}
      BY <1>4 DEF Placed, Decided
    <2>2. ASSUME NEW m \in read', new[m] = "between" PROVE between'[raw[m].event.id] = <<raw[m]>>
      <3>1. CASE m = n
        BY <1>9, <3>1
      <3>2. CASE m \in read
        <4>1. code[m] = "between" /\ raw[m].event.id \in Id
          BY <1>2, <1>4, <2>2, <3>2, Verdicts
        <4> QED
          BY <1>7, <1>9, <3>2, <4>1 DEF Placed, Decided
      <3> QED
        BY <3>1, <3>2
    <2>3. ASSUME NEW i \in Id, between'[i] # <<>>
          PROVE  \E m \in read' : new[m] = "between" /\ raw[m].event.id = i /\ between'[i] = <<raw[m]>>
      <3>1. CASE i = id
        BY <1>4, <1>9, <3>1
      <3>2. CASE i # id
        <4>1. PICK m \in read : code[m] = "between" /\ raw[m].event.id = i /\ between[i] = <<raw[m]>>
          BY <1>9, <2>3, <3>2 DEF Placed, Decided
        <4> QED
          BY <1>4, <1>9, <3>2, <4>1
      <3> QED
        BY <3>1, <3>2
    <2>4. \A m, c : Row(m, c)' = Row(m, c)
      BY DEF Row
    <2> QED
      BY <2>1, <2>2, <2>3, <2>4 DEF Placed
  <1>11. KeysApart(new)'
    BY <1>2, <1>4, RecordsStay DEF KeysApart, Decided
  <1>12. Known(new)'
    <2>1. ASSUME NEW m \in read', Valid(m) PROVE expires'[EventKey(raw[m])] # None
      <3>1. CASE m = n
        BY <3>1
      <3>2. CASE m \in read
        <4>1. EventKey(raw[m]) \in Key /\ expires[EventKey(raw[m])] # None
          BY <1>2, <2>1, <3>2, Verdicts DEF Known, Decided
        <4> QED
          BY <4>1
      <3> QED
        BY <3>1, <3>2
    <2>2. ASSUME NEW m \in read', new[m] = "OK" PROVE expires'[BusinessKey(raw[m])] # None
      <3>1. m \in read /\ code[m] = "OK"
        BY <1>4, <2>2
      <3>2. BusinessKey(raw[m]) \in Key /\ BusinessKey(raw[m]) # EventKey(raw[n])
        BY <1>2, <3>1, Verdicts DEF BusinessKey, EventKey
      <3> QED
        BY <3>1, <3>2 DEF Known, Decided
    <2>3. ASSUME NEW i \in Id, expires'[<<"id", i>>] # None
          PROVE  \E m \in read' : Valid(m) /\ raw[m].event.id = i
      <3>1. <<"id", i>> \in Key
        BY DEF Key
      <3>2. CASE i = id
        BY <3>2
      <3>3. CASE i # id
        <4>1. <<"id", i>> # EventKey(raw[n])
          BY <1>1, <3>3
        <4> QED
          BY <2>3, <3>1, <4>1 DEF Known, Decided
      <3> QED
        BY <3>2, <3>3
    <2>4. ASSUME NEW k \in {e.key : e \in Event}, expires'[<<"business", k>>] # None
          PROVE  \E m \in read' : new[m] = "OK" /\ raw[m].event.key = k
      <3>1. <<"business", k>> \in Key /\ <<"business", k>> # EventKey(raw[n])
        BY <1>1 DEF Key
      <3>2. PICK m \in read : code[m] = "OK" /\ raw[m].event.key = k
        BY <2>4, <3>1 DEF Known, Decided
      <3> QED
        BY <1>4, <3>2
    <2> QED
      BY <2>1, <2>2, <2>3, <2>4 DEF Known, Valid, EventKey, BusinessKey
  <1> QED
    BY <1>4, <1>5, <1>10, <1>11, <1>12 DEF Decided

(* A record that waits between the layers is decided.                      *)
LEMMA Settled ==
    ASSUME RawTyped, CleanTyped, NEW code \in [read -> Codes], Decided(code),
           NEW n \in read, code[n] = "between",
           NEW c \in {"OK", "DUPLICATE_BUSINESS_KEY"},
           UNCHANGED <<raw, read>>, quality' = quality \cup {Row(n, c)},
           between' = [between EXCEPT ![raw[n].event.id] = Tail(@)],
           IF c = "OK" THEN /\ expires[BusinessKey(raw[n])] = None
                            /\ expires'[BusinessKey(raw[n])] # None
                            /\ \A k \in Key : k # BusinessKey(raw[n]) => expires'[k] = expires[k]
                       ELSE expires[BusinessKey(raw[n])] # None /\ UNCHANGED expires
    PROVE  \E new \in [read' -> Codes] : Decided(new)'
  <1> DEFINE id == raw[n].event.id
  <1>1. read \subseteq DOMAIN raw /\ between \in [Id -> Seq(Packets)]
    BY DEF CleanTyped
  <1>2. id \in Id /\ raw[n] \in Packets /\ raw[n].event.key \in {e.key : e \in Event}
    BY <1>1, Verdicts
  <1>3. PICK new : new = [m \in read |-> IF m = n THEN c ELSE code[m]]
    OBVIOUS
  <1>4. new \in [read' -> Codes] /\ new[n] = c /\ \A m \in read : m # n => new[m] = code[m]
    BY <1>3 DEF Codes, Duplicates
  <1>5. \A m \in read : code[m] = "between" => Valid(m) /\ ~Repeated(m)
    BY <1>1, Verdicts DEF Sorted, Decided, Rejections
  <1>6. ASSUME NEW m \in read, code[m] = "between", m # n PROVE raw[m].event.id # id
    <2>1. SUFFICES ASSUME raw[m].event.id = id PROVE FALSE
      OBVIOUS
    <2>2. m \in Nat /\ n \in Nat /\ Valid(m) /\ Valid(n) /\ m \in DOMAIN raw /\ n \in DOMAIN raw
      BY <1>1, <1>5, <1>6 DEF RawTyped
    <2>3. m >= 1 /\ n >= 1
      BY <2>2 DEF RawTyped
    <2>4. m \in 1..(n - 1) \/ n \in 1..(m - 1)
      BY <1>6, <2>2, <2>3
    <2>5. Repeated(n) \/ Repeated(m)
      BY <2>1, <2>2, <2>4 DEF Repeated, SameId
    <2> QED
      BY <1>5, <1>6, <2>5
  <1>7. Sorted(new)'
    <2>1. \A m \in read : /\ ~Valid(m) => new[m] = raw[m].event.verdict
                          /\ (Valid(m) /\ Repeated(m)) => new[m] = "DUPLICATE_EVENT_ID"
                          /\ (Valid(m) /\ ~Repeated(m)) => new[m] \in {"between", "OK", "DUPLICATE_BUSINESS_KEY"}
      BY <1>4, <1>5 DEF Sorted, Decided
    <2> QED
      BY <1>1, <2>1, RecordsStay DEF Sorted
  <1>8. between[id] = <<raw[n]>> /\ between'[id] = <<>> /\ \A i \in Id : i # id => between'[i] = between[i]
    <2>1. between[id] = <<raw[n]>>
      BY DEF Placed, Decided
    <2>2. between'[id] = Tail(between[id]) /\ \A i \in Id : i # id => between'[i] = between[i]
      BY <1>1, <1>2
    <2> QED
      BY <2>1, <2>2
  <1>9. Placed(new)'
    <2>1. quality' = {Row(m, new[m]) : m \in {l \in read' : new[l] # "between"}}
      <3>1. quality = {Row(m, code[m]) : m \in {l \in read : code[l] # "between"}}
        BY DEF Placed, Decided
      <3>2. {l \in read' : new[l] # "between"} = {l \in read : code[l] # "between"} \cup {n}
        BY <1>4
      <3>3. \A m \in read : code[m] # "between" => new[m] = code[m]
        BY <1>4
      <3> QED
        BY <1>4, <3>1, <3>2, <3>3
    <2>2. ASSUME NEW m \in read', new[m] = "between" PROVE between'[raw[m].event.id] = <<raw[m]>>
      <3>1. m # n /\ code[m] = "between" /\ raw[m].event.id \in Id
        BY <1>1, <1>4, <2>2, Verdicts
      <3> QED
        BY <1>6, <1>8, <3>1 DEF Placed, Decided
    <2>3. ASSUME NEW i \in Id, between'[i] # <<>>
          PROVE  \E m \in read' : new[m] = "between" /\ raw[m].event.id = i /\ between'[i] = <<raw[m]>>
      <3>1. i # id /\ between'[i] = between[i]
        BY <1>8, <2>3
      <3>2. PICK m \in read : code[m] = "between" /\ raw[m].event.id = i /\ between[i] = <<raw[m]>>
        BY <2>3, <3>1 DEF Placed, Decided
      <3> QED
        BY <1>4, <3>1, <3>2
    <2>4. {Row(m, new[m])' : m \in {l \in read' : new[l] # "between"}}
             = {Row(m, new[m]) : m \in {l \in read' : new[l] # "between"}}
      BY DEF Row
    <2>5. \A m \in read' : new[m] = "between" => between'[raw'[m].event.id] = <<raw'[m]>>
      BY <2>2
    <2>6. \A i \in Id : between'[i] # <<>> =>
             \E m \in read' : new[m] = "between" /\ raw'[m].event.id = i /\ between'[i] = <<raw'[m]>>
      BY <2>3
    <2> QED
      BY <2>1, <2>4, <2>5, <2>6 DEF Placed
  <1>10. c = "OK" => \A m \in read : code[m] = "OK" => ~SameKey(m, n)
    <2>1. \A m \in read : SameKey(m, n) => BusinessKey(raw[m]) = BusinessKey(raw[n])
      BY DEF BusinessKey, SameKey
    <2> QED
      BY <2>1 DEF Known, Decided
  <1>11. c # "OK" => \E m \in read : code[m] = "OK" /\ SameKey(m, n)
    BY <1>1, <1>2, Verdicts DEF Known, Decided, SameKey
  <1>12. KeysApart(new)'
    <2>1. ASSUME NEW l \in read, NEW m \in read, new[l] = "OK", new[m] = "OK", SameKey(l, m) PROVE l = m
      BY <1>4, <1>10, <2>1 DEF KeysApart, Decided, SameKey
    <2>2. ASSUME NEW m \in read, new[m] = "DUPLICATE_BUSINESS_KEY" PROVE \E l \in read : new[l] = "OK" /\ SameKey(l, m)
      <3>1. PICK l \in read : code[l] = "OK" /\ SameKey(l, m)
        BY <1>4, <1>11, <2>2 DEF KeysApart, Decided
      <3> QED
        BY <1>4, <3>1
    <2> QED
      BY <1>1, <2>1, <2>2, RecordsStay DEF KeysApart
  <1>13. Known(new)'
    <2>1. ASSUME NEW m \in read PROVE /\ Valid(m) => expires'[EventKey(raw[m])] # None
                                      /\ new[m] = "OK" => expires'[BusinessKey(raw[m])] # None
      <3>1. EventKey(raw[m]) \in Key /\ BusinessKey(raw[m]) \in Key /\ EventKey(raw[m]) # BusinessKey(raw[n])
        BY <1>1, Verdicts DEF EventKey, BusinessKey
      <3> QED
        BY <1>4, <3>1 DEF Known, Decided
    <2>2. ASSUME NEW i \in Id, expires'[<<"id", i>>] # None
          PROVE  \E m \in read : Valid(m) /\ raw[m].event.id = i
      <3>1. <<"id", i>> \in Key /\ <<"id", i>> # BusinessKey(raw[n])
        BY DEF Key, BusinessKey
      <3> QED
        BY <2>2, <3>1 DEF Known, Decided
    <2>3. ASSUME NEW k \in {e.key : e \in Event}, expires'[<<"business", k>>] # None
          PROVE  \E m \in read : new[m] = "OK" /\ raw[m].event.key = k
      <3>1. <<"business", k>> \in Key
        BY DEF Key
      <3>2. CASE c = "OK" /\ raw[n].event.key = k
        BY <1>4, <3>2
      <3>3. CASE c = "OK" /\ raw[n].event.key # k
        <4>1. <<"business", k>> # BusinessKey(raw[n])
          BY <3>3 DEF BusinessKey
        <4>2. PICK m \in read : code[m] = "OK" /\ raw[m].event.key = k
          BY <2>3, <3>1, <3>3, <4>1 DEF Known, Decided
        <4> QED
          BY <1>4, <4>2
      <3>4. CASE c # "OK"
        <4>1. PICK m \in read : code[m] = "OK" /\ raw[m].event.key = k
          BY <2>3, <3>4 DEF Known, Decided
        <4> QED
          BY <1>4, <4>1
      <3> QED
        BY <3>2, <3>3, <3>4
    <2> QED
      BY <2>1, <2>2, <2>3 DEF Known, Valid, EventKey, BusinessKey
  <1> QED
    BY <1>4, <1>7, <1>9, <1>12, <1>13 DEF Decided

(* Records that come later change nothing of those read.                   *)
LEMMA DecidedStays ==
    ASSUME RawTyped, CleanTyped, \A n \in DOMAIN raw : raw'[n] = raw[n],
           UNCHANGED <<read, between, expires, quality>>, NEW code \in [read -> Codes], Decided(code)
    PROVE  Decided(code)'
  <1>1. read \subseteq DOMAIN raw
    BY DEF CleanTyped
  <1>2. Sorted(code)' /\ KeysApart(code)'
    BY <1>1, RecordsStay DEF Sorted, KeysApart, Decided
  <1>3. Placed(code)'
    <2>1. {Row(n, code[n])' : n \in {m \in read : code[m] # "between"}}
             = {Row(n, code[n]) : n \in {m \in read : code[m] # "between"}}
      BY <1>1, RecordsStay
    <2> QED
      BY <1>1, <2>1 DEF Placed, Decided
  <1>4. Known(code)'
    BY <1>1 DEF Known, Decided, Valid, EventKey, BusinessKey
  <1> QED
    BY <1>2, <1>3, <1>4 DEF Decided

(* Nothing is classified at the start.                                     *)
LEMMA PassStart == Init => PassSound
  <1> SUFFICES ASSUME Init PROVE PassSound
    OBVIOUS
  <1>1. /\ read = {} /\ between = [i \in Id |-> <<>>] /\ quality = {}
        /\ expires = [k \in Key |-> None] /\ timers = {} /\ raw = <<>>
    BY DEF Init, CleanInit, CollectorInit
  <1>2. InTurn /\ Lasting
    BY <1>1 DEF InTurn, Lasting
  <1>3. PICK code : code = [n \in read |-> "between"]
    OBVIOUS
  <1>4. code \in [read -> Codes]
    BY <1>3 DEF Codes
  <1>5. \A k \in Key : expires[k] = None
    BY <1>1
  <1>6. Sorted(code) /\ Placed(code) /\ KeysApart(code)
    BY <1>1 DEF Sorted, Placed, KeysApart
  <1>7. Known(code)
    BY <1>1, <1>5 DEF Known, Key
  <1> QED
    BY <1>2, <1>4, <1>6, <1>7 DEF PassSound, Decided

(* The collector only adds records.                                        *)
LEMMA PassWaits ==
    ASSUME RawTyped, CleanTyped, PassSound, UNCHANGED cleanVars,
           RawKept
    PROVE  PassSound'
  <1>1. UNCHANGED <<read, between, expires, timers, clock, quality>> /\ read \subseteq DOMAIN raw
    BY DEF cleanVars, CleanTyped
  <1>0. \A n \in DOMAIN raw : raw'[n] = raw[n]
    BY DEF RawKept
  <1>2. InTurn'
    BY <1>0, <1>1, RecordsStay DEF InTurn, PassSound
  <1>3. Lasting'
    BY <1>1 DEF Lasting, PassSound
  <1>4. ASSUME clock < Dedup PROVE \E code \in [read' -> Codes] : Decided(code)'
    <2>1. PICK code \in [read -> Codes] : Decided(code)
      BY <1>4 DEF PassSound
    <2>2. Decided(code)'
      BY <1>0, <1>1, <2>1, DecidedStays
    <2> QED
      BY <1>1, <2>1, <2>2
  <1> QED
    BY <1>1, <1>2, <1>3, <1>4 DEF PassSound

(* Every step of the job.                                                  *)
LEMMA PassStep ==
    ASSUME RawTyped, CleanSound, PassSound, CleanNext, UNCHANGED raw
    PROVE  PassSound'
  <1>1. CleanTyped /\ Timed /\ InTurn /\ Lasting
    BY DEF CleanSound, PassSound
  <1>2. clock \in Nat /\ Dedup \in Nat /\ read \subseteq DOMAIN raw
    BY <1>1, CleanAssumption DEF CleanTyped
  <1>3. clock < Dedup => \E code \in [read -> Codes] : Decided(code)
    BY DEF PassSound
  <1>4. ASSUME NEW n \in DOMAIN raw, Reads(n)
        PROVE  /\ n \in DOMAIN raw \ read /\ read' = read \cup {n} /\ InTurn'
               /\ \A m \in 1..(n - 1) : SameId(m, n) => m \in read
    <2>1. /\ n \in DOMAIN raw \ read /\ read' = read \cup {n}
          /\ \A m \in 1..(n - 1) : SameId(m, n) => m \in read
      BY <1>4 DEF Reads, SameId
    <2>2. InTurn'
      BY <1>1, <1>2, <2>1, RecordsStay DEF InTurn
    <2> QED
      BY <2>1, <2>2
  <1>5. ASSUME NEW k \in Key, Remembers(k), UNCHANGED clock
        PROVE  /\ Lasting' /\ expires'[k] # None
               /\ \A l \in Key : l # k => expires'[l] = expires[l]
               /\ clock < Dedup => expires[k] = None
    <2>1. /\ expires' \in [Key -> Nat \cup {None}] /\ expires'[k] = clock + Dedup
          /\ \A l \in Key : l # k => expires'[l] = expires[l]
      BY <1>1, <1>5, Remembering
    <2>2. timers' = timers \cup {<<k, clock + Dedup>>} /\ ~Remembered(k)
      BY <1>5 DEF Remembers
    <2>3. clock + Dedup >= Dedup /\ clock + Dedup \in Nat /\ None \notin Nat
      BY <1>2, CleanAssumption
    <2>4. \A l \in Key : expires'[l] # None => expires'[l] >= Dedup
      BY <1>1, <2>1, <2>3 DEF Lasting
    <2>5. \A l \in Key : \A t \in Nat : <<l, t>> \in timers' => t >= Dedup
      BY <1>1, <2>2, <2>3 DEF Lasting
    <2> QED
      BY <1>1, <2>1, <2>2, <2>3, <2>4, <2>5, Remembrance DEF Lasting
  <1>6. ASSUME NEW n \in DOMAIN raw, Rejects(n) PROVE PassSound'
    <2>1. /\ Reads(n) /\ ~Valid(n) /\ quality' = quality \cup {Row(n, raw[n].event.verdict)}
          /\ UNCHANGED <<raw, between, expires, timers, clock>>
      BY <1>6 DEF Rejects, Reports, Valid, Row
    <2>2. Lasting'
      BY <1>1, <2>1 DEF Lasting
    <2>3. ASSUME clock < Dedup PROVE \E new \in [read' -> Codes] : Decided(new)'
      <3>1. PICK code \in [read -> Codes] : Decided(code)
        BY <1>3, <2>3
      <3> QED
        BY <1>1, <1>4, <2>1, <3>1, Refused
    <2> QED
      BY <1>4, <2>1, <2>2, <2>3 DEF PassSound
  <1>7. ASSUME NEW n \in DOMAIN raw, RefusesId(n) PROVE PassSound'
    <2>1. /\ Reads(n) /\ Valid(n) /\ quality' = quality \cup {Row(n, "DUPLICATE_EVENT_ID")}
          /\ Remembered(EventKey(raw[n]))
          /\ UNCHANGED <<raw, between, expires, timers, clock>>
      BY <1>7 DEF RefusesId, Reports, Valid, Row
    <2>2. Lasting'
      BY <1>1, <2>1 DEF Lasting
    <2>3. ASSUME clock < Dedup PROVE \E new \in [read' -> Codes] : Decided(new)'
      <3>1. PICK code \in [read -> Codes] : Decided(code)
        BY <1>3, <2>3
      <3>2. expires[EventKey(raw[n])] # None
        BY <1>1, <2>1, <2>3, Remembrance, Verdicts
      <3>3. PICK m \in read : Valid(m) /\ SameId(m, n)
        BY <3>1, <3>2, Verdicts DEF Known, Decided, SameId
      <3>4. m \in 1..(n - 1)
        <4>1. m # n /\ m \in DOMAIN raw /\ n \notin read
          BY <1>2, <1>4, <2>1, <3>3
        <4>2. n \notin 1..(m - 1)
          BY <1>1, <3>3, <4>1 DEF InTurn, SameId
        <4> QED
          BY <4>1, <4>2 DEF RawTyped
      <3>5. Repeated(n)
        BY <3>3, <3>4 DEF Repeated
      <3> QED
        BY <1>1, <1>4, <2>1, <3>1, <3>2, <3>5, Refused
    <2> QED
      BY <1>4, <2>1, <2>2, <2>3 DEF PassSound
  <1>8. ASSUME NEW n \in DOMAIN raw, PassesId(n) PROVE PassSound'
    <2>1. /\ Reads(n) /\ Valid(n) /\ Remembers(EventKey(raw[n]))
          /\ between' = [between EXCEPT ![raw[n].event.id] = Append(@, raw[n])]
          /\ UNCHANGED <<raw, clock, quality>>
      BY <1>8 DEF PassesId, Valid
    <2>2. EventKey(raw[n]) \in Key
      BY Verdicts
    <2>3. ASSUME clock < Dedup PROVE \E new \in [read' -> Codes] : Decided(new)'
      <3>1. PICK code \in [read -> Codes] : Decided(code)
        BY <1>3, <2>3
      <3>2. expires[EventKey(raw[n])] = None
        BY <1>5, <2>1, <2>2, <2>3
      <3>3. \A m \in read : Valid(m) => ~SameId(m, n)
        BY <3>1, <3>2 DEF Known, Decided, SameId, EventKey
      <3>4. ~Repeated(n)
        BY <1>4, <2>1, <3>3 DEF Repeated
      <3>5. /\ expires'[EventKey(raw[n])] # None
            /\ \A k \in Key : k # EventKey(raw[n]) => expires'[k] = expires[k]
        BY <1>5, <2>1, <2>2
      <3> QED
        BY <1>1, <1>4, <2>1, <3>1, <3>2, <3>4, <3>5, Passed
    <2> QED
      BY <1>4, <1>5, <2>1, <2>2, <2>3 DEF PassSound
  <1>9. ASSUME NEW i \in Id, Takes(i), NEW code \in [read -> Codes], Decided(code)
        PROVE  \E n \in read : /\ code[n] = "between" /\ raw[n].event.id = i /\ Head(between[i]) = raw[n]
                               /\ between' = [between EXCEPT ![raw[n].event.id] = Tail(@)]
    <2>1. between[i] # <<>> /\ between' = [between EXCEPT ![i] = Tail(@)]
      BY <1>9 DEF Takes
    <2>2. PICK n \in read : code[n] = "between" /\ raw[n].event.id = i /\ between[i] = <<raw[n]>>
      BY <1>9, <2>1 DEF Placed, Decided
    <2>3. Head(between[i]) = raw[n]
      BY <2>2
    <2> QED
      BY <2>1, <2>2, <2>3
  <1>10. ASSUME NEW i \in Id, RefusesKey(i) PROVE PassSound'
    <2>1. /\ Takes(i) /\ Remembered(BusinessKey(Head(between[i])))
          /\ quality' = quality \cup {[receipt |-> Head(between[i]).receipt, code |-> "DUPLICATE_BUSINESS_KEY"]}
          /\ UNCHANGED <<raw, read, expires, timers, clock>>
      BY <1>10 DEF RefusesKey, Reports
    <2>2. InTurn' /\ Lasting'
      BY <1>1, <2>1 DEF InTurn, Lasting, SameId
    <2>3. ASSUME clock < Dedup PROVE \E new \in [read' -> Codes] : Decided(new)'
      <3>1. PICK code \in [read -> Codes] : Decided(code)
        BY <1>3, <2>3
      <3>2. PICK n \in read : /\ code[n] = "between" /\ Head(between[i]) = raw[n]
                              /\ between' = [between EXCEPT ![raw[n].event.id] = Tail(@)]
        BY <1>9, <2>1, <3>1
      <3>3. expires[BusinessKey(raw[n])] # None
        BY <1>1, <1>2, <2>1, <2>3, <3>2, Remembrance, Verdicts
      <3>4. quality' = quality \cup {Row(n, "DUPLICATE_BUSINESS_KEY")}
        BY <2>1, <3>2 DEF Row
      <3> QED
        BY <1>1, <2>1, <3>1, <3>2, <3>3, <3>4, Settled
    <2> QED
      BY <2>1, <2>2, <2>3 DEF PassSound
  <1>11. ASSUME NEW i \in Id, Cleans(i) PROVE PassSound'
    <2>1. /\ Takes(i) /\ Remembers(BusinessKey(Head(between[i])))
          /\ quality' = quality \cup {[receipt |-> Head(between[i]).receipt, code |-> "OK"]}
          /\ UNCHANGED <<raw, read, clock>>
      BY <1>11 DEF Cleans, Reports
    <2>2. BusinessKey(Head(between[i])) \in Key
      <3>1. Head(between[i]) \in Packets
        BY <1>1, <2>1 DEF CleanTyped, Takes
      <3> QED
        BY <3>1, KeysOf
    <2>3. InTurn' /\ Lasting'
      BY <1>1, <1>5, <2>1, <2>2 DEF InTurn, SameId
    <2>4. ASSUME clock < Dedup PROVE \E new \in [read' -> Codes] : Decided(new)'
      <3>1. PICK code \in [read -> Codes] : Decided(code)
        BY <1>3, <2>4
      <3>2. PICK n \in read : /\ code[n] = "between" /\ Head(between[i]) = raw[n]
                              /\ between' = [between EXCEPT ![raw[n].event.id] = Tail(@)]
        BY <1>9, <2>1, <3>1
      <3>3. /\ expires[BusinessKey(raw[n])] = None /\ expires'[BusinessKey(raw[n])] # None
            /\ \A k \in Key : k # BusinessKey(raw[n]) => expires'[k] = expires[k]
        BY <1>5, <2>1, <2>2, <2>4, <3>2
      <3>4. quality' = quality \cup {Row(n, "OK")}
        BY <2>1, <3>2 DEF Row
      <3> QED
        BY <1>1, <2>1, <3>1, <3>2, <3>3, <3>4, Settled
    <2> QED
      BY <2>1, <2>3, <2>4 DEF PassSound
  <1>12. CASE Tick
    <2>1. clock' = clock + 1 /\ UNCHANGED <<raw, read, between, expires, timers, quality>>
      BY <1>12 DEF Tick
    <2>2. InTurn' /\ Lasting'
      BY <1>1, <2>1 DEF InTurn, Lasting, SameId
    <2>3. ASSUME clock' < Dedup PROVE \E new \in [read' -> Codes] : Decided(new)'
      <3>1. clock < Dedup
        BY <1>2, <2>1, <2>3
      <3>2. PICK code \in [read -> Codes] : Decided(code)
        BY <1>3, <3>1
      <3>3. Decided(code)'
        BY <1>1, <2>1, <3>2, DecidedStays
      <3> QED
        BY <2>1, <3>2, <3>3
    <2> QED
      BY <2>2, <2>3 DEF PassSound
  <1>13. ASSUME NEW k \in Key, NEW t \in 0..(MaxClock + Dedup), Fires(k, t) PROVE PassSound'
    <2>1. /\ <<k, t>> \in timers /\ t <= clock /\ timers' = timers \ {<<k, t>>}
          /\ expires' = [expires EXCEPT ![k] = None] \/ UNCHANGED expires
          /\ UNCHANGED <<raw, read, clock>>
      BY <1>13 DEF Fires, Forgets
    <2>2. t >= Dedup /\ t \in Nat
      BY <1>1, <2>1 DEF Lasting
    <2>3. ~(clock' < Dedup)
      BY <1>2, <2>1, <2>2
    <2>4. \A l \in Key : expires'[l] # None => expires'[l] = expires[l]
      BY <1>1, <2>1 DEF CleanTyped
    <2>5. InTurn' /\ Lasting'
      BY <1>1, <2>1, <2>4 DEF InTurn, Lasting, SameId
    <2> QED
      BY <2>3, <2>5 DEF PassSound
  <1> QED
    BY <1>6, <1>7, <1>8, <1>10, <1>11, <1>12, <1>13 DEF CleanNext, CleanSteps

(* When all is decided, clean records first and then the others, each with *)
(* what came before it under its id, is an order for the oracle.           *)
LEMMA PassAgrees ==
    ASSUME RawTyped, CleanTyped, PassSound
    PROVE  AgreesWithNormalize
  <1> SUFFICES ASSUME read = DOMAIN raw, \A i \in Id : between[i] = <<>>, clock < Dedup
               PROVE  \E order \in Bijection(DOMAIN raw, DOMAIN raw) :
                         /\ \A p, q \in DOMAIN raw :
                               (order[p] < order[q] /\ raw[order[p]].event.id = raw[order[q]].event.id) => p < q
                         /\ Normalized([p \in DOMAIN raw |-> raw[order[p]]]) = quality
    BY DEF AgreesWithNormalize
  <1>1. PICK N \in Nat : DOMAIN raw = 1..N /\ read = 1..N
    BY DEF RawTyped
  <1>2. PICK code \in [read -> Codes] : Decided(code)
    BY DEF PassSound
  <1>3. \A n \in 1..N : code[n] # "between"
    <2> SUFFICES ASSUME NEW n \in 1..N, code[n] = "between" PROVE FALSE
      OBVIOUS
    <2>1. between[raw[n].event.id] = <<raw[n]>> /\ raw[n].event.id \in Id
      BY <1>1, <1>2, Verdicts DEF Placed, Decided
    <2>2. <<raw[n]>> # <<>>
      OBVIOUS
    <2> QED
      BY <2>1, <2>2
  <1> DEFINE early  == {n \in 1..N : \E m \in n..N : code[m] = "OK" /\ SameId(m, n)}
             before == {x \in (1..N) \X (1..N) : \/ x[1] \in early /\ x[2] \notin early
                                                 \/ (x[1] \in early <=> x[2] \in early) /\ x[1] < x[2]}
  <1>4. \A m, n \in 1..N : <<m, n>> \in before <=> \/ m \in early /\ n \notin early
                                                   \/ (m \in early <=> n \in early) /\ m < n
    OBVIOUS
  <1>5. \A m, n \in 1..N : (m < n /\ SameId(m, n)) => <<m, n>> \in before
    <2> SUFFICES ASSUME NEW m \in 1..N, NEW n \in 1..N, m < n, SameId(m, n) PROVE n \in early => m \in early
      BY <1>4
    <2> SUFFICES ASSUME n \in early PROVE m \in early
      OBVIOUS
    <2>1. PICK l \in n..N : code[l] = "OK" /\ SameId(l, n)
      OBVIOUS
    <2>2. l \in m..N /\ SameId(l, m)
      BY <1>1, <2>1 DEF SameId
    <2> QED
      BY <2>1, <2>2
  <1>6. \A n \in 1..N : code[n] = "OK" => n \in early
    BY <1>1 DEF SameId
  <1>7. \A n \in 1..N : code[n] = "DUPLICATE_BUSINESS_KEY" => n \notin early
    <2> SUFFICES ASSUME NEW n \in 1..N, code[n] = "DUPLICATE_BUSINESS_KEY", NEW m \in n..N,
                        code[m] = "OK", SameId(m, n)
                 PROVE  FALSE
      OBVIOUS
    <2>1. Valid(n) /\ m \in 1..N /\ m # n
      <3>1. m \in 1..N /\ m # n
        OBVIOUS
      <3>2. Valid(n)
        BY <1>1, <1>2, Verdicts DEF Sorted, Decided, Rejections
      <3> QED
        BY <3>1, <3>2
    <2>2. Repeated(m)
      BY <1>1, <2>1 DEF Repeated, SameId
    <2>3. Valid(m)
      BY <1>1, <1>2, <2>1, Verdicts DEF Sorted, Decided, Rejections
    <2> QED
      BY <1>1, <1>2, <2>1, <2>2, <2>3 DEF Sorted, Decided
  <1> HIDE DEF early, before
  <1>8. StrictOrder(1..N, before)
    BY <1>1, <1>4 DEF StrictOrder
  <1>9. PICK order \in Bijection(1..N, 1..N) : \A p, q \in 1..N : <<order[p], order[q]>> \in before => p < q
    BY <1>1, <1>8, InOrder
  <1>10. /\ \A p \in 1..N : order[p] \in 1..N
         /\ \A n \in 1..N : \E p \in 1..N : order[p] = n
         /\ \A p, q \in 1..N : order[p] = order[q] => p = q
    BY <1>9 DEF Bijection, Injection, Surjection, IsInjective
  <1>11. \A p, q \in 1..N : p < q <=> <<order[p], order[q]>> \in before
    <2> SUFFICES ASSUME NEW p \in 1..N, NEW q \in 1..N, p < q PROVE <<order[p], order[q]>> \in before
      BY <1>9
    <2>1. order[p] # order[q] /\ ~(q < p)
      BY <1>1, <1>10
    <2> QED
      BY <1>8, <1>9, <1>10, <2>1 DEF StrictOrder
  <1> DEFINE packets == [p \in 1..N |-> raw[order[p]]]
             given   == [p \in 1..N |-> code[order[p]]]
  <1>12. ASSUME NEW p \in 1..N PROVE given[p] = CodeOf(packets, given, p)
    <2> DEFINE n == order[p]
               repeated == \E q \in 1..(p - 1) : given[q] \notin Rejections /\ packets[q].event.id = packets[p].event.id
               taken    == \E q \in 1..(p - 1) : given[q] = "OK" /\ packets[q].event.key = packets[p].event.key
    <2>1. n \in 1..N /\ packets[p] = raw[n] /\ given[p] = code[n]
      BY <1>10
    <2>2. \A q \in 1..(p - 1) : /\ q \in 1..N /\ order[q] \in 1..N /\ <<order[q], n>> \in before
                                /\ packets[q] = raw[order[q]] /\ given[q] = code[order[q]]
      <3> TAKE q \in 1..(p - 1)
      <3>1. q \in 1..N /\ q < p
        BY <1>1
      <3> QED
        BY <1>10, <1>11, <3>1
    <2>3. \A m \in 1..N : code[m] \notin Rejections <=> Valid(m)
      BY <1>1, <1>2, Verdicts DEF Sorted, Decided, Rejections
    <2>4. repeated <=> Repeated(n)
      <3>1. ASSUME repeated PROVE Repeated(n)
        <4>1. PICK q \in 1..(p - 1) : given[q] \notin Rejections /\ packets[q].event.id = packets[p].event.id
          BY <3>1
        <4>2. Valid(order[q]) /\ SameId(order[q], n) /\ <<order[q], n>> \in before /\ order[q] \in 1..N
          BY <2>1, <2>2, <2>3, <4>1 DEF SameId
        <4>3. order[q] # n /\ ~(n < order[q])
          BY <1>5, <1>8, <2>1, <4>2 DEF StrictOrder, SameId
        <4>4. order[q] \in 1..(n - 1)
          BY <1>1, <2>1, <4>2, <4>3
        <4> QED
          BY <4>2, <4>4 DEF Repeated
      <3>2. ASSUME Repeated(n) PROVE repeated
        <4>1. PICK m \in 1..(n - 1) : Valid(m) /\ SameId(m, n)
          BY <3>2 DEF Repeated
        <4>2. m \in 1..N /\ m < n
          BY <1>1, <2>1, <4>1
        <4>3. PICK q \in 1..N : order[q] = m
          BY <1>10, <4>2
        <4>4. q < p
          BY <1>5, <1>11, <2>1, <4>1, <4>2, <4>3
        <4>5. q \in 1..(p - 1)
          BY <1>1, <4>4
        <4> QED
          BY <2>1, <2>2, <2>3, <4>1, <4>2, <4>3, <4>5 DEF SameId
      <3> QED
        BY <3>1, <3>2
    <2>5. CASE ~Valid(n)
      BY <1>1, <1>2, <2>1, <2>5 DEF CodeOf, Valid, Sorted, Decided
    <2>6. CASE Valid(n) /\ Repeated(n)
      <3>1. code[n] = "DUPLICATE_EVENT_ID"
        BY <1>1, <1>2, <2>1, <2>6 DEF Sorted, Decided
      <3> HIDE DEF packets, given
      <3> QED
        BY <2>1, <2>4, <2>6, <3>1 DEF CodeOf, Valid
    <2>7. CASE Valid(n) /\ ~Repeated(n)
      <3>1. code[n] \in {"OK", "DUPLICATE_BUSINESS_KEY"}
        BY <1>1, <1>2, <1>3, <2>1, <2>7 DEF Sorted, Decided
      <3>2. taken <=> code[n] = "DUPLICATE_BUSINESS_KEY"
        <4>1. ASSUME taken PROVE code[n] # "OK"
          <5>1. PICK q \in 1..(p - 1) : given[q] = "OK" /\ packets[q].event.key = packets[p].event.key
            BY <4>1
          <5>2. code[order[q]] = "OK" /\ SameKey(order[q], n) /\ order[q] \in 1..N /\ order[q] # n
            BY <1>8, <2>1, <2>2, <5>1 DEF SameKey, StrictOrder
          <5> QED
            BY <1>1, <1>2, <2>1, <5>2 DEF KeysApart, Decided
        <4>2. ASSUME code[n] = "DUPLICATE_BUSINESS_KEY" PROVE taken
          <5>1. PICK m \in 1..N : code[m] = "OK" /\ SameKey(m, n)
            BY <1>1, <1>2, <2>1, <4>2 DEF KeysApart, Decided
          <5>2. PICK q \in 1..N : order[q] = m
            BY <1>10
          <5>3. q < p
            BY <1>4, <1>6, <1>7, <1>11, <2>1, <4>2, <5>1, <5>2
          <5>4. q \in 1..(p - 1)
            BY <1>1, <5>3
          <5> QED
            BY <2>1, <2>2, <5>1, <5>2, <5>4 DEF SameKey
        <4> QED
          BY <3>1, <4>1, <4>2
      <3> HIDE DEF packets, given
      <3> QED
        BY <2>1, <2>4, <2>7, <3>1, <3>2 DEF CodeOf, Valid
    <2> QED
      BY <2>5, <2>6, <2>7
  <1>13. Normalized(packets) = {[receipt |-> packets[p].receipt, code |-> given[p]] : p \in 1..N}
    <2>1. DOMAIN packets = 1..N /\ DOMAIN given = 1..N
      OBVIOUS
    <2>2. \A p \in 1..N : given[p] = CodeOf(packets, given, p)
      BY <1>12
    <2>3. \A f, g : (/\ DOMAIN f = 1..N /\ DOMAIN g = 1..N
                    /\ \A p \in 1..N : g[p] = CodeOf(f, g, p))
                      => Normalized(f) = {[receipt |-> f[p].receipt, code |-> g[p]] : p \in 1..N}
      BY <1>1, PassFacts
    <2> HIDE DEF packets, given
    <2> QED
      BY <2>1, <2>2, <2>3
  <1>14. quality = {Row(n, code[n]) : n \in 1..N}
    BY <1>1, <1>2, <1>3 DEF Placed, Decided
  <1>15. Normalized(packets) = quality
    <2>1. \A p \in 1..N : [receipt |-> packets[p].receipt, code |-> given[p]] = Row(order[p], code[order[p]])
      BY DEF Row
    <2>2. Normalized(packets) = {Row(order[p], code[order[p]]) : p \in 1..N}
      BY <1>13, <2>1
    <2>3. {Row(order[p], code[order[p]]) : p \in 1..N} = {Row(n, code[n]) : n \in 1..N}
      <3>1. ASSUME NEW n \in 1..N PROVE \E p \in 1..N : Row(n, code[n]) = Row(order[p], code[order[p]])
        BY <1>10
      <3>2. \A p \in 1..N : order[p] \in 1..N
        BY <1>10
      <3> QED
        BY <3>1, <3>2
    <2> HIDE DEF packets, given
    <2> QED
      BY <1>14, <2>2, <2>3
  <1>16. \A p, q \in 1..N : (order[p] < order[q] /\ raw[order[p]].event.id = raw[order[q]].event.id) => p < q
    BY <1>5, <1>10, <1>11 DEF SameId
  <1> QED
    BY <1>1, <1>9, <1>15, <1>16

-----------------------------------------------------------------------------
(* The results.                                                            *)

Inv == CollectorSound /\ CleanSound /\ PassSound

(* Every step keeps all parts.                                             *)
LEMMA InvStep == Inv /\ [Next]_vars => Inv'
  <1> SUFFICES ASSUME Inv, [Next]_vars PROVE Inv'
    OBVIOUS
  <1>1. RawTyped /\ CleanTyped
    BY DEF Inv, CollectorSound, CleanSound
  <1>2. CASE CollectorNext /\ UNCHANGED cleanVars
    <2>1. CollectorSound' /\ RawKept
      BY <1>2, CollectorStep, RawGrows DEF Inv
    <2>2. PassSound'
      BY <1>1, <1>2, <2>1, PassWaits DEF Inv
    <2> QED
      BY <1>2, <2>1, <2>2, CleanWaits DEF Inv
  <1>3. CASE CleanNext /\ UNCHANGED collectorOnly
    <2>1. UNCHANGED raw
      BY <1>3 DEF CleanNext, CleanSteps, Rejects, RefusesId, PassesId, RefusesKey, Cleans, Tick, Fires
    <2>2. CleanSound' /\ PassSound'
      BY <1>1, <1>3, <2>1, CleanStep, PassStep DEF Inv
    <2>3. CollectorSound'
      BY <1>3, <2>1, CollectorWaits DEF Inv
    <2> QED
      BY <2>2, <2>3 DEF Inv
  <1>4. CASE UNCHANGED vars
    <2>1. UNCHANGED <<collectorOnly, raw>> /\ UNCHANGED cleanVars /\ RawKept
      BY <1>4 DEF vars, RawKept
    <2>2. PassSound'
      BY <1>1, <2>1, PassWaits DEF Inv
    <2> QED
      BY <2>1, <2>2, CollectorWaits, CleanWaits DEF Inv
  <1> QED
    BY <1>2, <1>3, <1>4 DEF Next

(* The collector and the cleaning job keep their invariants, whatever      *)
(* raises, is retried or comes late.                                       *)
THEOREM InvCorrect == Spec => []Inv
  <1>1. Init => Inv
    BY CollectorStart, CleanStart, PassStart DEF Init, Inv
  <1> QED
    BY <1>1, InvStep, PTL DEF Spec

(* One thread uses the producer at a time, and a key the job remembers has *)
(* a timer that forgets it (collector.py:51-73, CleanJob.java:86-104).     *)
THEOREM TypeCorrect == Spec => []TypeOK
  <1>1. Inv => TypeOK
    <2> SUFFICES ASSUME Inv PROVE TypeOK
      OBVIOUS
    <2>1. CollectorTypeOK
      BY BatchFacts DEF Inv, CollectorSound, Threads, LockHeld, PendingSound, CollectorTypeOK, Phases, Batch
    <2>2. CleanTypeOK
      <3>1. CleanTyped /\ Timed
        BY DEF Inv, CleanSound
      <3>2. clock \in 0..MaxClock /\ Dedup \in Nat /\ MaxClock \in Nat
        BY <3>1, CleanAssumption DEF CleanTyped
      <3>3. ASSUME NEW k \in Key PROVE expires[k] \in 0..(MaxClock + Dedup) \cup {None}
        <4>1. expires[k] \in Nat \cup {None}
          BY <3>1 DEF CleanTyped
        <4>2. expires[k] # None => expires[k] <= clock + Dedup
          BY <3>1 DEF Timed
        <4> QED
          BY <3>2, <4>1, <4>2
      <3> QED
        BY <3>1, <3>2, <3>3 DEF CleanTyped, Timed, CleanTypeOK
    <2> QED
      BY <2>1, <2>2 DEF TypeOK
  <1> QED
    BY <1>1, InvCorrect, PTL

(* For any clients and faults: raw records come with their manifest, all   *)
(* of a batch and each once (collector.py:51-73).                          *)
THEOREM RawHasManifestCorrect == Spec => []RawHasManifest
  <1>1. Inv => RawHasManifest
    BY DEF Inv, CollectorSound
  <1> QED
    BY <1>1, InvCorrect, PTL

(* For any events, repeats and times: clean rows of one business key are   *)
(* at least the time of deduplication apart (CleanJob.java:78-94).         *)
THEOREM CleanedApartCorrect == Spec => []CleanedApart
  <1>1. Inv => CleanedApart
    BY DEF Inv, CleanSound
  <1> QED
    BY <1>1, InvCorrect, PTL

(* When everything is classified within one Dedup, the codes are those of  *)
(* the oracle's one pass over some order of the records that keeps that of *)
(* each event id, whatever the interleaving (oracle.py:16-55).             *)
THEOREM AgreesWithNormalizeCorrect == Spec => []AgreesWithNormalize
  <1>1. Inv => AgreesWithNormalize
    BY PassAgrees DEF Inv, CollectorSound, CleanSound
  <1> QED
    BY <1>1, InvCorrect, PTL
=============================================================================
