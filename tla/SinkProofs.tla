------------------------------ MODULE SinkProofs ------------------------------
(* Proofs about Sink for any workers, partitions, keys, values and faults. *)
EXTENDS Sink, SequenceTheorems, FiniteSetTheorems, WellFoundedInduction, TLAPS

-----------------------------------------------------------------------------
(* The invariants: Base of every behaviour, Inv as long as no INSERT of a  *)
(* topic runs after the topic was recreated.                               *)

(* What a row stands for is in a table; in results a row of the same key   *)
(* that ranks above it may have taken its place.                           *)
Stored(row, tab) ==
    IF tab = "results"
    THEN \E s \in db["results"] : s.record.key = row.record.key /\ s.offset >= row.offset
    ELSE row \in db[tab]

(* A worker is at work on records that are in the log, and has nothing to  *)
(* write while it polls or is down.                                        *)
BatchInLog ==
    \A w \in Worker : \A p \in Partition :
        /\ from[w][p] <= pos[w][p] /\ pos[w][p] <= Len(log[p])
        /\ pc[w] = "poll" => from[w][p] = pos[w][p]
        /\ pc[w] = "down" => pos[w][p] = 0

(* All before the batch of a worker is stored.                             *)
FromPersisted ==
    \A w \in Worker : \A p \in Partition : \A i \in 1..from[w][p] :
        i <= Len(log[p]) /\ Persisted(p, i)

(* So are the parts of the batch that were inserted.                       *)
Done(w, n) == pc[w] = "commit" \/ (pc[w] = "insert" /\ n < step[w])

InsertedStored ==
    \A w \in Worker : \A n \in 1..Last :
        Done(w, n) => \A r \in RowsFor(w, TableOrder[n]) : Stored(r, TableOrder[n])

(* Nothing is committed that is not in the log.                            *)
CommittedInLog == \A p \in Partition : committed[p] <= Len(log[p])

Base == TypeOK /\ BatchInLog /\ CommittedInLog

(* Rows that may become deliveries: of INSERTs in flight, and of batches   *)
(* whose hashes were compared.                                             *)
InHand ==
    {r \in LogRows : \/ \E req \in inflight : r \in req.rows
                     \/ \E w \in Worker : pc[w] \in {"routes", "insert"} /\ r \in Batch(w)}

OneDelivery == \A r, s \in db["deliveries"] : SameOffset(r, s) => r.record = s.record

HandAgrees ==
    \A r \in InHand : \A d \in db["deliveries"] : SameOffset(r, d) => r.record = d.record

(* Outputs are never without their deliveries, in flight or stored.        *)
Delivered == \A tab \in Table : db[tab] \subseteq db["deliveries"]

InflightSound ==
    \A req \in inflight : /\ req.rows \subseteq LogRows
                          /\ req.table # "deliveries" => req.rows \subseteq db["deliveries"]

(* Deliveries are the record of what an offset holds.                      *)
Contents == OneDelivery /\ HandAgrees /\ Delivered /\ InflightSound

Inv == Base /\ FromPersisted /\ InsertedStored /\ CommittedPersisted /\ Contents

-----------------------------------------------------------------------------
(* What is delivered once has one content everywhere.                      *)
LEMMA ContentsMeanOne == Contents => OneContent
  BY DEF Contents, OneDelivery, Delivered, OneContent

(* The tables.                                                             *)
LEMMA Tables ==
    /\ Last = 5
    /\ TableOrder = <<"deliveries", "results", "quality", "receipts", "visibility">>
    /\ Table = {"deliveries", "results", "quality", "receipts", "visibility"}
    /\ \A n \in 1..Last : TableOrder[n] \in Table
    /\ \A tab \in Table : \E n \in 1..Last : tab = TableOrder[n]
  <1>1. Last = 5
    BY DEF Last, TableOrder
  <1>2. 1..5 = {1, 2, 3, 4, 5}
    OBVIOUS
  <1> QED
    BY <1>1, <1>2 DEF Table, TableOrder

(* The tables of a record are among them.                                  *)
LEMMA TablesOfKinds == \A k \in Key : TablesFor(KindOf[k]) \subseteq Table
  BY KindAssumption, Tables DEF TablesFor, Kind

(* Rows of the log, and of the batch of a worker, are rows.                *)
LEMMA RowsTyped ==
    ASSUME TypeOK
    PROVE  /\ \A p \in Partition : \A i \in 1..Len(log[p]) :
                 RowAt(p, i) \in Row /\ RowAt(p, i).partition = p /\ RowAt(p, i).offset = i
           /\ LogRows \subseteq Row
           /\ \A w \in Worker : \A tab \in Table : RowsFor(w, tab) \subseteq Row
  <1>1. ASSUME NEW p \in Partition, NEW i \in 1..Len(log[p])
        PROVE  RowAt(p, i) \in Row /\ RowAt(p, i).partition = p /\ RowAt(p, i).offset = i
    <2>1. log[p] \in Seq(Record)
      BY DEF TypeOK
    <2>2. log[p][i] \in Record /\ i \in Nat
      BY <2>1
    <2> QED
      BY <2>2 DEF RowAt, Row
  <1>2. LogRows \subseteq Row
    BY <1>1 DEF LogRows
  <1> QED
    BY <1>1, <1>2 DEF RowsFor, Batch

(* A record is persisted when it is stored in each of its tables.          *)
LEMMA PersistedIsStored ==
    ASSUME TypeOK, NEW p \in Partition, NEW i \in 1..Len(log[p])
    PROVE  Persisted(p, i) <=>
             \A tab \in TablesFor(KindOf[RowAt(p, i).record.key]) : Stored(RowAt(p, i), tab)
  <1>1. RowAt(p, i).offset = i
    BY RowsTyped
  <1> QED
    BY <1>1 DEF Persisted, Stored

(* The batch of a worker.                                                  *)
LEMMA BatchRows ==
    ASSUME TypeOK, BatchInLog, NEW w \in Worker
    PROVE  Batch(w) = UNION {{RowAt(p, i) : i \in (from[w][p] + 1)..pos[w][p]} : p \in Partition}
  <1>1. ASSUME NEW p \in Partition
        PROVE  (from[w][p] + 1)..pos[w][p] \subseteq 1..Len(log[p])
    BY DEF TypeOK, BatchInLog
  <1>2. \A p \in Partition : \A i \in 1..Len(log[p]) : RowAt(p, i).partition = p /\ RowAt(p, i).offset = i
    BY RowsTyped
  <1> QED
    BY <1>1, <1>2 DEF Batch, LogRows

-----------------------------------------------------------------------------
(* Nothing is committed, stored or consumed at the start.                  *)
LEMMA InitInv == Init => Inv
  <1> SUFFICES ASSUME Init PROVE Inv
    OBVIOUS
  <1> USE DEF Init, NoOffsets
  <1>1. TypeOK
    BY Tables, HomeAssumption DEF TypeOK
  <1>2. BatchInLog /\ CommittedInLog
    BY DEF BatchInLog, CommittedInLog
  <1>3. FromPersisted
    BY DEF FromPersisted
  <1>4. InsertedStored
    BY DEF InsertedStored, Done
  <1>5. CommittedPersisted
    BY DEF CommittedPersisted
  <1>6. Contents
    <2>1. \A tab \in Table : db[tab] = {}
      OBVIOUS
    <2> QED
      BY <2>1, Tables DEF Contents, OneDelivery, HandAgrees, InHand, Delivered, InflightSound
  <1> QED
    BY <1>1, <1>2, <1>3, <1>4, <1>5, <1>6 DEF Base, Inv

-----------------------------------------------------------------------------
(* Types.                                                                  *)

(* Positions to commit are offsets.                                        *)
LEMMA PositionsTyped ==
    ASSUME TypeOK, NEW w \in Worker
    PROVE  CommitPositions(w) \in [Partition -> Nat]
  BY DEF TypeOK, CommitPositions

(* Every variable keeps its type.                                          *)
LEMMA TypeStep == TypeOK /\ [Next]_vars => TypeOK'
  <1> SUFFICES ASSUME TypeOK, [Next]_vars PROVE TypeOK'
    OBVIOUS
  <1>1. ASSUME NEW k \in Key, NEW v \in Value, Produce(k, v) PROVE TypeOK'
    <2>1. [key |-> k, value |-> v] \in Record /\ route[k] \in Partition
      BY DEF Record, TypeOK
    <2>2. log' \in [Partition -> Seq(Record)]
      BY <1>1, <2>1 DEF Produce, TypeOK
    <2> QED
      BY <1>1, <2>2 DEF Produce, TypeOK, group, worker
  <1>2. ASSUME NEW k \in Key, NEW p \in Partition, Reroute(k, p) PROVE TypeOK'
    BY <1>2 DEF Reroute, Fault, TypeOK, group, worker
  <1>3. ASSUME NEW p \in Partition, Recreate(p) PROVE TypeOK'
    BY <1>3 DEF Recreate, Fault, TypeOK, group, worker
  <1>4. ASSUME NEW assign \in [Partition -> Worker], Rebalance(assign) PROVE TypeOK'
    <2>1. faults' \in Nat
      BY <1>4 DEF Rebalance, Fault, TypeOK
    <2> QED
      BY <1>4, <2>1 DEF Rebalance, TypeOK, kafka
  <1>5. ASSUME NEW req \in inflight, LateInsert(req) PROVE TypeOK'
    <2>1. req.table \in Table /\ req.rows \subseteq Row
      BY DEF TypeOK, Request
    <2> QED
      BY <1>5, <2>1 DEF LateInsert, TypeOK, kafka, group, worker
  <1>6. ASSUME NEW tab \in Table, NEW r \in db[tab], NEW s \in db[tab], Merge(tab, r, s) PROVE TypeOK'
    BY <1>6 DEF Merge, TypeOK, kafka, group, worker
  <1>7. ASSUME NEW w \in Worker, Start(w) PROVE TypeOK'
    BY <1>7 DEF Start, Goto, TypeOK, kafka
  <1>8. ASSUME NEW w \in Worker, NEW to \in [Partition -> 0..MaxLog], Consume(w, to) PROVE TypeOK'
    <2>1. to \in [Partition -> Nat]
      BY BoundAssumption
    <2> QED
      BY <1>8, <2>1 DEF Consume, Goto, TypeOK, kafka, group
  <1>9. ASSUME NEW w \in Worker, Checks(w) PROVE TypeOK'
    <2>1. CASE CheckHashes(w)
      BY <2>1 DEF CheckHashes, Goto, TypeOK, kafka, group
    <2>2. CASE CheckRoutes(w)
      BY <2>2, Tables DEF CheckRoutes, Goto, TypeOK, kafka, group
    <2>3. CASE RefuseRoutes(w)
      BY <2>3 DEF RefuseRoutes, Goto, TypeOK, kafka, group
    <2> QED
      BY <1>9, <2>1, <2>2, <2>3 DEF Checks
  <1>10. ASSUME NEW w \in Worker, Insert(w) PROVE TypeOK'
    <2>1. TableOrder[step[w]] \in Table /\ RowsFor(w, TableOrder[step[w]]) \subseteq Row
      BY Tables, RowsTyped DEF TypeOK
    <2>2. step[w] # Last => step[w] + 1 \in 1..Last
      <3>1. step[w] \in 1..5
        BY Tables DEF TypeOK
      <3> QED
        BY <3>1, Tables
    <2>3. db' \in [Table -> SUBSET Row]
      BY <1>10, <2>1 DEF Insert, TypeOK
    <2>4. step' \in [Worker -> 1..Last]
      BY <1>10, <2>2, Tables DEF Insert, TypeOK
    <2> QED
      BY <1>10, <2>3, <2>4 DEF Insert, Goto, TypeOK, kafka, group
  <1>11. ASSUME NEW w \in Worker, InsertUnanswered(w) PROVE TypeOK'
    <2>1. TableOrder[step[w]] \in Table /\ RowsFor(w, TableOrder[step[w]]) \subseteq Row
      BY Tables, RowsTyped DEF TypeOK
    <2>2. [table |-> TableOrder[step[w]], rows |-> RowsFor(w, TableOrder[step[w]])] \in Request
      BY <2>1 DEF Request
    <2>3. inflight' \subseteq Request
      BY <1>11, <2>2 DEF InsertUnanswered, TypeOK
    <2>4. faults' \in Nat /\ NoOffsets \in [Partition -> Nat]
      BY <1>11 DEF InsertUnanswered, Fault, NoOffsets, TypeOK
    <2>5. /\ pc' \in [Worker -> {"down", "poll", "check", "routes", "insert", "commit"}]
          /\ from' \in [Worker -> [Partition -> Nat]]
          /\ pos' \in [Worker -> [Partition -> Nat]]
      <3>1. CASE Goto(w, "check") /\ UNCHANGED <<from, pos>>
        BY <3>1 DEF Goto, TypeOK
      <3>2. CASE /\ Goto(w, "down")
                 /\ from' = [from EXCEPT ![w] = NoOffsets]
                 /\ pos'  = [pos EXCEPT ![w] = NoOffsets]
        BY <3>2, <2>4 DEF Goto, TypeOK
      <3> QED
        BY <1>11, <3>1, <3>2 DEF InsertUnanswered
    <2> QED
      BY <1>11, <2>3, <2>4, <2>5 DEF InsertUnanswered, TypeOK, kafka, group
  <1>12. ASSUME NEW w \in Worker, Commit(w) PROVE TypeOK'
    BY <1>12, PositionsTyped DEF Commit, Goto, TypeOK, group
  <1>13. ASSUME NEW w \in Worker, CommitUnanswered(w) PROVE TypeOK'
    <2>1. committed' \in [Partition -> Nat]
      BY <1>13, PositionsTyped DEF CommitUnanswered, TypeOK
    <2>2. faults' \in Nat
      BY <1>13 DEF CommitUnanswered, Fault, TypeOK
    <2> QED
      BY <1>13, <2>1, <2>2 DEF CommitUnanswered, Goto, TypeOK, group
  <1>14. ASSUME NEW w \in Worker, CommitRefused(w) PROVE TypeOK'
    BY <1>14 DEF CommitRefused, Goto, TypeOK, kafka, group
  <1>15. ASSUME NEW w \in Worker, RequestFails(w) PROVE TypeOK'
    <2>1. faults' \in Nat
      BY <1>15 DEF RequestFails, Fault, TypeOK
    <2> QED
      BY <1>15, <2>1 DEF RequestFails, Goto, TypeOK, kafka, group
  <1>16. ASSUME NEW w \in Worker, Crash(w) PROVE TypeOK'
    <2>1. faults' \in Nat /\ NoOffsets \in [Partition -> Nat]
      BY <1>16 DEF Crash, Fault, NoOffsets, TypeOK
    <2> QED
      BY <1>16, <2>1 DEF Crash, Goto, TypeOK, kafka, group
  <1>17. CASE UNCHANGED vars
    BY <1>17 DEF TypeOK, vars, kafka, group, worker
  <1> QED
    BY <1>1, <1>2, <1>3, <1>4, <1>5, <1>6, <1>7, <1>8, <1>9, <1>10, <1>11, <1>12, <1>13, <1>14, <1>15, <1>16, <1>17
       DEF Next, Produces, Repartition, Recreates, Rebalances, Lands, Merges, Consumes, Write, Fails

-----------------------------------------------------------------------------
(* What no step takes away.                                                *)

(* Tables only grow, but for rows of results that are merged away.         *)
LEMMA TablesGrow ==
    ASSUME TypeOK, [Next]_vars, ~Merges
    PROVE  \A tab \in Table : db[tab] \subseteq db'[tab]
  <1>1. ASSUME NEW w \in Worker, Insert(w) PROVE \A tab \in Table : db[tab] \subseteq db'[tab]
    BY <1>1 DEF Insert, TypeOK
  <1>2. ASSUME NEW req \in inflight, LateInsert(req)
        PROVE  \A tab \in Table : db[tab] \subseteq db'[tab]
    BY <1>2 DEF LateInsert, TypeOK
  <1>3. ASSUME UNCHANGED db PROVE \A tab \in Table : db[tab] \subseteq db'[tab]
    BY <1>3
  <1>4. (\E w \in Worker : Insert(w)) \/ Lands \/ UNCHANGED db
    BY DEF Next, vars, Produces, Produce, Repartition, Reroute, Recreates, Recreate, Rebalances, Rebalance,
           Start, Consumes, Consume, Write, Checks, CheckHashes, CheckRoutes, RefuseRoutes, Commit, CommitRefused,
           Fails, Crash, RequestFails, InsertUnanswered, CommitUnanswered
  <1> QED
    BY <1>1, <1>2, <1>3, <1>4 DEF Lands

(* Merges drop rows of results only: elsewhere the rows of an offset are   *)
(* one, as long as an offset has one content.                              *)
LEMMA ResultsMerge ==
    ASSUME TypeOK, OneContent, NEW tab \in Table, NEW r \in db[tab], NEW s \in db[tab], Merge(tab, r, s)
    PROVE  tab = "results"
  <1>1. r \in Row /\ s \in Row
    BY DEF TypeOK
  <1>2. SameOffset(r, s) => r = s
    BY <1>1 DEF OneContent, SameOffset, Row
  <1> QED
    BY <1>2 DEF Merge, Supersedes

(* What is stored stays stored: a merge drops a row for one above it.      *)
LEMMA StoredStays ==
    ASSUME TypeOK, [Next]_vars, NEW row \in Row, NEW tab \in Table, Stored(row, tab),
           tab = "results" \/ OneContent
    PROVE  Stored(row, tab)'
  <1>1. CASE ~Merges
    <2>1. \A t \in Table : db[t] \subseteq db'[t]
      BY <1>1, TablesGrow
    <2> QED
      BY <2>1, Tables DEF Stored
  <1>2. ASSUME NEW t \in Table, NEW r \in db[t], NEW s \in db[t], Merge(t, r, s)
        PROVE  Stored(row, tab)'
    <2>1. r \in Row /\ s \in Row
      BY DEF TypeOK
    <2>2. /\ db'[t] = db[t] \ {r}
          /\ tab # t => db'[tab] = db[tab]
          /\ s \in db'[t]
      BY <1>2 DEF Merge, TypeOK
    <2>3. CASE tab = t
      <3>1. t = "results"
        BY <1>2, <2>3, ResultsMerge
      <3>2. PICK u \in db["results"] : u.record.key = row.record.key /\ u.offset >= row.offset
        BY <2>3, <3>1 DEF Stored
      <3>3. CASE u = r
        <4>1. s.record.key = row.record.key
          BY <1>2, <3>1, <3>2, <3>3 DEF Merge, Supersedes
        <4>2. s.offset >= row.offset
          BY <1>2, <2>1, <3>1, <3>2, <3>3 DEF Merge, Supersedes, Row
        <4> QED
          BY <2>2, <2>3, <3>1, <4>1, <4>2 DEF Stored
      <3>4. CASE u # r
        BY <2>2, <2>3, <3>1, <3>2, <3>4 DEF Stored
      <3> QED
        BY <3>3, <3>4
    <2>4. CASE tab # t
      BY <2>2, <2>4 DEF Stored
    <2> QED
      BY <2>3, <2>4
  <1> QED
    BY <1>1, <1>2 DEF Merges

(* Records stay in the log, unless their topic is recreated.               *)
LEMMA LogStays ==
    ASSUME TypeOK, [Next]_vars, ~Recreates
    PROVE  \A p \in Partition : \A i \in 1..Len(log[p]) :
             i <= Len(log'[p]) /\ log'[p][i] = log[p][i]
  <1>1. ASSUME NEW k \in Key, NEW v \in Value, Produce(k, v), NEW p \in Partition,
               NEW i \in 1..Len(log[p])
        PROVE  i <= Len(log'[p]) /\ log'[p][i] = log[p][i]
    <2>1. log[p] \in Seq(Record) /\ [key |-> k, value |-> v] \in Record
      BY DEF TypeOK, Record
    <2>2. log'[p] = log[p] \/ log'[p] = Append(log[p], [key |-> k, value |-> v])
      BY <1>1 DEF Produce, TypeOK
    <2> QED
      BY <2>1, <2>2
  <1>2. ASSUME UNCHANGED log, NEW p \in Partition, NEW i \in 1..Len(log[p])
        PROVE  i <= Len(log'[p]) /\ log'[p][i] = log[p][i]
    BY <1>2 DEF TypeOK
  <1>3. Produces \/ UNCHANGED log
    BY DEF Next, vars, kafka, Repartition, Reroute, Recreates, Rebalances, Rebalance, Lands, LateInsert,
           Merges, Merge, Start, Consumes, Consume, Write, Checks, CheckHashes, CheckRoutes, RefuseRoutes, Insert, Commit, CommitRefused,
           Fails, Crash, RequestFails, InsertUnanswered, CommitUnanswered
  <1> QED
    BY <1>1, <1>2, <1>3 DEF Produces

(* A record that is persisted stays so while its record is in the log.     *)
LEMMA PersistedStays ==
    ASSUME TypeOK, TypeOK', OneContent, [Next]_vars, NEW p \in Partition, NEW i \in 1..Len(log[p]),
           i <= Len(log'[p]), log'[p][i] = log[p][i], Persisted(p, i)
    PROVE  Persisted(p, i)'
  <1>1. RowAt(p, i)' = RowAt(p, i) /\ RowAt(p, i) \in Row
    BY RowsTyped DEF RowAt
  <1>2. RowAt(p, i).record.key \in Key
    BY <1>1 DEF Row, Record
  <1>3. \A tab \in TablesFor(KindOf[RowAt(p, i).record.key]) : Stored(RowAt(p, i), tab)
    BY PersistedIsStored
  <1>4. TablesFor(KindOf[RowAt(p, i).record.key]) \subseteq Table
    BY <1>2, TablesOfKinds
  <1>5. PICK r \in Row : r = RowAt(p, i)
    BY <1>1
  <1>6. \A tab \in TablesFor(KindOf[r.record.key]) : Stored(r, tab)'
    BY <1>3, <1>4, <1>5, StoredStays
  <1>7. r.offset = i
    BY <1>5, RowsTyped
  <1>8. (RowAt(p, i))' = r
    BY <1>1, <1>5
  <1> QED
    BY <1>6, <1>7, <1>8 DEF Persisted, Stored

-----------------------------------------------------------------------------
(* The steps.                                                              *)

(* A topic is recreated when no worker is at work.                         *)
LEMMA NoneAtWork ==
    ASSUME TypeOK, BatchInLog, Recreates
    PROVE  /\ \A w \in Worker : pc[w] = "down" /\ pc'[w] = "down"
           /\ \A w \in Worker : \A p \in Partition : from[w][p] = 0 /\ pos[w][p] = 0
           /\ UNCHANGED <<db, from, pos, step>>
  <1>1. \A w \in Worker : pc[w] = "down"
    BY DEF Recreates, Recreate
  <1>2. ASSUME NEW w \in Worker, NEW p \in Partition PROVE from[w][p] = 0 /\ pos[w][p] = 0
    BY <1>1 DEF TypeOK, BatchInLog
  <1>3. UNCHANGED <<db, pc, from, pos, step>>
    BY DEF Recreates, Recreate, worker
  <1> QED
    BY <1>1, <1>2, <1>3

(* A worker starts its batch where the last one ended, at the committed    *)
(* positions, or at nothing.                                               *)
LEMMA BatchStep == Base /\ [Next]_vars /\ TypeOK' => BatchInLog'
  <1> SUFFICES ASSUME Base, [Next]_vars, TypeOK', NEW w \in Worker, NEW p \in Partition
               PROVE  /\ from'[w][p] <= pos'[w][p] /\ pos'[w][p] <= Len(log'[p])
                      /\ pc'[w] = "poll" => from'[w][p] = pos'[w][p]
                      /\ pc'[w] = "down" => pos'[w][p] = 0
    BY DEF BatchInLog
  <1>1. TypeOK /\ BatchInLog /\ CommittedInLog
    BY DEF Base
  <1>2. /\ from[w][p] \in Nat /\ pos[w][p] \in Nat /\ committed[p] \in Nat
        /\ Len(log[p]) \in Nat /\ Len(log'[p]) \in Nat
        /\ from'[w][p] \in Nat /\ pos'[w][p] \in Nat
    <2>1. /\ log[p] \in Seq(Record) /\ log'[p] \in Seq(Record)
          /\ from[w] \in [Partition -> Nat] /\ pos[w] \in [Partition -> Nat]
          /\ from'[w] \in [Partition -> Nat] /\ pos'[w] \in [Partition -> Nat]
          /\ committed \in [Partition -> Nat]
      BY <1>1 DEF TypeOK
    <2> QED
      BY <2>1
  <1>3. /\ from[w][p] <= pos[w][p] /\ pos[w][p] <= Len(log[p])
        /\ pc[w] = "poll" => from[w][p] = pos[w][p]
        /\ pc[w] = "down" => pos[w][p] = 0
    BY <1>1 DEF BatchInLog
  <1>4. committed[p] <= Len(log[p])
    BY <1>1 DEF CommittedInLog
  <1>5. CASE Recreates
    BY <1>1, <1>2, <1>5, NoneAtWork
  <1>6. CASE ~Recreates
    <2>1. Len(log[p]) <= Len(log'[p])
      <3>1. CASE Len(log[p]) = 0
        BY <3>1, <1>2
      <3>2. CASE Len(log[p]) # 0
        BY <3>2, <1>1, <1>2, <1>6, LogStays
      <3> QED
        BY <3>1, <3>2
    <2>2. CASE UNCHANGED <<pc, from, pos>>
      BY <2>1, <2>2, <1>2, <1>3
    <2>3. ASSUME NEW assign \in [Partition -> Worker], Rebalance(assign)
          PROVE  /\ pc'[w] = pc[w]
                 /\ \/ from'[w] = from[w] /\ pos'[w] = pos[w]
                    \/ pc[w] = "poll" /\ from'[w] = committed /\ pos'[w] = committed
      BY <2>3, <1>1 DEF Rebalance, TypeOK
    <2>4. ASSUME NEW v \in Worker, Start(v)
          PROVE  /\ from'[w] = from[w] /\ pos'[w] = pos[w]
                 /\ pc'[w] = pc[w] \/ (pc[w] = "down" /\ pc'[w] = "poll")
      BY <2>4, <1>1 DEF Start, Goto, TypeOK
    <2>5. ASSUME NEW v \in Worker, NEW to \in [Partition -> 0..MaxLog], Consume(v, to)
          PROVE  \/ pc'[w] = pc[w] /\ from'[w] = from[w] /\ pos'[w] = pos[w]
                 \/ /\ pc'[w] = "check" /\ from'[w] = pos[w] /\ pos'[w] = to
                    /\ to[p] \in pos[w][p]..(IF owner[p] = w THEN Len(log[p]) ELSE pos[w][p])
      BY <2>5, <1>1 DEF Consume, Goto, TypeOK
    <2>6. ASSUME NEW v \in Worker, Write(v) \/ RequestFails(v) \/ CommitUnanswered(v)
          PROVE  /\ pos'[w] = pos[w]
                 /\ \/ from'[w] = from[w] /\ pc'[w] = pc[w]
                    \/ from'[w] = from[w] /\ pc'[w] \in {"check", "routes", "insert", "commit"}
                    \/ from'[w] = pos[w] /\ pc'[w] = "poll"
      <3>1. CASE Checks(v)
        BY <3>1, <1>1 DEF Checks, CheckHashes, CheckRoutes, RefuseRoutes, Goto, TypeOK
      <3>2. CASE Insert(v)
        BY <3>2, <1>1 DEF Insert, Goto, TypeOK
      <3>3. CASE Commit(v)
        BY <3>3, <1>1 DEF Commit, Goto, TypeOK
      <3>4. CASE CommitRefused(v) \/ RequestFails(v) \/ CommitUnanswered(v)
        BY <3>4, <1>1 DEF CommitRefused, RequestFails, CommitUnanswered, Goto, TypeOK
      <3> QED
        BY <2>6, <3>1, <3>2, <3>3, <3>4 DEF Write
    <2>7. ASSUME NEW v \in Worker, Crash(v) \/ InsertUnanswered(v)
          PROVE  \/ from'[w] = from[w] /\ pos'[w] = pos[w] /\ pc'[w] = pc[w]
                 \/ from'[w] = from[w] /\ pos'[w] = pos[w] /\ pc'[w] = "check"
                 \/ from'[w] = NoOffsets /\ pos'[w] = NoOffsets /\ pc'[w] = "down"
      <3>1. CASE Crash(v)
        BY <3>1, <1>1 DEF Crash, Goto, TypeOK
      <3>2. CASE InsertUnanswered(v)
        <4>1. CASE Goto(v, "check") /\ UNCHANGED <<from, pos>>
          BY <4>1, <1>1 DEF Goto, TypeOK
        <4>2. CASE /\ Goto(v, "down")
                   /\ from' = [from EXCEPT ![v] = NoOffsets]
                   /\ pos'  = [pos EXCEPT ![v] = NoOffsets]
          BY <4>2, <1>1 DEF Goto, TypeOK
        <4> QED
          BY <3>2, <4>1, <4>2 DEF InsertUnanswered
      <3> QED
        BY <2>7, <3>1, <3>2
    <2>8. \/ UNCHANGED <<pc, from, pos>>
          \/ \E assign \in [Partition -> Worker] : Rebalance(assign)
          \/ \E v \in Worker : \/ Start(v)
                               \/ \E to \in [Partition -> 0..MaxLog] : Consume(v, to)
                               \/ Write(v) \/ RequestFails(v) \/ CommitUnanswered(v)
                               \/ Crash(v) \/ InsertUnanswered(v)
      BY <1>6 DEF Next, vars, worker, Produces, Produce, Repartition, Reroute, Rebalances, Lands, LateInsert,
                  Merges, Merge, Consumes, Fails
    <2>9. CASE \E assign \in [Partition -> Worker] : Rebalance(assign)
      BY <2>9, <2>1, <2>3, <1>2, <1>3, <1>4
    <2>10. CASE \E v \in Worker : Start(v)
      BY <2>10, <2>1, <2>4, <1>2, <1>3
    <2>11. CASE \E v \in Worker : \E to \in [Partition -> 0..MaxLog] : Consume(v, to)
      BY <2>11, <2>1, <2>5, <1>2, <1>3
    <2>12. CASE \E v \in Worker : Write(v) \/ RequestFails(v) \/ CommitUnanswered(v)
      BY <2>12, <2>1, <2>6, <1>2, <1>3
    <2>13. CASE \E v \in Worker : Crash(v) \/ InsertUnanswered(v)
      BY <2>13, <2>1, <2>7, <1>2, <1>3 DEF NoOffsets
    <2> QED
      BY <2>2, <2>8, <2>9, <2>10, <2>11, <2>12, <2>13
  <1> QED
    BY <1>5, <1>6

(* Committed positions are the ends of batches.                            *)
LEMMA PositionsStep == Base /\ [Next]_vars /\ TypeOK' => CommittedInLog'
  <1> SUFFICES ASSUME Base, [Next]_vars, TypeOK', NEW p \in Partition
               PROVE  committed'[p] <= Len(log'[p])
    BY DEF CommittedInLog
  <1>1. TypeOK /\ BatchInLog
    BY DEF Base
  <1>2. /\ committed[p] \in Nat /\ committed[p] <= Len(log[p])
        /\ Len(log[p]) \in Nat /\ Len(log'[p]) \in Nat
    <2>1. log[p] \in Seq(Record) /\ log'[p] \in Seq(Record)
      BY DEF TypeOK, Base
    <2> QED
      BY <2>1 DEF TypeOK, CommittedInLog, Base
  <1>3. CASE Recreates
    <2>1. PICK q \in Partition : Recreate(q)
      BY <1>3 DEF Recreates
    <2>2. CASE p = q
      BY <2>1, <2>2, <1>1, <1>2 DEF Recreate, TypeOK
    <2>3. CASE p # q
      BY <2>1, <2>3, <1>1, <1>2 DEF Recreate, TypeOK
    <2> QED
      BY <2>2, <2>3
  <1>4. CASE ~Recreates
    <2>1. Len(log[p]) <= Len(log'[p])
      <3>1. CASE Len(log[p]) = 0
        BY <3>1, <1>2
      <3>2. CASE Len(log[p]) # 0
        BY <3>2, <1>1, <1>2, <1>4, LogStays
      <3> QED
        BY <3>1, <3>2
    <2>2. ASSUME NEW w \in Worker, Commit(w) \/ CommitUnanswered(w)
          PROVE  committed'[p] <= Len(log[p])
      <3>1. committed'[p] = committed[p] \/ committed'[p] = pos[w][p]
        BY <2>2, <1>1 DEF Commit, CommitUnanswered, CommitPositions, TypeOK
      <3>2. pos[w][p] <= Len(log[p])
        BY <1>1 DEF BatchInLog
      <3> QED
        BY <3>1, <3>2, <1>2
    <2>3. UNCHANGED committed \/ \E w \in Worker : Commit(w) \/ CommitUnanswered(w)
      BY <1>4 DEF Next, vars, kafka, Produces, Produce, Repartition, Reroute, Rebalances, Rebalance,
                  Lands, LateInsert, Merges, Merge, Start, Consumes, Consume, Write, Checks, CheckHashes,
                  CheckRoutes, RefuseRoutes, Insert, CommitRefused, Fails, Crash, RequestFails,
                  InsertUnanswered
    <2>4. committed'[p] <= Len(log[p]) /\ committed'[p] \in Nat
      BY <2>2, <2>3, <1>2 DEF TypeOK
    <2> QED
      BY <2>1, <2>4, <1>2
  <1> QED
    BY <1>3, <1>4

(* When a worker is about to commit, its whole batch is persisted.         *)
LEMMA BatchPersisted ==
    ASSUME Inv, NEW w \in Worker, pc[w] = "commit", NEW p \in Partition, NEW i \in 1..pos[w][p]
    PROVE  i <= Len(log[p]) /\ Persisted(p, i)
  <1>1. TypeOK /\ BatchInLog
    BY DEF Inv, Base
  <1>2. /\ from[w][p] \in Nat /\ pos[w][p] \in Nat /\ Len(log[p]) \in Nat
        /\ pos[w][p] <= Len(log[p])
    BY <1>1 DEF TypeOK, BatchInLog
  <1>3. i \in 1..Len(log[p])
    BY <1>2
  <1>4. CASE i <= from[w][p]
    BY <1>2, <1>4 DEF Inv, FromPersisted
  <1>5. CASE i > from[w][p]
    <2>1. i \in (from[w][p] + 1)..pos[w][p]
      BY <1>2, <1>5
    <2>2. RowAt(p, i) \in Batch(w)
      BY <1>1, <2>1, BatchRows
    <2>3. RowAt(p, i).record.key \in Key
      BY <1>1, <1>3, RowsTyped DEF Row, Record
    <2>4. ASSUME NEW tab \in TablesFor(KindOf[RowAt(p, i).record.key])
          PROVE  Stored(RowAt(p, i), tab)
      <3>1. PICK n \in 1..Last : tab = TableOrder[n]
        BY <2>3, TablesOfKinds, Tables
      <3>2. RowAt(p, i) \in RowsFor(w, tab)
        BY <2>2 DEF RowsFor
      <3> QED
        BY <3>1, <3>2 DEF Inv, InsertedStored, Done
    <2> QED
      BY <1>1, <1>3, <2>4, PersistedIsStored
  <1> QED
    BY <1>2, <1>3, <1>4, <1>5

(* Where a worker moves on to, all before is persisted: committed, or its  *)
(* own batch.                                                              *)
LEMMA FromStep == Inv /\ [Next]_vars /\ TypeOK' => FromPersisted'
  <1> SUFFICES ASSUME Inv, [Next]_vars, TypeOK', NEW w \in Worker, NEW p \in Partition,
                      NEW i \in 1..from'[w][p]
               PROVE  i <= Len(log'[p]) /\ Persisted(p, i)'
    BY DEF FromPersisted
  <1>1. TypeOK /\ BatchInLog
    BY DEF Inv, Base
  <1>2. /\ from[w][p] \in Nat /\ pos[w][p] \in Nat /\ committed[p] \in Nat
        /\ Len(log[p]) \in Nat
    <2>1. /\ log[p] \in Seq(Record) /\ committed \in [Partition -> Nat]
          /\ from[w] \in [Partition -> Nat] /\ pos[w] \in [Partition -> Nat]
      BY <1>1 DEF TypeOK
    <2> QED
      BY <2>1
  <1>3. CASE Recreates
    <2>1. from'[w][p] = 0
      BY <1>1, <1>3, NoneAtWork
    <2> QED
      BY <2>1
  <1>4. CASE ~Recreates
    <2>1. \/ from'[w] = from[w]
          \/ from'[w] = committed
          \/ from'[w] = NoOffsets
          \/ from'[w] = pos[w] /\ pc[w] \in {"poll", "commit"}
      <3>1. CASE UNCHANGED from
        BY <3>1
      <3>2. ASSUME NEW assign \in [Partition -> Worker], Rebalance(assign)
            PROVE  from'[w] = from[w] \/ from'[w] = committed
        BY <3>2, <1>1 DEF Rebalance, TypeOK
      <3>3. ASSUME NEW v \in Worker, NEW to \in [Partition -> 0..MaxLog], Consume(v, to)
            PROVE  from'[w] = from[w] \/ (from'[w] = pos[w] /\ pc[w] = "poll")
        BY <3>3, <1>1 DEF Consume, TypeOK
      <3>4. ASSUME NEW v \in Worker, Commit(v)
            PROVE  from'[w] = from[w] \/ (from'[w] = pos[w] /\ pc[w] = "commit")
        BY <3>4, <1>1 DEF Commit, TypeOK
      <3>5. ASSUME NEW v \in Worker, Crash(v) \/ InsertUnanswered(v)
            PROVE  from'[w] = from[w] \/ from'[w] = NoOffsets
        BY <3>5, <1>1 DEF Crash, InsertUnanswered, TypeOK
      <3>6. \/ UNCHANGED from
            \/ Rebalances
            \/ \E v \in Worker : Consumes(v) \/ Commit(v) \/ Crash(v) \/ InsertUnanswered(v)
        BY <1>4 DEF Next, vars, worker, Produces, Produce, Repartition, Reroute, Lands, LateInsert,
                    Merges, Merge, Start, Write, Checks, CheckHashes, CheckRoutes, RefuseRoutes, Insert, CommitRefused, Fails, RequestFails,
                    CommitUnanswered
      <3> QED
        BY <3>1, <3>2, <3>3, <3>4, <3>5, <3>6 DEF Rebalances, Consumes
    <2>2. i <= Len(log[p]) /\ Persisted(p, i)
      <3>1. CASE i \in 1..from[w][p]
        BY <3>1 DEF Inv, FromPersisted
      <3>2. CASE i \in 1..committed[p]
        BY <3>2 DEF Inv, CommittedPersisted
      <3>3. CASE i \in 1..NoOffsets[p]
        BY <3>3 DEF NoOffsets
      <3>4. CASE i \in 1..pos[w][p] /\ pc[w] = "commit"
        BY <3>4, BatchPersisted
      <3>5. CASE i \in 1..pos[w][p] /\ pc[w] = "poll"
        BY <3>5, <3>1, <1>1 DEF BatchInLog
      <3> QED
        BY <2>1, <3>1, <3>2, <3>3, <3>4, <3>5
    <2>3. i \in 1..Len(log[p])
      <3>1. i \in Nat /\ i >= 1
        BY <1>2, <2>1 DEF NoOffsets
      <3> QED
        BY <3>1, <1>2, <2>2
    <2>4. i <= Len(log'[p]) /\ log'[p][i] = log[p][i]
      BY <1>1, <1>4, <2>3, LogStays
    <2> QED
      BY <1>1, <2>2, <2>3, <2>4, ContentsMeanOne, PersistedStays DEF Inv
  <1> QED
    BY <1>3, <1>4

(* What is committed is persisted: the batch of the worker that commits.   *)
LEMMA CommittedStep == Inv /\ [Next]_vars /\ TypeOK' => CommittedPersisted'
  <1> SUFFICES ASSUME Inv, [Next]_vars, TypeOK', NEW p \in Partition, NEW i \in 1..committed'[p]
               PROVE  i <= Len(log'[p]) /\ Persisted(p, i)'
    BY DEF CommittedPersisted
  <1>1. TypeOK /\ BatchInLog
    BY DEF Inv, Base
  <1>2. committed[p] \in Nat /\ committed'[p] \in Nat /\ Len(log[p]) \in Nat
    <2>1. /\ log[p] \in Seq(Record)
          /\ committed \in [Partition -> Nat] /\ committed' \in [Partition -> Nat]
      BY <1>1 DEF TypeOK
    <2> QED
      BY <2>1
  <1>3. ASSUME i <= Len(log[p]), Persisted(p, i), i <= Len(log'[p]), log'[p][i] = log[p][i]
        PROVE  i <= Len(log'[p]) /\ Persisted(p, i)'
    <2>1. i \in 1..Len(log[p])
      BY <1>2, <1>3
    <2> QED
      BY <1>1, <1>3, <2>1, ContentsMeanOne, PersistedStays DEF Inv
  <1>4. CASE Recreates
    <2>1. PICK q \in Partition : Recreate(q)
      BY <1>4 DEF Recreates
    <2>2. p # q
      <3>1. committed'[q] = 0
        BY <2>1, <1>1 DEF Recreate, TypeOK
      <3> QED
        BY <3>1
    <2>3. log'[p] = log[p] /\ committed'[p] = committed[p]
      BY <2>1, <2>2, <1>1 DEF Recreate, TypeOK
    <2> QED
      BY <1>3, <2>3 DEF Inv, CommittedPersisted
  <1>5. CASE ~Recreates
    <2>1. i <= Len(log[p]) /\ Persisted(p, i)
      <3>1. CASE UNCHANGED committed
        BY <3>1 DEF Inv, CommittedPersisted
      <3>2. ASSUME NEW w \in Worker, Commit(w) \/ CommitUnanswered(w)
            PROVE  i <= Len(log[p]) /\ Persisted(p, i)
        <4>1. pc[w] = "commit"
          BY <3>2 DEF Commit, CommitUnanswered
        <4>2. committed'[p] = committed[p] \/ committed'[p] = pos[w][p]
          BY <3>2, <1>1 DEF Commit, CommitUnanswered, CommitPositions, TypeOK
        <4>3. CASE committed'[p] = committed[p]
          BY <4>3 DEF Inv, CommittedPersisted
        <4>4. CASE committed'[p] = pos[w][p]
          BY <4>1, <4>4, BatchPersisted
        <4> QED
          BY <4>2, <4>3, <4>4
      <3>3. UNCHANGED committed \/ \E w \in Worker : Commit(w) \/ CommitUnanswered(w)
        BY <1>5 DEF Next, vars, kafka, Produces, Produce, Repartition, Reroute, Rebalances, Rebalance,
                    Lands, LateInsert, Merges, Merge, Start, Consumes, Consume, Write, Checks, CheckHashes, CheckRoutes, RefuseRoutes, Insert,
                    CommitRefused, Fails, Crash, RequestFails, InsertUnanswered
      <3> QED
        BY <3>1, <3>2, <3>3
    <2>2. i \in 1..Len(log[p])
      BY <1>2, <2>1
    <2> QED
      BY <1>1, <1>3, <1>5, <2>1, <2>2, LogStays
  <1> QED
    BY <1>4, <1>5

(* A worker that keeps its positions gets no other rows into its batch.    *)
LEMMA BatchStays ==
    ASSUME Base, [Next]_vars, ~Recreates,
           NEW w \in Worker, from'[w] = from[w], pos'[w] = pos[w]
    PROVE  Batch(w)' \subseteq Batch(w)
  <1>1. TypeOK /\ BatchInLog
    BY DEF Inv, Base
  <1>2. ASSUME NEW r \in Batch(w)' PROVE r \in Batch(w)
    <2>1. PICK p \in Partition : \E i \in 1..Len(log'[p]) : r = RowAt(p, i)'
      BY DEF Batch, LogRows
    <2>2. PICK i \in 1..Len(log'[p]) : r = RowAt(p, i)'
      BY <2>1
    <2>3. r.partition = p /\ r.offset = i
      BY <2>2 DEF RowAt
    <2>4. i \in (from[w][p] + 1)..pos[w][p]
      BY <2>3 DEF Batch
    <2>5. i \in 1..Len(log[p])
      <3>1. /\ from[w] \in [Partition -> Nat] /\ pos[w] \in [Partition -> Nat]
            /\ log[p] \in Seq(Record) /\ pos[w][p] <= Len(log[p])
        BY <1>1 DEF TypeOK, BatchInLog
      <3> QED
        BY <2>4, <3>1
    <2>6. r = RowAt(p, i)
      BY <1>1, <2>2, <2>5, LogStays DEF RowAt
    <2> QED
      BY <1>1, <2>4, <2>6, BatchRows
  <1> QED
    BY <1>2

(* A part of a batch counts as inserted once it is stored.                 *)
LEMMA InsertedStep == Inv /\ [Next]_vars => InsertedStored'
  <1> SUFFICES ASSUME Inv, [Next]_vars, NEW w \in Worker, NEW n \in 1..Last,
                      Done(w, n)', NEW r \in RowsFor(w, TableOrder[n])'
               PROVE  Stored(r, TableOrder[n])'
    BY DEF InsertedStored, TableOrder, Last
  <1> DEFINE tab == TableOrder[n]
  <1>1. TypeOK /\ BatchInLog /\ tab \in Table
    BY Tables DEF Inv, Base
  <1>2. pc'[w] \in {"insert", "commit"}
    BY DEF Done
  <1>3. ~Recreates
    BY <1>1, <1>2, NoneAtWork
  <1>4. ASSUME from'[w] = from[w], pos'[w] = pos[w]
        PROVE  r \in RowsFor(w, tab) /\ r \in Row
    BY <1>1, <1>3, <1>4, BatchStays, RowsTyped DEF RowsFor, Inv
  <1>5. ASSUME Done(w, n), from'[w] = from[w], pos'[w] = pos[w]
        PROVE  Stored(r, tab)'
    <2>1. Stored(r, tab)
      BY <1>4, <1>5 DEF Inv, InsertedStored
    <2> QED
      BY <1>1, <1>4, <1>5, <2>1, ContentsMeanOne, StoredStays DEF Inv
  <1>6. CASE Insert(w)
    <2>1. CASE n = step[w]
      <3>1. r \in RowsFor(w, tab) /\ r \in Row
        BY <1>4, <1>6 DEF Insert
      <3>2. r \in db'[tab]
        BY <1>1, <1>6, <2>1, <3>1 DEF Insert, TypeOK
      <3> QED
        BY <3>1, <3>2 DEF Stored, Row
    <2>2. CASE n # step[w]
      <3>1. /\ pc[w] = "insert" /\ from' = from /\ pos' = pos
            /\ step'[w] = IF step[w] = Last THEN 1 ELSE step[w] + 1
            /\ pc'[w] = IF step[w] = Last THEN "commit" ELSE "insert"
        BY <1>1, <1>6 DEF Insert, Goto, TypeOK
      <3>2. step[w] \in 1..5 /\ n \in 1..5 /\ Last = 5
        BY <1>1, Tables DEF TypeOK
      <3>3. n < step[w]
        BY <2>2, <3>1, <3>2 DEF Done
      <3> QED
        BY <1>5, <3>1, <3>3 DEF Done
    <2> QED
      BY <2>1, <2>2
  <1>7. CASE Checks(w)
    <2>1. pc'[w] = "insert" => step'[w] = 1
      BY <1>1, <1>7 DEF Checks, CheckHashes, CheckRoutes, RefuseRoutes, Goto, TypeOK
    <2>2. pc'[w] # "commit"
      BY <1>1, <1>7 DEF Checks, CheckHashes, CheckRoutes, RefuseRoutes, Goto, TypeOK
    <2>3. n \in 1..5
      BY Tables
    <2> QED
      BY <2>1, <2>2, <2>3 DEF Done
  <1>8. CASE ~Insert(w) /\ ~Checks(w)
    <2>1. /\ pc'[w] = pc[w] /\ step'[w] = step[w]
          /\ from'[w] = from[w] /\ pos'[w] = pos[w]
      <3>1. CASE UNCHANGED <<pc, from, pos, step>>
        BY <3>1
      <3>2. ASSUME NEW assign \in [Partition -> Worker], Rebalance(assign)
            PROVE  /\ pc'[w] = pc[w] /\ step'[w] = step[w]
                   /\ from'[w] = from[w] /\ pos'[w] = pos[w]
        BY <3>2, <1>1, <1>2 DEF Rebalance, TypeOK
      <3>3. ASSUME NEW v \in Worker, Start(v) \/ Consumes(v) \/ Write(v) \/ Fails(v), v # w
            PROVE  /\ pc'[w] = pc[w] /\ step'[w] = step[w]
                   /\ from'[w] = from[w] /\ pos'[w] = pos[w]
        <4>1. CASE Start(v) \/ Consumes(v)
          BY <3>3, <4>1, <1>1 DEF Start, Consumes, Consume, Goto, TypeOK
        <4>2. CASE Checks(v) \/ Insert(v)
          BY <3>3, <4>2, <1>1 DEF Checks, CheckHashes, CheckRoutes, RefuseRoutes, Insert, Goto, TypeOK
        <4>3. CASE Commit(v) \/ CommitRefused(v) \/ CommitUnanswered(v)
          BY <3>3, <4>3, <1>1 DEF Commit, CommitRefused, CommitUnanswered, Goto, TypeOK
        <4>4. CASE Crash(v) \/ RequestFails(v) \/ InsertUnanswered(v)
          BY <3>3, <4>4, <1>1 DEF Crash, RequestFails, InsertUnanswered, Goto, TypeOK
        <4> QED
          BY <3>3, <4>1, <4>2, <4>3, <4>4 DEF Write, Fails
      <3>4. ~(Start(w) \/ Consumes(w) \/ Write(w) \/ Fails(w))
        BY <1>1, <1>2, <1>8 DEF Start, Consumes, Consume, Write, Commit, CommitRefused, Fails, Crash,
                                RequestFails, InsertUnanswered, CommitUnanswered, Goto, TypeOK
      <3>5. \/ UNCHANGED <<pc, from, pos, step>>
            \/ Rebalances
            \/ \E v \in Worker : Start(v) \/ Consumes(v) \/ Write(v) \/ Fails(v)
        BY <1>3 DEF Next, vars, worker, Produces, Produce, Repartition, Reroute, Lands, LateInsert,
                    Merges, Merge
      <3> QED
        BY <3>1, <3>2, <3>3, <3>4, <3>5 DEF Rebalances
    <2> QED
      BY <1>5, <2>1 DEF Done
  <1> QED
    BY <1>6, <1>7, <1>8

-----------------------------------------------------------------------------
(* Contents.                                                               *)

(* The log has one record at an offset.                                    *)
LEMMA LogRowsUnique ==
    ASSUME NEW r \in LogRows, NEW s \in LogRows, SameOffset(r, s)
    PROVE  r = s
  BY DEF LogRows, RowAt, SameOffset

(* Rows stay in the log, unless their topic is recreated.                  *)
LEMMA LogRowsStay ==
    ASSUME TypeOK, [Next]_vars, ~Recreates
    PROVE  LogRows \subseteq LogRows'
  <1> SUFFICES ASSUME NEW r \in LogRows PROVE r \in LogRows'
    OBVIOUS
  <1>1. PICK p \in Partition : \E i \in 1..Len(log[p]) : r = RowAt(p, i)
    BY DEF LogRows
  <1>2. PICK i \in 1..Len(log[p]) : r = RowAt(p, i)
    BY <1>1
  <1>3. i <= Len(log'[p]) /\ log'[p][i] = log[p][i]
    BY LogStays
  <1>4. i \in 1..Len(log'[p])
    <2>1. log[p] \in Seq(Record) /\ Len(log[p]) \in Nat
      BY DEF TypeOK
    <2>2. Len(log'[p]) \in Nat
      <3>1. CASE UNCHANGED log
        BY <2>1, <3>1
      <3>2. CASE ~UNCHANGED log
        <4>1. TypeOK'
          BY TypeStep
        <4>2. log'[p] \in Seq(Record)
          BY <4>1 DEF TypeOK
        <4> QED
          BY <4>2
      <3> QED
        BY <3>1, <3>2
    <2> QED
      BY <1>3, <2>1, <2>2
  <1>5. r = RowAt(p, i)'
    BY <1>2, <1>3 DEF RowAt
  <1> QED
    BY <1>4, <1>5 DEF LogRows

(* After the first INSERT of a batch, its deliveries are stored.           *)
LEMMA BatchDelivered ==
    ASSUME Inv, NEW w \in Worker, pc[w] = "insert", TableOrder[step[w]] # "deliveries"
    PROVE  Batch(w) \subseteq db["deliveries"]
  <1>1. TypeOK
    BY DEF Inv, Base
  <1>2. step[w] \in 1..5 /\ Last = 5 /\ TableOrder[1] = "deliveries"
    BY <1>1, Tables DEF TypeOK
  <1>3. Done(w, 1)
    <2>1. step[w] # 1
      BY <1>2
    <2> QED
      BY <1>2, <2>1 DEF Done
  <1>4. \A r \in RowsFor(w, "deliveries") : r \in db["deliveries"]
    BY <1>2, <1>3 DEF Inv, InsertedStored, Stored
  <1>5. ASSUME NEW r \in Batch(w) PROVE r \in RowsFor(w, "deliveries")
    <2>1. r.record.key \in Key
      BY <1>1, RowsTyped DEF Batch, Row, Record
    <2>2. KindOf[r.record.key] \in Kind
      BY <2>1, KindAssumption
    <2> QED
      BY <2>2 DEF RowsFor, TablesFor, Kind
  <1> QED
    BY <1>4, <1>5

(* Deliveries are never dropped, and new ones were in hand.                *)
LEMMA DeliveriesFromHand ==
    ASSUME Inv, [Next]_vars
    PROVE  /\ db["deliveries"] \subseteq db'["deliveries"]
           /\ db'["deliveries"] \subseteq db["deliveries"] \cup InHand
  <1>1. TypeOK /\ "deliveries" \in Table
    BY Tables DEF Inv, Base
  <1>2. CASE db'["deliveries"] = db["deliveries"]
    BY <1>2
  <1>3. ASSUME NEW w \in Worker, Insert(w)
        PROVE  /\ db["deliveries"] \subseteq db'["deliveries"]
               /\ db'["deliveries"] \subseteq db["deliveries"] \cup InHand
    <2>1. RowsFor(w, "deliveries") \subseteq InHand
      BY <1>3 DEF Insert, RowsFor, InHand, Batch
    <2> QED
      BY <1>1, <1>3, <2>1 DEF Insert, TypeOK
  <1>4. ASSUME NEW req \in inflight, LateInsert(req)
        PROVE  /\ db["deliveries"] \subseteq db'["deliveries"]
               /\ db'["deliveries"] \subseteq db["deliveries"] \cup InHand
    <2>1. req.rows \subseteq InHand
      BY DEF Inv, Contents, InflightSound, InHand
    <2> QED
      BY <1>1, <1>4, <2>1 DEF LateInsert, TypeOK
  <1>5. ASSUME NEW tab \in Table, NEW r \in db[tab], NEW s \in db[tab], Merge(tab, r, s)
        PROVE  db'["deliveries"] = db["deliveries"]
    <2>1. tab = "results"
      BY <1>1, <1>5, ContentsMeanOne, ResultsMerge DEF Inv
    <2> QED
      BY <1>1, <1>5, <2>1 DEF Merge, TypeOK
  <1>6. UNCHANGED db \/ Merges \/ Lands \/ \E w \in Worker : Insert(w)
    BY DEF Next, vars, Produces, Produce, Repartition, Reroute, Recreates, Recreate, Rebalances, Rebalance,
           Start, Consumes, Consume, Write, Checks, CheckHashes, CheckRoutes, RefuseRoutes, Commit, CommitRefused,
           Fails, Crash, RequestFails, InsertUnanswered, CommitUnanswered
  <1> QED
    BY <1>2, <1>3, <1>4, <1>5, <1>6 DEF Merges, Lands

(* Requests in flight are those there were, or the one just given up on.   *)
LEMMA InflightFrom ==
    ASSUME [Next]_vars, NEW req \in inflight', req \notin inflight
    PROVE  \E w \in Worker : /\ pc[w] = "insert" /\ req.table = TableOrder[step[w]]
                             /\ req.rows = RowsFor(w, TableOrder[step[w]])
  <1>1. ~(\E w \in Worker : InsertUnanswered(w)) => inflight' \subseteq inflight
    BY DEF Next, vars, Produces, Produce, Repartition, Reroute, Recreates, Recreate, Rebalances, Rebalance,
           Lands, LateInsert, Merges, Merge, Start, Consumes, Consume, Write, Checks, CheckHashes, CheckRoutes, RefuseRoutes, Insert, Commit,
           CommitRefused, Fails, Crash, RequestFails, CommitUnanswered
  <1>2. PICK w \in Worker : InsertUnanswered(w)
    BY <1>1
  <1> QED
    BY <1>2 DEF InsertUnanswered

(* A batch that is being inserted was checked in this step or before it,   *)
(* and one whose routes are looked up had its hashes compared.             *)
LEMMA InsertingFrom ==
    ASSUME TypeOK, [Next]_vars, NEW w \in Worker, pc'[w] \in {"routes", "insert"}
    PROVE  /\ from'[w] = from[w] /\ pos'[w] = pos[w]
           /\ pc[w] \in {"routes", "insert"} \/ CheckHashes(w)
           /\ pc'[w] = "insert" => pc[w] = "insert" \/ CheckRoutes(w)
  <1> DEFINE same == from'[w] = from[w] /\ pos'[w] = pos[w] /\ pc'[w] = pc[w]
  <1>1. CASE UNCHANGED <<pc, from, pos>>
    BY <1>1
  <1>2. ASSUME NEW assign \in [Partition -> Worker], Rebalance(assign)
        PROVE  same
    BY <1>2 DEF Rebalance, TypeOK
  <1>3. ASSUME NEW v \in Worker, Start(v) \/ Consumes(v) \/ Commit(v) \/ CommitRefused(v) \/ CommitUnanswered(v)
        PROVE  same
    BY <1>3 DEF Start, Consumes, Consume, Commit, CommitRefused, CommitUnanswered, Goto, TypeOK
  <1>4. ASSUME NEW v \in Worker, Crash(v) \/ RequestFails(v) \/ InsertUnanswered(v)
        PROVE  same
    BY <1>4 DEF Crash, RequestFails, InsertUnanswered, Goto, TypeOK
  <1>5. ASSUME NEW v \in Worker, Insert(v) \/ RefuseRoutes(v)
        PROVE  from'[w] = from[w] /\ pos'[w] = pos[w] /\ (same \/ pc[w] = "insert")
    BY <1>5 DEF Insert, RefuseRoutes, Goto, TypeOK
  <1>6. ASSUME NEW v \in Worker, CheckHashes(v)
        PROVE  same \/ (CheckHashes(w) /\ pc'[w] = "routes" /\ from'[w] = from[w] /\ pos'[w] = pos[w])
    BY <1>6 DEF CheckHashes, Goto, TypeOK
  <1>7. ASSUME NEW v \in Worker, CheckRoutes(v)
        PROVE  same \/ (CheckRoutes(w) /\ pc[w] = "routes" /\ from'[w] = from[w] /\ pos'[w] = pos[w])
    BY <1>7 DEF CheckRoutes, Goto, TypeOK
  <1>8. \/ UNCHANGED <<pc, from, pos>>
        \/ Rebalances
        \/ \E v \in Worker : Start(v) \/ Consumes(v) \/ Write(v) \/ Fails(v)
    BY DEF Next, vars, worker, Produces, Produce, Repartition, Reroute, Recreates, Recreate, Lands,
           LateInsert, Merges, Merge
  <1> QED
    BY <1>1, <1>2, <1>3, <1>4, <1>5, <1>6, <1>7, <1>8 DEF Rebalances, Write, Checks, Fails

(* Only the comparison of hashes brings rows into hand.                    *)
LEMMA HandFrom ==
    ASSUME Inv, [Next]_vars, ~Recreates, NEW r \in InHand'
    PROVE  r \in InHand \/ \E w \in Worker : CheckHashes(w) /\ r \in Batch(w)
  <1>1. TypeOK /\ Base /\ InflightSound
    BY DEF Inv, Base, Contents
  <1>2. ASSUME NEW w \in Worker, pc'[w] \in {"routes", "insert"}, r \in Batch(w)'
        PROVE  r \in InHand \/ (CheckHashes(w) /\ r \in Batch(w))
    <2>1. /\ from'[w] = from[w] /\ pos'[w] = pos[w]
          /\ pc[w] \in {"routes", "insert"} \/ CheckHashes(w)
      BY <1>1, <1>2, InsertingFrom
    <2>2. r \in Batch(w)
      BY <1>1, <1>2, <2>1, BatchStays
    <2> QED
      BY <2>1, <2>2 DEF InHand, Batch
  <1>3. ASSUME NEW req \in inflight', r \in req.rows
        PROVE  r \in InHand
    <2>1. CASE req \in inflight
      BY <1>1, <1>3, <2>1 DEF InflightSound, InHand
    <2>2. CASE req \notin inflight
      <3>1. PICK w \in Worker : pc[w] = "insert" /\ req.rows = RowsFor(w, TableOrder[step[w]])
        BY <2>2, InflightFrom
      <3> QED
        BY <1>3, <3>1 DEF RowsFor, Batch, InHand
    <2> QED
      BY <2>1, <2>2
  <1> QED
    BY <1>2, <1>3 DEF InHand

(* Contents of offsets never mix, unless an INSERT of a topic can run after*)
(* the topic was recreated.                                                *)
LEMMA ContentsStep == Inv /\ [Next]_vars /\ (Recreates => inflight = {}) => Contents'
  <1> SUFFICES ASSUME Inv, [Next]_vars, Recreates => inflight = {} PROVE Contents'
    OBVIOUS
  <1>1. TypeOK /\ "deliveries" \in Table /\ OneDelivery /\ HandAgrees /\ Delivered /\ InflightSound
    BY Tables DEF Inv, Base, Contents
  <1>2. /\ db["deliveries"] \subseteq db'["deliveries"]
        /\ db'["deliveries"] \subseteq db["deliveries"] \cup InHand
    BY <1>1, DeliveriesFromHand
  <1>3. OneDelivery'
    <2> SUFFICES ASSUME NEW r \in db'["deliveries"], NEW s \in db'["deliveries"], SameOffset(r, s)
                 PROVE  r.record = s.record
      BY DEF OneDelivery, SameOffset
    <2>1. CASE r \in db["deliveries"] /\ s \in db["deliveries"]
      BY <1>1, <2>1 DEF OneDelivery
    <2>2. CASE r \in InHand /\ s \in db["deliveries"]
      BY <1>1, <2>2 DEF HandAgrees
    <2>3. CASE r \in db["deliveries"] /\ s \in InHand
      <3>1. SameOffset(s, r)
        BY DEF SameOffset
      <3> QED
        BY <1>1, <2>3, <3>1 DEF HandAgrees
    <2>4. CASE r \in InHand /\ s \in InHand
      BY <2>4, LogRowsUnique DEF InHand
    <2> QED
      BY <1>2, <2>1, <2>2, <2>3, <2>4
  <1>4. HandAgrees'
    <2> SUFFICES ASSUME NEW r \in InHand', NEW d \in db'["deliveries"], SameOffset(r, d)
                 PROVE  r.record = d.record
      BY DEF HandAgrees, SameOffset
    <2>1. CASE Recreates
      <3>1. inflight' = {}
        BY <2>1 DEF Recreates, Recreate
      <3>2. \A w \in Worker : pc'[w] = "down"
        BY <1>1, <2>1, NoneAtWork DEF Inv, Base
      <3> QED
        BY <3>1, <3>2 DEF InHand
    <2>2. CASE ~Recreates
      <3>1. CASE r \in InHand /\ d \in db["deliveries"]
        BY <1>1, <3>1 DEF HandAgrees
      <3>2. CASE r \in InHand /\ d \in InHand
        BY <3>2, LogRowsUnique DEF InHand
      <3>3. ASSUME NEW w \in Worker, CheckHashes(w), r \in Batch(w) PROVE r.record = d.record
        <4>1. d \in DeliveredAt(r) /\ HashesAgree(w)
          BY <3>3 DEF CheckHashes, DeliveredAt
        <4>2. PICK e \in DeliveredAt(r) : e.record = r.record
          BY <3>3, <4>1 DEF HashesAgree
        <4>3. e.record = d.record
          BY <1>1, <4>1, <4>2 DEF DeliveredAt, OneDelivery, SameOffset
        <4> QED
          BY <4>2, <4>3
      <3> QED
        BY <1>1, <1>2, <2>2, <3>1, <3>2, <3>3, HandFrom
    <2> QED
      BY <2>1, <2>2
  <1>5. Delivered'
    <2> SUFFICES ASSUME NEW tab \in Table, NEW r \in db'[tab] PROVE r \in db'["deliveries"]
      BY DEF Delivered, Table, Last, TableOrder
    <2>1. CASE r \in db[tab]
      BY <1>1, <1>2, <2>1 DEF Delivered
    <2>2. CASE tab = "deliveries"
      BY <2>2
    <2>3. ASSUME NEW w \in Worker, Insert(w), tab # "deliveries", r \notin db[tab]
          PROVE  r \in db["deliveries"]
      <3>1. tab = TableOrder[step[w]] /\ r \in RowsFor(w, tab) /\ pc[w] = "insert"
        BY <1>1, <2>3 DEF Insert, TypeOK
      <3> QED
        BY <2>3, <3>1, BatchDelivered DEF RowsFor
    <2>4. ASSUME NEW req \in inflight, LateInsert(req), tab # "deliveries", r \notin db[tab]
          PROVE  r \in db["deliveries"]
      <3>1. tab = req.table /\ r \in req.rows
        BY <1>1, <2>4 DEF LateInsert, TypeOK
      <3> QED
        BY <1>1, <2>4, <3>1 DEF InflightSound
    <2>5. ASSUME NEW t \in Table, NEW q \in db[t], NEW s \in db[t], Merge(t, q, s)
          PROVE  r \in db[tab]
      BY <1>1, <2>5 DEF Merge, TypeOK
    <2>6. UNCHANGED db \/ Merges \/ Lands \/ \E w \in Worker : Insert(w)
      BY DEF Next, vars, Produces, Produce, Repartition, Reroute, Recreates, Recreate, Rebalances, Rebalance,
             Start, Consumes, Consume, Write, Checks, CheckHashes, CheckRoutes, RefuseRoutes, Commit, CommitRefused,
             Fails, Crash, RequestFails, InsertUnanswered, CommitUnanswered
    <2> QED
      BY <1>2, <2>1, <2>2, <2>3, <2>4, <2>5, <2>6 DEF Merges, Lands
  <1>6. InflightSound'
    <2>1. CASE Recreates
      <3>1. inflight' = {}
        BY <2>1 DEF Recreates, Recreate
      <3> QED
        BY <3>1 DEF InflightSound
    <2>2. CASE ~Recreates
      <3>1. LogRows \subseteq LogRows'
        BY <1>1, <2>2, LogRowsStay
      <3>2. ASSUME NEW req \in inflight'
            PROVE  /\ req.rows \subseteq LogRows
                   /\ req.table # "deliveries" => req.rows \subseteq db["deliveries"]
        <4>1. CASE req \in inflight
          BY <1>1, <4>1 DEF InflightSound
        <4>2. CASE req \notin inflight
          <5>1. PICK w \in Worker : /\ pc[w] = "insert" /\ req.table = TableOrder[step[w]]
                                    /\ req.rows = RowsFor(w, TableOrder[step[w]])
            BY <4>2, InflightFrom
          <5>2. req.rows \subseteq Batch(w)
            BY <5>1 DEF RowsFor
          <5> QED
            BY <5>1, <5>2, BatchDelivered DEF Batch
        <4> QED
          BY <4>1, <4>2
      <3> QED
        BY <1>2, <3>1, <3>2 DEF InflightSound
    <2> QED
      BY <2>1, <2>2
  <1> QED
    BY <1>3, <1>4, <1>5, <1>6 DEF Contents

-----------------------------------------------------------------------------
(* Routes.                                                                 *)

(* What keeps a key in one partition: the producer, when topics are not    *)
(* repartitioned, or else the check of the only worker there is, as long as*)
(* no INSERT of a worker that is gone lands behind it.                     *)
RoutesKept ==
    \/ "reroute" \notin Faults
    \/ "timeout" \notin Faults /\ \A v, w \in Worker : v = w

AtHome(rows) == \A r \in rows : r.partition = HomeOf[r.record.key]

Homed ==
    /\ route = HomeOf /\ AtHome(LogRows) /\ AtHome(db["results"])
    /\ \A req \in inflight : AtHome(req.rows)

Checked ==
    /\ OneRoute /\ inflight = {}
    /\ \A w \in Worker : pc[w] = "insert" => ~Rerouted(w)

Routed == IF "reroute" \notin Faults THEN Homed ELSE Checked

(* Result rows are in the batch of a worker, or in flight, before they are *)
(* stored.                                                                 *)
LEMMA ResultsFrom ==
    ASSUME TypeOK, [Next]_vars
    PROVE  \/ db'["results"] \subseteq db["results"]
           \/ \E req \in inflight : db'["results"] \subseteq db["results"] \cup req.rows
           \/ \E w \in Worker : /\ pc[w] = "insert"
                                /\ db'["results"] \subseteq db["results"] \cup RowsFor(w, "results")
  <1>1. "results" \in Table
    BY Tables
  <1>2. ASSUME NEW w \in Worker, Insert(w)
        PROVE  pc[w] = "insert" /\ db'["results"] \subseteq db["results"] \cup RowsFor(w, "results")
    BY <1>1, <1>2 DEF Insert, TypeOK
  <1>3. ASSUME NEW req \in inflight, LateInsert(req)
        PROVE  db'["results"] \subseteq db["results"] \cup req.rows
    BY <1>1, <1>3 DEF LateInsert, TypeOK
  <1>4. ASSUME NEW tab \in Table, NEW r \in db[tab], NEW s \in db[tab], Merge(tab, r, s)
        PROVE  db'["results"] \subseteq db["results"]
    BY <1>1, <1>4 DEF Merge, TypeOK
  <1>5. UNCHANGED db \/ Merges \/ Lands \/ \E w \in Worker : Insert(w)
    BY DEF Next, vars, Produces, Produce, Repartition, Reroute, Recreates, Recreate, Rebalances, Rebalance,
           Start, Consumes, Consume, Write, Checks, CheckHashes, CheckRoutes, RefuseRoutes, Commit, CommitRefused,
           Fails, Crash, RequestFails, InsertUnanswered, CommitUnanswered
  <1> QED
    BY <1>2, <1>3, <1>4, <1>5 DEF Merges, Lands

(* Without repartitioning, keys stay where the producer hashes them to.    *)
LEMMA HomedStep ==
    ASSUME Base, Homed, [Next]_vars, "reroute" \notin Faults
    PROVE  Homed'
  <1>1. TypeOK /\ TypeOK'
    BY TypeStep DEF Base
  <1>2. route' = HomeOf
    BY DEF Homed, Next, vars, kafka, Produces, Produce, Repartition, Reroute, Fault, Recreates, Recreate,
           Rebalances, Rebalance, Lands, LateInsert, Merges, Merge, Start, Consumes, Consume, Write, Checks, CheckHashes, CheckRoutes,
           RefuseRoutes, Insert, Commit, CommitRefused, Fails, Crash, RequestFails, InsertUnanswered, CommitUnanswered
  <1>3. AtHome(LogRows)'
    <2> SUFFICES ASSUME NEW r \in LogRows' PROVE r.partition = HomeOf[r.record.key]
      BY DEF AtHome
    <2>1. PICK p \in Partition : \E i \in 1..Len(log'[p]) : r = RowAt(p, i)'
      BY DEF LogRows
    <2>2. PICK i \in 1..Len(log'[p]) : r = RowAt(p, i)'
      BY <2>1
    <2>3. r.partition = p /\ r.record = log'[p][i]
      BY <2>2 DEF RowAt
    <2>4. CASE i \in 1..Len(log[p]) /\ log'[p][i] = log[p][i]
      <3>1. r = RowAt(p, i)
        BY <2>2, <2>4 DEF RowAt
      <3> QED
        BY <2>4, <3>1 DEF LogRows, Homed, AtHome
    <2>5. ASSUME NEW k \in Key, NEW v \in Value, Produce(k, v)
          PROVE  r.partition = HomeOf[r.record.key]
      <3>1. log[p] \in Seq(Record) /\ route[k] = HomeOf[k]
        BY <1>1 DEF TypeOK, Homed
      <3>2. CASE p # route[k]
        <4>1. log'[p] = log[p]
          BY <1>1, <2>5, <3>2 DEF Produce, TypeOK
        <4> QED
          BY <2>4, <4>1
      <3>3. CASE p = route[k]
        <4>1. log'[p] = Append(log[p], [key |-> k, value |-> v])
          BY <1>1, <2>5, <3>3 DEF Produce, TypeOK
        <4>2. (i \in 1..Len(log[p]) /\ log'[p][i] = log[p][i]) \/ log'[p][i] = [key |-> k, value |-> v]
          BY <3>1, <4>1
        <4> QED
          BY <2>3, <2>4, <3>1, <3>3, <4>2
      <3> QED
        BY <3>2, <3>3
    <2>6. ASSUME NEW q \in Partition, Recreate(q)
          PROVE  i \in 1..Len(log[p]) /\ log'[p][i] = log[p][i]
      BY <1>1, <2>6 DEF Recreate, TypeOK
    <2>7. Produces \/ Recreates \/ UNCHANGED log
      BY DEF Next, vars, kafka, Repartition, Reroute, Rebalances, Rebalance, Lands, LateInsert,
             Merges, Merge, Start, Consumes, Consume, Write, Checks, CheckHashes, CheckRoutes, RefuseRoutes, Insert, Commit, CommitRefused,
             Fails, Crash, RequestFails, InsertUnanswered, CommitUnanswered
    <2> QED
      BY <2>4, <2>5, <2>6, <2>7 DEF Produces, Recreates
  <1>4. AtHome(db["results"])'
    <2>1. \A w \in Worker : RowsFor(w, "results") \subseteq LogRows
      BY DEF RowsFor, Batch
    <2>2. \A w \in Worker : AtHome(RowsFor(w, "results"))
      BY <2>1 DEF Homed, AtHome
    <2> QED
      BY <1>1, <2>2, ResultsFrom DEF Homed, AtHome
  <1>5. ASSUME NEW req \in inflight' PROVE AtHome(req.rows)
    <2>1. CASE req \in inflight
      BY <2>1 DEF Homed
    <2>2. CASE req \notin inflight
      <3>1. PICK w \in Worker : req.rows = RowsFor(w, TableOrder[step[w]])
        BY <2>2, InflightFrom
      <3> QED
        BY <3>1 DEF RowsFor, Batch, Homed, AtHome
    <2> QED
      BY <2>1, <2>2
  <1> QED
    BY <1>2, <1>3, <1>4, <1>5 DEF Homed, AtHome

(* While a key has one partition, agreeing with one of its rows is to agree*)
(* with all.                                                               *)
LEMMA RoutesMeanHome ==
    ASSUME OneRoute, NEW w \in Worker, RoutesAgree(w)
    PROVE  ~Rerouted(w)
  <1> SUFFICES ASSUME NEW r \in RowsFor(w, "results"),
                      NEW s \in db["results"] \cup RowsFor(w, "results"),
                      r.record.key = s.record.key
               PROVE  r.partition = s.partition
    BY DEF Rerouted
  <1>1. CASE s \in RowsFor(w, "results")
    BY <1>1 DEF RoutesAgree
  <1>2. CASE s \in db["results"]
    <2>1. s \in RowsOf(r.record.key)
      BY <1>2 DEF RowsOf
    <2>2. PICK t \in RowsOf(r.record.key) : t.partition = r.partition
      BY <2>1 DEF RoutesAgree
    <2>3. t.partition = s.partition
      BY <2>1, <2>2 DEF OneRoute, RowsOf
    <2> QED
      BY <2>2, <2>3
  <1> QED
    BY <1>1, <1>2

(* With one worker, what was checked is still true when it is inserted.    *)
LEMMA CheckedStep ==
    ASSUME Base, Checked, [Next]_vars,
           "timeout" \notin Faults, \A v, w \in Worker : v = w
    PROVE  Checked'
  <1>1. TypeOK
    BY DEF Inv, Base
  <1>2. inflight' = {}
    BY DEF Checked, Next, vars, Fault, Produces, Produce, Repartition, Reroute, Recreates, Recreate,
           Rebalances, Rebalance, Lands, LateInsert, Merges, Merge, Start, Consumes, Consume, Write, Checks, CheckHashes, CheckRoutes,
           RefuseRoutes, Insert, Commit, CommitRefused, Fails, Crash, RequestFails, InsertUnanswered, CommitUnanswered
  <1>3. \/ db'["results"] \subseteq db["results"]
        \/ \E w \in Worker : /\ pc[w] = "insert"
                             /\ db'["results"] \subseteq db["results"] \cup RowsFor(w, "results")
    BY <1>1, ResultsFrom DEF Checked
  <1>4. OneRoute'
    <2>1. ASSUME db'["results"] \subseteq db["results"] PROVE OneRoute'
      BY <2>1 DEF Checked, OneRoute
    <2>2. ASSUME NEW w \in Worker, pc[w] = "insert",
                 db'["results"] \subseteq db["results"] \cup RowsFor(w, "results")
          PROVE  OneRoute'
      <3>1. ~Rerouted(w) /\ OneRoute
        BY <2>2 DEF Checked
      <3>2. \A r, s \in db["results"] \cup RowsFor(w, "results") :
              r.record.key = s.record.key => r.partition = s.partition
        BY <3>1 DEF Rerouted, OneRoute
      <3> QED
        BY <2>2, <3>2 DEF OneRoute
    <2> QED
      BY <1>3, <2>1, <2>2
  <1>5. ASSUME NEW w \in Worker, pc'[w] = "insert" PROVE ~Rerouted(w)'
    <2>1. /\ from'[w] = from[w] /\ pos'[w] = pos[w]
          /\ pc[w] = "insert" \/ CheckRoutes(w)
      BY <1>1, <1>5, InsertingFrom
    <2>2. ~Recreates
      <3>1. Recreates => pc'[w] = "down"
        BY <1>1, NoneAtWork DEF Base
      <3> QED
        BY <1>5, <3>1
    <2>3. Batch(w)' \subseteq Batch(w)
      BY <2>1, <2>2, BatchStays
    <2>4. RowsFor(w, "results")' \subseteq RowsFor(w, "results")
      BY <2>3 DEF RowsFor
    <2>5. ~Rerouted(w)
      <3>1. CASE pc[w] = "insert"
        BY <3>1 DEF Checked
      <3>2. CASE CheckRoutes(w)
        BY <3>2, RoutesMeanHome DEF Checked, CheckRoutes
      <3> QED
        BY <2>1, <3>1, <3>2
    <2>6. db'["results"] \subseteq db["results"] \cup RowsFor(w, "results")
      BY <1>3
    <2> QED
      BY <2>4, <2>5, <2>6 DEF Rerouted
  <1> QED
    BY <1>2, <1>4, <1>5 DEF Checked

(* Either way.                                                             *)
LEMMA RoutedStep ==
    ASSUME RoutesKept, Base, Routed, [Next]_vars
    PROVE  Routed'
  BY HomedStep, CheckedStep DEF RoutesKept, Routed

(* Nothing is in the log, and nobody at work.                              *)
LEMMA RoutedInit == Init => Routed
  <1> SUFFICES ASSUME Init PROVE Routed
    OBVIOUS
  <1>1. LogRows = {}
    BY DEF Init, LogRows
  <1>2. db["results"] = {}
    BY Tables DEF Init
  <1> QED
    BY <1>1, <1>2 DEF Init, Routed, Homed, AtHome, Checked, OneRoute

(* Both keep keys apart.                                                   *)
LEMMA RoutedIsOneRoute == Routed => OneRoute
  BY DEF Routed, Homed, AtHome, Checked, OneRoute

-----------------------------------------------------------------------------
(* What is shown.                                                          *)

(* Numbers below a bound have a greatest: what is above it would have a    *)
(* least set.                                                              *)
LEMMA GreatestExists ==
    ASSUME NEW B \in Nat, NEW S \in SUBSET (0..B), S # {}
    PROVE  \E m \in S : \A n \in S : n <= m
  <1> DEFINE Above(m) == {n \in S : m < n}
             T == {Above(m) : m \in S}
  <1>1. IsFiniteSet(S)
    <2>1. IsFiniteSet(0..B)
      BY FS_Interval
    <2> QED
      BY <2>1, FS_Subset
  <1>2. T \in SUBSET (SUBSET S) /\ T # {}
    OBVIOUS
  <1> HIDE DEF T
  <1>3. T \subseteq FiniteSubsetsOf(S)
    BY <1>1, <1>2, FS_Subset DEF FiniteSubsetsOf
  <1>4. PICK A \in T : \A C \in T : ~(<<C, A>> \in StrictSubsetOrdering(S))
    BY <1>1, <1>2, <1>3, WFMin, FS_StrictSubsetOrderingWellFounded
  <1>5. PICK m \in S : A = Above(m)
    BY <1>4 DEF T
  <1>6. ASSUME NEW n \in Above(m) PROVE FALSE
    <2>1. n \in S /\ Above(n) \in T
      BY DEF T
    <2>2. m \in Int /\ n \in Int /\ m < n /\ \A x \in S : x \in Int
      OBVIOUS
    <2>3. \A x \in S : n < x => m < x
      BY <2>2
    <2>4. Above(n) \subseteq Above(m) /\ n \notin Above(n)
      <3>1. ~(n < n)
        BY <2>2
      <3> QED
        BY <2>3, <3>1, Zenon
    <2>5. Above(n) \in SUBSET S /\ Above(m) \in SUBSET S
      OBVIOUS
    <2> QED
      BY <1>4, <1>5, <2>1, <2>4, <2>5 DEF StrictSubsetOrdering
  <1> QED
    BY <1>6

(* Offsets end with the log.                                               *)
Bounded ==
    /\ \A p \in Partition : Len(log[p]) <= MaxLog
    /\ \A r \in db["results"] : r.offset <= MaxLog
    /\ \A req \in inflight : \A r \in req.rows : r.offset <= MaxLog

(* Rows that are stored or in flight were in the log.                      *)
LEMMA BoundedStep == Base /\ Bounded /\ [Next]_vars => Bounded'
  <1> SUFFICES ASSUME Base, Bounded, [Next]_vars PROVE Bounded'
    OBVIOUS
  <1>1. TypeOK
    BY DEF Base
  <1>2. ASSUME NEW w \in Worker, NEW tab \in Table, NEW r \in RowsFor(w, tab) PROVE r.offset <= MaxLog
    <2>1. PICK p \in Partition : \E i \in 1..Len(log[p]) : r = RowAt(p, i)
      BY DEF RowsFor, Batch, LogRows
    <2>2. r.offset \in 1..Len(log[p])
      BY <1>1, <2>1, RowsTyped
    <2>3. log[p] \in Seq(Record) /\ Len(log[p]) <= MaxLog
      BY <1>1 DEF TypeOK, Bounded
    <2> QED
      BY <2>2, <2>3, BoundAssumption
  <1>3. ASSUME NEW p \in Partition PROVE Len(log'[p]) <= MaxLog
    <2>1. Len(log[p]) <= MaxLog /\ log[p] \in Seq(Record)
      BY <1>1 DEF TypeOK, Bounded
    <2>2. ASSUME NEW k \in Key, NEW v \in Value, Produce(k, v)
          PROVE  Len(log'[p]) <= MaxLog
      <3>1. \/ log'[p] = log[p]
            \/ Len(log[p]) < MaxLog /\ log'[p] = Append(log[p], [key |-> k, value |-> v])
        BY <1>1, <2>2 DEF Produce, TypeOK
      <3>2. Len(Append(log[p], [key |-> k, value |-> v])) = Len(log[p]) + 1 /\ Len(log[p]) \in Nat
        BY <2>1, <1>1 DEF Record
      <3> QED
        BY <2>1, <3>1, <3>2, BoundAssumption
    <2>3. ASSUME NEW q \in Partition, Recreate(q) PROVE Len(log'[p]) <= MaxLog
      <3>1. log'[p] = log[p] \/ log'[p] = <<>>
        BY <1>1, <2>3 DEF Recreate, TypeOK
      <3> QED
        BY <2>1, <3>1, BoundAssumption
    <2>4. Produces \/ Recreates \/ UNCHANGED log
      BY DEF Next, vars, kafka, Repartition, Reroute, Rebalances, Rebalance, Lands, LateInsert,
             Merges, Merge, Start, Consumes, Consume, Write, Checks, CheckHashes, CheckRoutes,
             RefuseRoutes, Insert, Commit, CommitRefused, Fails, Crash, RequestFails, InsertUnanswered,
             CommitUnanswered
    <2> QED
      BY <2>1, <2>2, <2>3, <2>4 DEF Produces, Recreates
  <1>4. \A r \in db'["results"] : r.offset <= MaxLog
    BY <1>1, <1>2, ResultsFrom, Tables DEF Bounded
  <1>5. ASSUME NEW req \in inflight', NEW r \in req.rows PROVE r.offset <= MaxLog
    <2>1. CASE req \in inflight
      BY <2>1 DEF Bounded
    <2>2. CASE req \notin inflight
      <3>1. PICK w \in Worker : req.rows = RowsFor(w, TableOrder[step[w]])
        BY <2>2, InflightFrom
      <3>2. TableOrder[step[w]] \in Table
        BY <1>1, Tables DEF TypeOK
      <3> QED
        BY <1>2, <3>1, <3>2
    <2> QED
      BY <2>1, <2>2
  <1> QED
    BY <1>3, <1>4, <1>5 DEF Bounded

(* A key stays shown, by a row that ranks no lower, whatever is inserted or*)
(* merged, as long as its rows come from one partition.                    *)
LEMMA ShownStays ==
    ASSUME Base, Bounded', OneRoute, OneRoute', [Next]_vars,
           NEW k \in Key, NEW r \in Shown(k)
    PROVE  \E s \in Shown(k)' : s.partition = r.partition /\ s.offset >= r.offset
  <1>1. TypeOK /\ TypeOK' /\ "results" \in Table
    BY TypeStep, Tables DEF Base
  <1>2. r \in db["results"] /\ r \in Row /\ r.record.key = k
        /\ \A s \in RowsOf(k) : s.offset <= r.offset
    BY <1>1 DEF Shown, RowsOf, TypeOK
  <1>3. Stored(r, "results")'
    <2>1. Stored(r, "results")
      BY <1>2 DEF Stored, Row
    <2> QED
      BY <1>1, <1>2, <2>1, StoredStays
  <1>4. PICK t \in RowsOf(k)' : t.offset >= r.offset
    BY <1>2, <1>3 DEF Stored, RowsOf
  <1>5. \A s \in RowsOf(k)' : s \in Row /\ s.partition \in Partition /\ s.offset \in Nat
    <2>1. db'["results"] \in SUBSET Row
      BY <1>1 DEF TypeOK
    <2>2. \A s \in Row : s.partition \in Partition /\ s.offset \in Nat
      BY DEF Row
    <2> QED
      BY <2>1, <2>2 DEF RowsOf
  <1>6. \A s \in RowsOf(k)' : s.partition = r.partition
    <2>1. CASE Merges
      <3>1. db'["results"] \subseteq db["results"]
        BY <1>1, <2>1 DEF Merges, Merge, TypeOK
      <3> QED
        BY <1>2, <3>1 DEF OneRoute, RowsOf
    <2>2. CASE ~Merges
      <3>1. r \in db'["results"]
        BY <1>1, <1>2, <2>2, TablesGrow
      <3> QED
        BY <1>2, <3>1 DEF OneRoute, RowsOf
    <2> QED
      BY <2>1, <2>2
  <1>7. r.partition \in Partition /\ r.offset \in Nat
    BY <1>2 DEF Row
  <1> DEFINE offsets == {s.offset : s \in RowsOf(k)'}
  <1>8. \A s \in RowsOf(k)' : s.offset \in 0..MaxLog
    BY <1>5, BoundAssumption DEF Bounded, RowsOf
  <1>9. MaxLog \in Nat /\ offsets \in SUBSET (0..MaxLog) /\ offsets # {}
    BY <1>4, <1>8, BoundAssumption
  <1> HIDE DEF offsets
  <1>10. PICK m \in offsets : \A n \in offsets : n <= m
    BY <1>9, GreatestExists
  <1> USE DEF offsets
  <1>11. PICK s \in RowsOf(k)' : s.offset = m
    OBVIOUS
  <1>12. s \in Shown(k)'
    BY <1>10, <1>11 DEF Shown
  <1>13. s.offset >= t.offset
    BY <1>5, <1>10, <1>11
  <1>14. s.offset >= r.offset
    BY <1>4, <1>5, <1>7, <1>13
  <1> QED
    BY <1>6, <1>12, <1>14

-----------------------------------------------------------------------------
(* The results.                                                            *)

(* Types, batches and positions are right whatever happens.                *)
THEOREM BaseCorrect == Spec => []Base
  <1>1. Init => Base
    BY InitInv DEF Inv
  <1>2. Base /\ [Next]_vars => Base'
    BY TypeStep, BatchStep, PositionsStep DEF Base
  <1> QED
    BY <1>1, <1>2, PTL DEF Spec

(* Every variable has its type in every reachable state.                   *)
THEOREM TypeCorrect == Spec => []TypeOK
  <1>1. Base => TypeOK
    BY DEF Base
  <1> QED
    BY <1>1, BaseCorrect, PTL

(* The inductive invariant holds as long as no INSERT of a topic can run   *)
(* after the topic was recreated.                                          *)
THEOREM InvCorrect == Spec /\ Drained => []Inv
  <1> DEFINE Quiet == Recreates => inflight = {}
  <1>1. Init => Inv
    BY InitInv
  <1>2. Inv /\ [Next]_vars /\ [Quiet]_vars => Inv'
    <2> SUFFICES ASSUME Inv, [Next]_vars, [Quiet]_vars PROVE Inv'
      OBVIOUS
    <2>1. Base' /\ TypeOK'
      BY TypeStep, BatchStep, PositionsStep DEF Inv, Base
    <2>2. Contents'
      <3>1. CASE Quiet
        BY <3>1, ContentsStep
      <3>2. CASE UNCHANGED vars
        BY <3>2 DEF Inv, Contents, OneDelivery, HandAgrees, InHand, LogRows, RowAt, Batch, Delivered,
                    InflightSound, vars, kafka, worker
      <3> QED
        BY <3>1, <3>2
    <2> QED
      BY <2>1, <2>2, FromStep, CommittedStep, InsertedStep DEF Inv
  <1> HIDE DEF Quiet
  <1>3. Drained => [][Quiet]_vars
    BY DEF Drained, Quiet
  <1> QED
    BY <1>1, <1>2, <1>3, PTL DEF Spec

(* For any workers, partitions and faults: what the consumer group has     *)
(* committed is in the log and in every table it belongs to, although      *)
(* workers crash, time out, lose their partitions and write late; provided *)
(* that no INSERT outlives its topic, which a merge could prefer.          *)
THEOREM CommittedPersistedCorrect == Spec /\ Drained => []CommittedPersisted
  <1>1. Inv => CommittedPersisted
    BY DEF Inv
  <1> QED
    BY <1>1, InvCorrect, PTL

(* For any workers and faults: no offset is ever stored with two contents, *)
(* although topics are recreated and INSERTs land late, because deliveries *)
(* are written before outputs; provided that no INSERT outlives its topic. *)
THEOREM OneContentCorrect == Spec /\ Drained => []OneContent
  <1>1. Inv => OneContent
    BY ContentsMeanOne DEF Inv
  <1> QED
    BY <1>1, InvCorrect, PTL

(* Rows of a key come from one partition, for any workers and late INSERTs *)
(* while topics keep their partitions, and for one worker whose INSERTs are*)
(* answered even when they do not (storage.py:247-262).                    *)
THEOREM OneRouteCorrect == ASSUME RoutesKept PROVE Spec => []OneRoute
  <1>1. Base /\ Routed /\ [Next]_vars => Routed'
    BY RoutedStep
  <1> QED
    BY <1>1, RoutedInit, RoutedIsOneRoute, BaseCorrect, PTL DEF Spec

(* Under the same conditions no retry, late INSERT, merge, recreated topic *)
(* or replaced worker brings back what a query showed before.              *)
THEOREM ShownMovesForwardCorrect == ASSUME RoutesKept PROVE Spec => ShownMovesForward
  <1> DEFINE Forward == \A k \in Key : \A r \in Shown(k) :
                 \E s \in Shown(k)' : s.partition = r.partition /\ s.offset >= r.offset
  <1>1. Init => Bounded
    <2> SUFFICES ASSUME Init PROVE Bounded
      OBVIOUS
    <2>1. inflight = {} /\ db["results"] = {} /\ \A p \in Partition : Len(log[p]) = 0
      BY Tables DEF Init
    <2> QED
      BY <2>1, BoundAssumption DEF Bounded
  <1>2. Spec => []Bounded
    BY <1>1, BoundedStep, BaseCorrect, PTL DEF Spec
  <1>3. Base /\ Bounded' /\ OneRoute /\ OneRoute' /\ [Next]_vars => Forward
    BY ShownStays
  <1> HIDE DEF Forward
  <1>4. Spec => [][Forward]_vars
    BY <1>2, <1>3, BaseCorrect, OneRouteCorrect, PTL DEF Spec
  <1> QED
    BY <1>4 DEF Forward, ShownMovesForward
=============================================================================
