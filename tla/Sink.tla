--------------------------------- MODULE Sink ---------------------------------
(***************************************************************************)
(* The sink: workers (worker.py sink) that move records from Kafka result, *)
(* quality and receipt topics into ClickHouse tables (storage.py).         *)
(*                                                                         *)
(* A worker consumes a batch, reads from ClickHouse the delivery hashes    *)
(* and then the key routes that the batch touches, refuses the batch when  *)
(* they disagree with it, and else sends one INSERT per table: deliveries  *)
(* first, then the outputs. Only then does it commit the offsets. Any      *)
(* exception makes it hold the batch and start over with the reads.        *)
(*                                                                         *)
(* Kafka and ClickHouse are modelled as the worker sees them. An INSERT    *)
(* may be lost, or be answered too late: it then takes effect at any later *)
(* moment, even after the worker was replaced. A rebalance gives the       *)
(* partitions to the workers that are polling; one that is still busy with *)
(* a batch goes on writing but its commit is refused.                      *)
(*                                                                         *)
(* results is a ReplacingMergeTree(output_offset) ordered by output key:   *)
(* background merges drop rows that a row of a later offset supersedes.    *)
(* Queries use argMax(payload, output_offset), whatever was merged.        *)
(* deliveries and quality are ordered by offset: a merge keeps one row of  *)
(* each. visibility is not merged, and batch_ids of receipts are fresh.    *)
(*                                                                         *)
(* Offsets count from 1, so that offset i is the i-th record of a          *)
(* partition and the committed position is the number of records consumed. *)
(***************************************************************************)
EXTENDS Naturals, Sequences, FiniteSets

CONSTANTS
    Worker,      \* sink processes
    Partition,   \* topic partitions, of all the topics the sink reads
    Key,         \* output keys
    Value,       \* contents a record of a key can have
    KindOf,      \* record_type of a key's records
    HomeOf,      \* partition the producer hashes a key to
    Faults,      \* kinds of faults that occur, of FaultKind
    MaxLog,      \* bound: records per partition
    MaxFaults    \* bound: faults in a behaviour

FaultKind == {"crash", "reset", "timeout", "commit", "slow", "recreate", "reroute"}
Kind      == {"metric", "association", "quality", "receipt"}

ASSUME KindAssumption  == KindOf \in [Key -> Kind]
ASSUME HomeAssumption  == HomeOf \in [Key -> Partition]
ASSUME FaultAssumption == Faults \subseteq FaultKind
ASSUME BoundAssumption == MaxLog \in Nat /\ MaxFaults \in Nat

VARIABLES
    log,         \* committed records of each partition
    route,       \* partition the producer sends a key to now
    committed,   \* consumer group's committed position
    db,          \* rows of each ClickHouse table
    inflight,    \* INSERTs the client gave up on and the server may still run
    member,      \* workers of the group's current generation
    owner,       \* the member a partition is assigned to
    pc,          \* where a worker stands
    from, pos,   \* its batch: the offsets from + 1 .. pos of each partition
    step,        \* the INSERT it is at
    faults       \* faults so far

kafka  == <<log, route, committed>>
group  == <<member, owner>>
worker == <<pc, from, pos, step>>
vars   == <<kafka, db, inflight, group, worker, faults>>

(* A wrong variant: outputs are persisted before the delivery hashes.      *)
OutputsFirst == <<"results", "quality", "receipts", "visibility", "deliveries">>

(* write_batch's order of inserts.                                         *)
TableOrder == <<"deliveries", "results", "quality", "receipts", "visibility">>
Last       == Len(TableOrder)
Table      == {TableOrder[n] : n \in 1..Last}

(* The tables a record of each kind goes to. Only metrics carry the        *)
(* receipt_updates that become visibility rows.                            *)
TablesFor(kind) ==
    CASE kind = "metric"      -> {"deliveries", "results", "visibility"}
      [] kind = "association" -> {"deliveries", "results"}
      [] kind = "quality"     -> {"deliveries", "quality"}
      [] kind = "receipt"     -> {"deliveries", "receipts"}

Record  == [key : Key, value : Value]
Row     == [partition : Partition, offset : Nat, record : Record]
Request == [table : Table, rows : SUBSET Row]

RowAt(p, i) == [partition |-> p, offset |-> i, record |-> log[p][i]]
LogRows     == UNION {{RowAt(p, i) : i \in 1..Len(log[p])} : p \in Partition}

Batch(w)        == {r \in LogRows : r.offset \in (from[w][r.partition] + 1)..pos[w][r.partition]}
RowsFor(w, tab) == {r \in Batch(w) : tab \in TablesFor(KindOf[r.record.key])}

(* Every row a record stands for is in its table; a result row may have    *)
(* been replaced by one of the same key that ranks above it.               *)
Persisted(p, i) ==
    LET row == RowAt(p, i)
    IN  /\ \A tab \in TablesFor(KindOf[row.record.key]) \ {"results"} : row \in db[tab]
        /\ "results" \in TablesFor(KindOf[row.record.key]) =>
             \E s \in db["results"] : s.record.key = row.record.key /\ s.offset >= i

SameOffset(r, s) == r.partition = s.partition /\ r.offset = s.offset

(* Rows of a key that SELECT argMax(payload, output_offset) picks from.    *)
RowsOf(k)   == {r \in db["results"] : r.record.key = k}
Shown(k)    == {r \in RowsOf(k) : \A s \in RowsOf(k) : s.offset <= r.offset}

(* What a lookup returns for a record agrees with it: nothing is stored, or*)
(* the row it keeps, any one of several (a dict of hashes, any(partition)).*)
DeliveredAt(r)  == {d \in db["deliveries"] : SameOffset(r, d)}
HashesAgree(w)  ==
    \A r \in Batch(w) : DeliveredAt(r) # {} => \E d \in DeliveredAt(r) : d.record = r.record
RoutesAgree(w)  ==
    \A r \in RowsFor(w, "results") :
        /\ RowsOf(r.record.key) # {} => \E s \in RowsOf(r.record.key) : s.partition = r.partition
        /\ \A s \in RowsFor(w, "results") : r.record.key = s.record.key => r.partition = s.partition

(* A result key was stored, or comes earlier in the batch, from another    *)
(* partition.                                                              *)
Rerouted(w) ==
    \E r \in RowsFor(w, "results"), s \in db["results"] \cup RowsFor(w, "results") :
        r.record.key = s.record.key /\ r.partition # s.partition

(* A merge may keep s and drop r.                                          *)
Supersedes(tab, s, r) ==
    CASE tab = "results"                  -> r.record.key = s.record.key /\ r.offset <= s.offset
      [] tab \in {"deliveries", "quality"} -> SameOffset(r, s)
      [] OTHER                            -> FALSE

NoOffsets == [p \in Partition |-> 0]

Init ==
    /\ log       = [p \in Partition |-> <<>>]
    /\ route     = HomeOf
    /\ committed = NoOffsets
    /\ db        = [tab \in Table |-> {}]
    /\ inflight  = {}
    /\ member    = {}
    /\ owner     \in [Partition -> Worker]
    /\ pc        = [w \in Worker |-> "down"]
    /\ from      = [w \in Worker |-> NoOffsets]
    /\ pos       = [w \in Worker |-> NoOffsets]
    /\ step      = [w \in Worker |-> 1]
    /\ faults    = 0

Goto(w, l) == pc' = [pc EXCEPT ![w] = l]

Fault(kind) ==
    /\ kind \in Faults
    /\ faults < MaxFaults
    /\ faults' = faults + 1

(* The last offset of every partition of the batch, plus one.              *)
CommitPositions(w) ==
    [p \in Partition |-> IF from[w][p] < pos[w][p] THEN pos[w][p] ELSE committed[p]]

-----------------------------------------------------------------------------
(* Wrong variants of steps below: each property is checked to notice one.  *)

(* auto.offset.reset=latest and no stored positions: history is skipped.   *)
RebalanceLatest(assign) ==
    LET polling == {w \in Worker : pc[w] = "poll"}
        dead    == {w \in member : pc[w] = "down"}
        latest  == [p \in Partition |-> Len(log[p])]
    IN  /\ polling # {}
        /\ ~(polling \subseteq member) \/ dead # {}
        /\ assign \in [Partition -> polling]
        /\ IF member \subseteq polling \cup dead THEN UNCHANGED faults ELSE Fault("slow")
        /\ member' = polling
        /\ owner'  = assign
        /\ from'   = [w \in Worker |-> IF w \in polling THEN latest ELSE from[w]]
        /\ pos'    = [w \in Worker |-> IF w \in polling THEN latest ELSE pos[w]]
        /\ UNCHANGED <<kafka, db, inflight, pc, step>>

(* The check compares hashes but not routes.                               *)
CheckNoRoutes(w) ==
    /\ pc[w] = "routes"
    /\ step' = [step EXCEPT ![w] = 1]
    /\ Goto(w, "insert")
    /\ UNCHANGED <<kafka, db, inflight, group, from, pos, faults>>

(* The loop over the tables does not end after the last one.               *)
InsertPastLast(w) ==
    LET tab == TableOrder[step[w]]
    IN  /\ pc[w] = "insert"
        /\ db' = [db EXCEPT ![tab] = @ \cup RowsFor(w, tab)]
        /\ step' = [step EXCEPT ![w] = @ + 1]
        /\ Goto(w, IF step[w] = Last THEN "commit" ELSE "insert")
        /\ UNCHANGED <<kafka, inflight, group, from, pos, faults>>

(* The exception is logged and the next batch consumed.                    *)
FailedBatchDropped(w) ==
    /\ pc[w] \in {"routes", "insert"}
    /\ Fault("reset")
    /\ from' = [from EXCEPT ![w] = pos[w]]
    /\ Goto(w, "poll")
    /\ UNCHANGED <<kafka, db, inflight, group, pos, step>>

(* A timeout is taken for a success.                                       *)
UnansweredCountsAsDone(w) ==
    LET tab == TableOrder[step[w]]
    IN  /\ pc[w] = "insert"
        /\ Fault("timeout")
        /\ inflight' = inflight \cup {[table |-> tab, rows |-> RowsFor(w, tab)]}
        /\ step' = [step EXCEPT ![w] = IF @ = Last THEN 1 ELSE @ + 1]
        /\ Goto(w, IF step[w] = Last THEN "commit" ELSE "insert")
        /\ UNCHANGED <<kafka, db, group, from, pos>>

(* A ReplacingMergeTree without a version column: the last insert wins.    *)
MergeUnversioned(tab, r, s) ==
    /\ tab = "results" /\ r # s
    /\ r.record.key = s.record.key
    /\ db' = [db EXCEPT ![tab] = @ \ {r}]
    /\ UNCHANGED <<kafka, inflight, group, worker, faults>>

-----------------------------------------------------------------------------
(* The producers: the Flink jobs, the collector and replay publications.   *)

Produce(k, v) ==
    /\ Len(log[route[k]]) < MaxLog
    /\ log' = [log EXCEPT ![route[k]] = Append(@, [key |-> k, value |-> v])]
    /\ UNCHANGED <<route, committed, db, inflight, group, worker, faults>>

(* The partition count of a topic is changed under a release: a key may    *)
(* hash elsewhere from now on.                                             *)
Reroute(k, p) ==
    /\ Fault("reroute")
    /\ route[k] # p
    /\ route' = [route EXCEPT ![k] = p]
    /\ UNCHANGED <<log, committed, db, inflight, group, worker>>

(* A topic is lost and created again, with the group's offsets, while the  *)
(* sink is stopped; ClickHouse keeps its rows, and may still be running    *)
(* INSERTs of the records that are gone.                                   *)
Recreate(p) ==
    /\ Fault("recreate")
    /\ \A w \in Worker : pc[w] = "down"
    /\ log'       = [log EXCEPT ![p] = <<>>]
    /\ committed' = [committed EXCEPT ![p] = 0]
    /\ UNCHANGED <<route, db, inflight, group, worker>>

-----------------------------------------------------------------------------
(* A worker's process and its place in the consumer group.                 *)

Start(w) ==
    /\ pc[w] = "down"
    /\ member' = member \ {w}
    /\ Goto(w, "poll")
    /\ UNCHANGED <<kafka, db, inflight, owner, from, pos, step, faults>>

(* The workers that are polling form the next generation and start at the  *)
(* committed positions. A member that is busy is left behind only when its *)
(* batch outlasts max.poll.interval.ms: a fault.                           *)
Rebalance(assign) ==
    LET polling == {w \in Worker : pc[w] = "poll"}
        dead    == {w \in member : pc[w] = "down"}
    IN  /\ polling # {}
        /\ ~(polling \subseteq member) \/ dead # {}
        /\ assign \in [Partition -> polling]
        /\ IF member \subseteq polling \cup dead THEN UNCHANGED faults ELSE Fault("slow")
        /\ member' = polling
        /\ owner'  = assign
        /\ from'   = [w \in Worker |-> IF w \in polling THEN committed ELSE from[w]]
        /\ pos'    = [w \in Worker |-> IF w \in polling THEN committed ELSE pos[w]]
        /\ UNCHANGED <<kafka, db, inflight, pc, step>>

(* The process is killed or stopped; the drill FAULT_CRASH_AFTER_WRITE     *)
(* exits between the last INSERT and the commit.                           *)
Crash(w) ==
    /\ pc[w] # "down"
    /\ Fault("crash")
    /\ Goto(w, "down")
    /\ from' = [from EXCEPT ![w] = NoOffsets]
    /\ pos'  = [pos EXCEPT ![w] = NoOffsets]
    /\ UNCHANGED <<kafka, db, inflight, group, step>>

-----------------------------------------------------------------------------
(* A batch.                                                                *)

(* consumer.consume: any number of records of any owned partitions.        *)
Consume(w, to) ==
    /\ pc[w] = "poll"
    /\ w \in member
    /\ \A p \in Partition :
         to[p] \in pos[w][p]..(IF owner[p] = w THEN Len(log[p]) ELSE pos[w][p])
    /\ to # pos[w]
    /\ from' = [from EXCEPT ![w] = pos[w]]
    /\ pos'  = [pos EXCEPT ![w] = to]
    /\ Goto(w, "check")
    /\ UNCHANGED <<kafka, db, inflight, group, step, faults>>

(* write_batch looks up the hashes stored for the batch's offsets. The code*)
(* compares them after the second lookup; a batch they refuse is held and  *)
(* looked up again: nothing changes.                                       *)
CheckHashes(w) ==
    /\ pc[w] = "check"
    /\ HashesAgree(w)
    /\ Goto(w, "routes")
    /\ UNCHANGED <<kafka, db, inflight, group, from, pos, step, faults>>

(* The second lookup: the partitions the batch's result keys came from.    *)
CheckRoutes(w) ==
    /\ pc[w] = "routes"
    /\ RoutesAgree(w)
    /\ step' = [step EXCEPT ![w] = 1]
    /\ Goto(w, "insert")
    /\ UNCHANGED <<kafka, db, inflight, group, from, pos, faults>>

(* A key comes from another partition: held, and both lookups repeated.    *)
RefuseRoutes(w) ==
    /\ pc[w] = "routes"
    /\ Rerouted(w)
    /\ Goto(w, "check")
    /\ UNCHANGED <<kafka, db, inflight, group, from, pos, step, faults>>

(* One INSERT; ClickHouse.insert sends nothing for no rows.                *)
Insert(w) ==
    LET tab == TableOrder[step[w]]
    IN  /\ pc[w] = "insert"
        /\ db' = [db EXCEPT ![tab] = @ \cup RowsFor(w, tab)]
        /\ step' = [step EXCEPT ![w] = IF @ = Last THEN 1 ELSE @ + 1]
        /\ Goto(w, IF step[w] = Last THEN "commit" ELSE "insert")
        /\ UNCHANGED <<kafka, inflight, group, from, pos, faults>>

(* An INSERT or the second lookup does not reach ClickHouse, or is refused.*)
RequestFails(w) ==
    /\ pc[w] \in {"routes", "insert"}
    /\ Fault("reset")
    /\ Goto(w, "check")
    /\ UNCHANGED <<kafka, db, inflight, group, from, pos, step>>

(* No answer within timeout=60, or the process dies waiting for one: the   *)
(* server may still execute the request.                                   *)
InsertUnanswered(w) ==
    LET tab == TableOrder[step[w]]
    IN  /\ pc[w] = "insert"
        /\ Fault("timeout")
        /\ inflight' = inflight \cup {[table |-> tab, rows |-> RowsFor(w, tab)]}
        /\ \/ Goto(w, "check") /\ UNCHANGED <<from, pos>>
           \/ /\ Goto(w, "down")
              /\ from' = [from EXCEPT ![w] = NoOffsets]
              /\ pos'  = [pos EXCEPT ![w] = NoOffsets]
        /\ UNCHANGED <<kafka, db, group, step>>

LateInsert(req) ==
    /\ req \in inflight
    /\ db' = [db EXCEPT ![req.table] = @ \cup req.rows]
    /\ inflight' = inflight \ {req}
    /\ UNCHANGED <<kafka, group, worker, faults>>

(* A background merge keeps one row of a sort key, in results the one of   *)
(* the highest version. Rows that are equal are one row of a set.          *)
Merge(tab, r, s) ==
    /\ r # s
    /\ Supersedes(tab, s, r)
    /\ db' = [db EXCEPT ![tab] = @ \ {r}]
    /\ UNCHANGED <<kafka, inflight, group, worker, faults>>

Commit(w) ==
    /\ pc[w] = "commit"
    /\ w \in member
    /\ committed' = CommitPositions(w)
    /\ from' = [from EXCEPT ![w] = pos[w]]
    /\ Goto(w, "poll")
    /\ UNCHANGED <<log, route, db, inflight, group, pos, step, faults>>

(* The generation is over: the commit raises and the batch is written      *)
(* again, for ever.                                                        *)
CommitRefused(w) ==
    /\ pc[w] = "commit"
    /\ w \notin member
    /\ Goto(w, "check")
    /\ UNCHANGED <<kafka, db, inflight, group, from, pos, step, faults>>

(* The commit raises, whether or not the broker stored the positions.      *)
CommitUnanswered(w) ==
    /\ pc[w] = "commit"
    /\ w \in member
    /\ Fault("commit")
    /\ committed' \in {committed, CommitPositions(w)}
    /\ Goto(w, "check")
    /\ UNCHANGED <<log, route, db, inflight, group, from, pos, step>>

-----------------------------------------------------------------------------
Produces    == \E k \in Key, v \in Value : Produce(k, v)
Repartition == \E k \in Key, p \in Partition : Reroute(k, p)
Recreates   == \E p \in Partition : Recreate(p)
Rebalances  == \E assign \in [Partition -> Worker] : Rebalance(assign)
Lands       == \E req \in inflight : LateInsert(req)
Merges      == \E tab \in Table : \E r, s \in db[tab] : Merge(tab, r, s)
Consumes(w) ==
    \E to \in [Partition -> 0..MaxLog] : Consume(w, to)

Checks(w)   == CheckHashes(w) \/ CheckRoutes(w) \/ RefuseRoutes(w)
Write(w)    == Checks(w) \/ Insert(w) \/ Commit(w) \/ CommitRefused(w)
Fails(w)    == Crash(w) \/ RequestFails(w) \/ InsertUnanswered(w) \/ CommitUnanswered(w)

Next == \/ Produces \/ Repartition \/ Recreates \/ Rebalances \/ Lands \/ Merges
        \/ \E w \in Worker : Start(w) \/ Consumes(w) \/ Write(w) \/ Fails(w)

Spec == Init /\ [][Next]_vars

(* The process is restarted when it ends (restart: unless-stopped), polls  *)
(* and retries without end, and the group reacts to joins and deaths.      *)
FairSpec ==
    /\ Spec
    /\ WF_vars(Rebalances)
    /\ \A w \in Worker : WF_vars(Start(w)) /\ WF_vars(Consumes(w)) /\ WF_vars(Write(w))

-----------------------------------------------------------------------------
(* Types of every variable.                                                *)
TypeOK ==
    /\ log       \in [Partition -> Seq(Record)]
    /\ route     \in [Key -> Partition]
    /\ committed \in [Partition -> Nat]
    /\ db        \in [Table -> SUBSET Row]
    /\ inflight  \subseteq Request
    /\ member    \subseteq Worker
    /\ owner     \in [Partition -> Worker]
    /\ pc        \in [Worker -> {"down", "poll", "check", "routes", "insert", "commit"}]
    /\ from      \in [Worker -> [Partition -> Nat]]
    /\ pos       \in [Worker -> [Partition -> Nat]]
    /\ step      \in [Worker -> 1..Last]
    /\ faults    \in Nat

(* No committed record is missing from any table it belongs to: whatever   *)
(* crashes, lost answers, rebalances and retries happen, the consumer      *)
(* group never moves past output that ClickHouse does not hold. It takes   *)
(* Drained too: an old hash that lands late may be the one a merge keeps.  *)
CommittedPersisted ==
    \A p \in Partition : \A i \in 1..committed[p] :
        i <= Len(log[p]) /\ Persisted(p, i)

(* storage.py:275-276: deliveries are persisted before any output, so that *)
(* a crash between two requests cannot bypass the conflict check. No two   *)
(* contents are ever stored for one topic offset, in any table, even if    *)
(* the topic was recreated and its offsets reused. That takes Drained: an  *)
(* INSERT of deliveries that outlives its topic escapes the check.         *)
OneContent ==
    \A t1, t2 \in Table : \A r \in db[t1], s \in db[t2] :
        SameOffset(r, s) => r.record = s.record

(* The condition on whoever recreates topics, which no code ensures: no    *)
(* INSERT that the sink gave up on may still run then (storage.py:144).    *)
Drained == [][Recreates => inflight = {}]_vars

(* Rows of one key come from one partition, so argMax(output_offset) never *)
(* compares offsets of two partitions (docs/delivery-semantics.md:13).     *)
OneRoute ==
    \A r, s \in db["results"] : r.record.key = s.record.key => r.partition = s.partition

(* The row a query shows for a key only ever moves to later offsets of the *)
(* log: late INSERTs, merges, replaced workers and redelivery do not bring *)
(* an older value back or lose the key.                                    *)
ShownMovesForward ==
    [][\A k \in Key : \A r \in Shown(k) :
         \E s \in Shown(k)' : s.partition = r.partition /\ s.offset >= r.offset]_vars

(* Everything produced is stored in the end, although a worker left behind *)
(* by a rebalance repeats its batch for ever.                              *)
AllPersisted ==
    <>[](\A p \in Partition : \A i \in 1..Len(log[p]) : Persisted(p, i))
=============================================================================
