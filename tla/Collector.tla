------------------------------- MODULE Collector -------------------------------
(***************************************************************************)
(* collector.py: requests handled by threads that share one transactional  *)
(* Kafka producer under a lock. A batch is answered 202 when one           *)
(* transaction with its raw records and its receipt manifest is committed, *)
(* and 503 when anything raised; then the client sends the same events     *)
(* again, which become a new batch.                                        *)
(*                                                                         *)
(* The producer is librdkafka's: begin raises unless it is ready; an abort *)
(* may raise; a commit may raise before the broker decided, or without an  *)
(* answer while the broker may still commit, and then the producer is      *)
(* stuck until the process restarts.                                       *)
(***************************************************************************)
EXTENDS Naturals, Sequences

CONSTANTS
    Client,       \* each sends one batch until it is answered 202
    Sends,        \* [Client -> sequence of events]
    MaxBatches,   \* bound: calls of accept
    MaxCrashes,   \* bound: restarts of the collector
    None

VARIABLES
    sender,     \* client of each batch so far, by batch_id
    phase,      \* what the thread of the batch does next
    answer,     \* status the client saw
    lock,
    producer,   \* "ready", "open" or "stuck"
    pending,    \* receipts and manifests of the open transaction
    raw,        \* committed raw records, in order
    manifests,  \* batches whose manifest is committed
    crashes

collectorVars == <<sender, phase, answer, lock, producer, pending, raw, manifests, crashes>>

Batch == DOMAIN sender
Holding == {"produce", "commit", "abort"}
Nothing == [receipts |-> <<>>, manifests |-> {}]

Produced(b) == [i \in DOMAIN Sends[sender[b]] |-> <<b, i>>]
Receipts(b) == {<<b, i>> : i \in DOMAIN Sends[sender[b]]}
Packet(r) == [receipt |-> r, event |-> Sends[sender[r[1]]][r[2]]]

CollectorInit ==
    /\ sender = <<>> /\ phase = <<>> /\ answer = <<>>
    /\ lock = None /\ producer = "ready" /\ pending = Nothing
    /\ raw = <<>> /\ manifests = {} /\ crashes = 0

-----------------------------------------------------------------------------
(* Clients.                                                                *)

(* A client waits for its answer or for the connection to break. Requests  *)
(* answered 4xx (too large, no JSON, no or too many events) change nothing.*)
Post(c) ==
    /\ Len(sender) < MaxBatches
    /\ \A b \in Batch : sender[b] = c => phase[b] = "done" /\ answer[b] # "202"
    /\ sender' = Append(sender, c)
    /\ phase' = Append(phase, "wait")
    /\ answer' = Append(answer, None)
    /\ UNCHANGED <<lock, producer, pending, raw, manifests, crashes>>

-----------------------------------------------------------------------------
(* accept(), with the lock.                                                *)

GoesTo(b, next) == phase' = [phase EXCEPT ![b] = next]

(* The lock is taken, and then the transaction begun.                      *)
Locks(b) == phase[b] = "wait" /\ lock = None /\ lock' = b

Begin(b) ==
    /\ Locks(b) /\ producer = "ready"
    /\ producer' = "open" /\ GoesTo(b, "produce")
    /\ UNCHANGED <<sender, answer, pending, raw, manifests, crashes>>

BeginRaisesTo(b, next) ==
    /\ Locks(b) /\ producer # "ready"
    /\ GoesTo(b, next)
    /\ UNCHANGED <<sender, answer, producer, pending, raw, manifests, crashes>>

(* Wrong variant: the transaction found open is used.                      *)
BeginIgnored(b) == BeginRaisesTo(b, "produce")

BeginRaises(b) == BeginRaisesTo(b, "abort")

Produces(b, receipts, next) ==
    /\ phase[b] = "produce" /\ GoesTo(b, next)
    /\ pending' = [pending EXCEPT !.receipts = @ \o receipts]
    /\ UNCHANGED <<sender, answer, lock, producer, raw, manifests, crashes>>

Deliver(b) == Produces(b, Produced(b), "commit")

(* Some records fail, or are not delivered when flush gives up.            *)
DeliverFails(b) ==
    \E m \in 0..(Len(Produced(b)) - 1) : \E delivered \in [1..m -> Receipts(b)] :
        /\ \A i, j \in 1..m : i < j => delivered[i][2] < delivered[j][2]
        /\ Produces(b, delivered, "abort")

WithManifest(b) == [pending EXCEPT !.manifests = @ \cup {b}]

BrokerCommits(transaction) ==
    /\ raw' = raw \o [n \in DOMAIN transaction.receipts |-> Packet(transaction.receipts[n])]
    /\ manifests' = manifests \cup transaction.manifests
    /\ pending' = Nothing

Answers(b, status) ==
    /\ GoesTo(b, "done") /\ answer' = [answer EXCEPT ![b] = status] /\ lock' = None

Commit(b) ==
    /\ phase[b] = "commit"
    /\ BrokerCommits(WithManifest(b))
    /\ producer' = "ready" /\ Answers(b, "202")
    /\ UNCHANGED <<sender, crashes>>

CommitRaises(b) ==
    /\ phase[b] = "commit" /\ GoesTo(b, "abort")
    /\ pending' = WithManifest(b)
    /\ UNCHANGED <<sender, answer, lock, producer, raw, manifests, crashes>>

CommitUnanswered(b) ==
    /\ phase[b] = "commit" /\ GoesTo(b, "abort")
    /\ pending' = WithManifest(b) /\ producer' = "stuck"
    /\ UNCHANGED <<sender, answer, lock, raw, manifests, crashes>>

Abort(b) ==
    /\ phase[b] = "abort" /\ producer = "open"
    /\ producer' = "ready" /\ pending' = Nothing /\ Answers(b, "503")
    /\ UNCHANGED <<sender, raw, manifests, crashes>>

(* The error of the abort is dropped, the first one raised again.          *)
AbortRaises(b) ==
    /\ phase[b] = "abort" /\ Answers(b, "503")
    /\ UNCHANGED <<sender, producer, pending, raw, manifests, crashes>>

-----------------------------------------------------------------------------
(* The broker carries out a commit nobody waits for any more.              *)
LateCommit ==
    /\ producer = "stuck" /\ pending # Nothing
    /\ BrokerCommits(pending)
    /\ UNCHANGED <<sender, phase, answer, lock, producer, crashes>>

(* init_transactions of the next process aborts what is open. A commit it  *)
(* completes instead is a LateCommit before it.                            *)
Crash ==
    /\ crashes < MaxCrashes
    /\ crashes' = crashes + 1
    /\ phase' = [b \in Batch |-> "done"]
    /\ lock' = None /\ producer' = "ready" /\ pending' = Nothing
    /\ UNCHANGED <<sender, answer, raw, manifests>>

Accept(b) ==
    \/ Begin(b) \/ BeginRaises(b) \/ Deliver(b) \/ DeliverFails(b)
    \/ Commit(b) \/ CommitRaises(b) \/ CommitUnanswered(b) \/ Abort(b) \/ AbortRaises(b)

CollectorNext ==
    \/ \E c \in Client : Post(c)
    \/ \E b \in Batch : Accept(b)
    \/ LateCommit \/ Crash

-----------------------------------------------------------------------------
(* The types; the thread that holds the lock is the one that uses the      *)
(* producer, which is open or stuck whenever something is pending.         *)
CollectorTypeOK ==
    /\ sender \in Seq(Client) /\ Len(sender) <= MaxBatches
    /\ DOMAIN phase = Batch /\ DOMAIN answer = Batch
    /\ \A b \in Batch : /\ phase[b] \in {"wait", "done"} \cup Holding
                        /\ phase[b] \in Holding <=> lock = b
                        /\ answer[b] \in {None, "202", "503"}
    /\ lock \in Batch \cup {None} /\ producer \in {"ready", "open", "stuck"}
    /\ producer = "ready" => pending = Nothing
    /\ manifests \subseteq Batch /\ crashes \in 0..MaxCrashes

(* Raw records become readable together with their manifest, all of a      *)
(* batch and each once: no failed begin, flush, commit or abort before     *)
(* leaves some of them in a later transaction (collector.py:51-73).        *)
RawHasManifest ==
    /\ {raw[n].receipt : n \in DOMAIN raw} = UNION {Receipts(b) : b \in manifests}
    /\ \A n, m \in DOMAIN raw : raw[n].receipt = raw[m].receipt => n = m
=============================================================================
