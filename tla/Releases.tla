------------------------------- MODULE Releases -------------------------------
(***************************************************************************)
(* Publication of result releases: the PostgreSQL tables releases,         *)
(* active_release and release_audit, and the processes that change them.   *)
(*                                                                         *)
(*  - a publisher is one "replay --publish --activate" process of cli.py:  *)
(*    it reads the active release as its baseline, registers a new release,*)
(*    publishes a complete snapshot in one Kafka transaction, waits until  *)
(*    ClickHouse shows exactly that snapshot, marks the release validated  *)
(*    and activates it;                                                    *)
(*  - an operator calls activate through the API or the CLI, at any time   *)
(*    and for any release, and runs the smoke test that validates the live *)
(*    release.                                                             *)
(*                                                                         *)
(* A statement outside a transaction block is one step. releases.activate  *)
(* is one transaction of four statements: each is a step, its writes show  *)
(* at the commit, and a lost connection rolls it back. A metric row is its *)
(* key: values never decide which release is served.                       *)
(***************************************************************************)
EXTENDS Naturals, Sequences

CONSTANTS
    Release,     \* release identifiers
    Live,        \* the release the streaming jobs write, "live-v1"
    Publisher,   \* replay processes
    Operator,    \* callers of activate
    Key,         \* metric keys a snapshot can hold
    None,        \* no release, no process
    MaxAudit     \* bound: operators start no activation beyond this length

ASSUME LiveAssumption  == Live \in Release
ASSUME NoneAssumption  == None \notin Release \cup Publisher \cup Operator
ASSUME ActorAssumption == Publisher \cap Operator = {}
ASSUME AuditAssumption == MaxAudit \in Nat

VARIABLES
    status,      \* releases.status, "absent" before the INSERT
    pointer,     \* active_release.release_id, None while the table is empty
    audit,       \* release_audit, in id order
    lock,        \* holder of pg_advisory_xact_lock(710021)
    topic,       \* keys committed to the release's results topic
    sink,        \* keys ClickHouse.snapshots returns for the release
    pc,          \* where each process stands
    target,      \* the release a process works for
    snap,        \* keys of the snapshot a publisher computed
    base,        \* keys of the baseline snapshot it read
    old          \* the active release a process read

vars == <<status, pointer, audit, lock, topic, sink, pc, target, snap, base, old>>

tables  == <<status, pointer, audit>>
streams == <<topic, sink>>
locals  == <<snap, base>>

Actor     == Publisher \cup Operator
Servable  == {"validated", "retired", "active"}
Status    == Servable \cup {"absent", "building", "failed"}
InTransaction == {"readTarget", "readPointer", "swap"}
Publishing    == {"publish", "markFailed", "wait", "validate"}
Step      == {"start", "baseline", "register", "lock", "end"}
                 \cup Publishing \cup InTransaction

(* The process is over: a publisher exits, an operator may call again.     *)
Idle(a) == IF a \in Publisher THEN "end" ELSE "start"

(* The rows a replay release publishes: its snapshot and a zero row for    *)
(* every baseline key the snapshot lacks.                                  *)
Rows(p) == snap[p] \cup base[p]

(* SELECT ... FOR UPDATE: another process's open transaction holds the row.*)
RowLocked(r)  == \E a \in Actor : pc[a] \in {"readPointer", "swap"} /\ target[a] = r
PointerLocked == pointer # None /\ \E a \in Actor : pc[a] = "swap"

Init ==
    /\ status  = [r \in Release |-> IF r = Live THEN "building" ELSE "absent"]
    /\ pointer = None
    /\ audit   = <<>>
    /\ lock    = None
    /\ topic   = [r \in Release |-> {}]
    /\ sink    = [r \in Release |-> {}]
    /\ pc      = [a \in Actor |-> "start"]
    /\ target  = [a \in Actor |-> None]
    /\ old     = [a \in Actor |-> None]
    /\ snap    = [p \in Publisher |-> {}]
    /\ base    = [p \in Publisher |-> {}]

Goto(a, l) == pc' = [pc EXCEPT ![a] = l]

-----------------------------------------------------------------------------
(* Wrong variants of steps below: each property is checked to notice one.  *)

(* INSERT ... ON CONFLICT DO UPDATE instead of a primary key violation.    *)
UpsertRegister(p, r) ==
    /\ pc[p] = "register"
    /\ status' = [status EXCEPT ![r] = "building"]
    /\ target' = [target EXCEPT ![p] = r]
    /\ Goto(p, "publish")
    /\ UNCHANGED <<pointer, audit, lock, streams, locals, old>>

(* The wait accepts a sink that shows no wrong row but not yet every row.  *)
PartialSnapshotVisible(p) ==
    /\ pc[p] = "wait"
    /\ sink[target[p]] \subseteq Rows(p)
    /\ Goto(p, "validate")
    /\ UNCHANGED <<tables, lock, streams, target, locals, old>>

(* No advisory lock: only row locks order two activations.                 *)
TakeNoLock(a) ==
    /\ pc[a] = "lock"
    /\ lock' = a
    /\ Goto(a, "readTarget")
    /\ UNCHANGED <<tables, streams, target, locals, old>>

(* A session lock instead of a transaction lock: a rejection keeps it.     *)
RejectKeepsLock(a) ==
    /\ pc[a] = "readTarget"
    /\ status[target[a]] \notin Servable
    /\ Goto(a, Idle(a))
    /\ UNCHANGED <<tables, lock, streams, target, locals, old>>

(* No early return when the release is active already.                     *)
ReadPointerAlways(a) ==
    /\ pc[a] = "readPointer"
    /\ ~PointerLocked
    /\ old' = [old EXCEPT ![a] = pointer]
    /\ Goto(a, "swap")
    /\ UNCHANGED <<tables, lock, streams, target, locals>>

(* A status the CHECK constraint of the table does not know.               *)
SwappedOut(from, to) ==
    [r \in Release |-> CASE r = to   -> "active"
                         [] r = from /\ r # to -> "inactive"
                         [] OTHER    -> status[r]]

-----------------------------------------------------------------------------
(* The streaming job and the sink worker, as publication sees them.        *)

LiveResult(k) ==
    /\ topic' = [topic EXCEPT ![Live] = @ \cup {k}]
    /\ UNCHANGED <<tables, lock, sink, pc, target, locals, old>>

SinkDelivers(r, k) ==
    /\ k \in topic[r]
    /\ sink' = [sink EXCEPT ![r] = @ \cup {k}]
    /\ UNCHANGED <<tables, lock, topic, pc, target, locals, old>>

-----------------------------------------------------------------------------
(* A publisher.                                                            *)

(* calculate() has produced the snapshot; releases.active() is read.       *)
ReadActive(p, K) ==
    /\ pc[p] = "start"
    /\ snap' = [snap EXCEPT ![p] = K]
    /\ old'  = [old EXCEPT ![p] = pointer]
    /\ Goto(p, "baseline")
    /\ UNCHANGED <<tables, lock, streams, target, base>>

(* db.snapshots(old)["metrics"] if old else []                             *)
ReadBaseline(p) ==
    /\ pc[p] = "baseline"
    /\ base' = [base EXCEPT ![p] = IF old[p] = None THEN {} ELSE sink[old[p]]]
    /\ Goto(p, "register")
    /\ UNCHANGED <<tables, lock, streams, target, snap, old>>

(* INSERT INTO releases: the primary key refuses a name already taken.     *)
Register(p, r) ==
    /\ pc[p] = "register"
    /\ status[r] = "absent"
    /\ status' = [status EXCEPT ![r] = "building"]
    /\ target' = [target EXCEPT ![p] = r]
    /\ Goto(p, "publish")
    /\ UNCHANGED <<pointer, audit, lock, streams, locals, old>>

RegisterTaken(p, r) ==
    /\ pc[p] = "register"
    /\ status[r] # "absent"
    /\ Goto(p, Idle(p))
    /\ UNCHANGED <<tables, lock, streams, target, locals, old>>

(* create_topics or init_transactions raises, outside the try block: the   *)
(* release stays building.                                                 *)
PublishUnreachable(p) ==
    /\ pc[p] = "publish"
    /\ Goto(p, Idle(p))
    /\ UNCHANGED <<tables, lock, streams, target, locals, old>>

PublishCommits(p) ==
    /\ pc[p] = "publish"
    /\ topic' = [topic EXCEPT ![target[p]] = Rows(p)]
    /\ Goto(p, "wait")
    /\ UNCHANGED <<tables, lock, sink, target, locals, old>>

(* The transaction fails and abort_transaction succeeds.                   *)
PublishAborts(p) ==
    /\ pc[p] = "publish"
    /\ Goto(p, "markFailed")
    /\ UNCHANGED <<tables, lock, streams, target, locals, old>>

(* commit_transaction(120) times out although the broker commits: the      *)
(* abort that follows raises too, so the status is never written.          *)
PublishAmbiguous(p) ==
    /\ pc[p] = "publish"
    /\ topic' = [topic EXCEPT ![target[p]] = Rows(p)]
    /\ Goto(p, Idle(p))
    /\ UNCHANGED <<tables, lock, sink, target, locals, old>>

(* UPDATE releases SET status='failed', whatever the status is.            *)
MarkFailed(p) ==
    /\ pc[p] = "markFailed"
    /\ ~RowLocked(target[p])
    /\ status' = [status EXCEPT ![target[p]] = "failed"]
    /\ Goto(p, Idle(p))
    /\ UNCHANGED <<pointer, audit, lock, streams, target, locals, old>>

(* wait_for_snapshot: the sink shows exactly the published rows.           *)
SnapshotVisible(p) ==
    /\ pc[p] = "wait"
    /\ sink[target[p]] = Rows(p)
    /\ Goto(p, "validate")
    /\ UNCHANGED <<tables, lock, streams, target, locals, old>>

SnapshotTimeout(p) ==
    /\ pc[p] = "wait"
    /\ Goto(p, Idle(p))
    /\ UNCHANGED <<tables, lock, streams, target, locals, old>>

(* UPDATE ... WHERE status='building'; no row updated raises.              *)
MarkValidated(p) ==
    /\ pc[p] = "validate"
    /\ ~RowLocked(target[p])
    /\ IF status[target[p]] = "building"
         THEN /\ status' = [status EXCEPT ![target[p]] = "validated"]
              /\ Goto(p, "lock")
         ELSE /\ UNCHANGED status
              /\ Goto(p, Idle(p))
    /\ UNCHANGED <<pointer, audit, lock, streams, target, locals, old>>

-----------------------------------------------------------------------------
(* An operator.                                                            *)

CallActivate(o, r) ==
    /\ pc[o] = "start"
    /\ Len(audit) < MaxAudit
    /\ target' = [target EXCEPT ![o] = r]
    /\ Goto(o, "lock")
    /\ UNCHANGED <<tables, lock, streams, locals, old>>

(* The smoke test reconciled the live release: mark_validated, then        *)
(* activate.                                                               *)
ValidateLive(o) ==
    /\ pc[o] = "start"
    /\ status[Live] = "building"
    /\ ~RowLocked(Live)
    /\ status' = [status EXCEPT ![Live] = "validated"]
    /\ target' = [target EXCEPT ![o] = Live]
    /\ Goto(o, "lock")
    /\ UNCHANGED <<pointer, audit, lock, streams, locals, old>>

-----------------------------------------------------------------------------
(* releases.activate, for either kind of process.                          *)

TakeLock(a) ==
    /\ pc[a] = "lock"
    /\ lock = None
    /\ lock' = a
    /\ Goto(a, "readTarget")
    /\ UNCHANGED <<tables, streams, target, locals, old>>

ReadTarget(a) ==
    /\ pc[a] = "readTarget"
    /\ status[target[a]] \in Servable
    /\ ~RowLocked(target[a])
    /\ Goto(a, "readPointer")
    /\ UNCHANGED <<tables, lock, streams, target, locals, old>>

(* ValueError leaves the transaction block: rollback, the lock is free.    *)
RejectTarget(a) ==
    /\ pc[a] = "readTarget"
    /\ status[target[a]] \notin Servable
    /\ lock' = None
    /\ Goto(a, Idle(a))
    /\ UNCHANGED <<tables, streams, target, locals, old>>

ReadPointer(a) ==
    /\ pc[a] = "readPointer"
    /\ ~PointerLocked
    /\ pointer # target[a]
    /\ old' = [old EXCEPT ![a] = pointer]
    /\ Goto(a, "swap")
    /\ UNCHANGED <<tables, lock, streams, target, locals>>

(* The release is active already: "changed": False.                        *)
AlreadyActive(a) ==
    /\ pc[a] = "readPointer"
    /\ ~PointerLocked
    /\ pointer = target[a]
    /\ lock' = None
    /\ Goto(a, Idle(a))
    /\ UNCHANGED <<tables, streams, target, locals, old>>

(* The statuses after the two UPDATEs of one activation.                   *)
Swapped(from, to) ==
    [r \in Release |-> CASE r = to   -> "active"
                         [] r = from /\ r # to -> "retired"
                         [] OTHER    -> status[r]]

CommitSwap(a) ==
    /\ pc[a] = "swap"
    /\ status'  = Swapped(old[a], target[a])
    /\ pointer' = target[a]
    /\ audit'   = Append(audit, [previous |-> old[a], next |-> target[a]])
    /\ lock'    = None
    /\ Goto(a, Idle(a))
    /\ UNCHANGED <<streams, target, locals, old>>

(* The process or its connection dies: an open transaction rolls back.     *)
Crash(a) ==
    /\ pc[a] \notin {"start", "end"}
    /\ lock' = IF lock = a THEN None ELSE lock
    /\ Goto(a, Idle(a))
    /\ UNCHANGED <<tables, streams, target, locals, old>>

-----------------------------------------------------------------------------
Activation(a) == \/ TakeLock(a) \/ ReadTarget(a) \/ RejectTarget(a)
                 \/ ReadPointer(a) \/ AlreadyActive(a) \/ CommitSwap(a)

Publish(p) ==
    \/ \E K \in SUBSET Key : ReadActive(p, K)
    \/ ReadBaseline(p)
    \/ \E r \in Release : Register(p, r) \/ RegisterTaken(p, r)
    \/ PublishUnreachable(p) \/ PublishCommits(p)
    \/ PublishAborts(p) \/ PublishAmbiguous(p) \/ MarkFailed(p)
    \/ SnapshotVisible(p) \/ SnapshotTimeout(p) \/ MarkValidated(p)

Operate(o) == ValidateLive(o) \/ \E r \in Release : CallActivate(o, r)

Results == \E k \in Key : \/ LiveResult(k)
                          \/ \E r \in Release : SinkDelivers(r, k)

Next == \/ Results
        \/ \E p \in Publisher : Publish(p)
        \/ \E o \in Operator : Operate(o)
        \/ \E a \in Actor : Activation(a) \/ Crash(a)

Spec == Init /\ [][Next]_vars

(* PostgreSQL answers every statement of an open transaction; a process    *)
(* need not reach one, and a publisher may wait for ever to be served.     *)
FairSpec == Spec /\ \A a \in Actor : WF_vars(Activation(a))

-----------------------------------------------------------------------------
(* Types of every variable.                                                *)
TypeOK ==
    /\ status  \in [Release -> Status]
    /\ pointer \in Release \cup {None}
    /\ audit   \in Seq([previous : Release \cup {None}, next : Release])
    /\ lock    \in Actor \cup {None}
    /\ topic   \in [Release -> SUBSET Key]
    /\ sink    \in [Release -> SUBSET Key]
    /\ pc      \in [Actor -> Step]
    /\ target  \in [Actor -> Release \cup {None}]
    /\ old     \in [Actor -> Release \cup {None}]
    /\ snap    \in [Publisher -> SUBSET Key]
    /\ base    \in [Publisher -> SUBSET Key]

(* However activations, rollbacks, crashes and failed publications         *)
(* interleave, the status column and the pointer table agree: exactly the  *)
(* release the pointer names is 'active'. The first activations race with  *)
(* no pointer row to lock (releases.py:59-60).                             *)
OneActive == \A r \in Release : status[r] = "active" <=> pointer = r

(* release_audit is an unbroken history of the pointer: every entry starts *)
(* at the release the one before it activated, each one is a change, and   *)
(* the last one names the active release.                                  *)
AuditChain ==
    /\ pointer = IF audit = <<>> THEN None ELSE audit[Len(audit)].next
    /\ \A i \in 1..Len(audit) :
         /\ audit[i].previous = IF i = 1 THEN None ELSE audit[i - 1].next
         /\ audit[i].next # audit[i].previous

(* A replay release that can be served shows in ClickHouse all the rows    *)
(* its publisher committed, and no other: no timeout, ambiguous commit,    *)
(* retry of the name or concurrent publication lets a partial snapshot     *)
(* through the building -> validated gate.                                 *)
ServableComplete ==
    \A p \in Publisher :
        target[p] # None /\ status[target[p]] \in Servable
            => sink[target[p]] = Rows(p) /\ topic[target[p]] = Rows(p)

(* A release that became servable never stops being so: the unconditional  *)
(* UPDATE ... status='failed' of publish_snapshot cannot hit it, and a     *)
(* cursor pinned to it keeps being answered.                               *)
ServableStays ==
    [][\A r \in Release : status[r] \in Servable => status'[r] \in Servable]_vars

(* What a servable replay release shows never changes: cursors that pin    *)
(* a release traverse a fixed set of rows across pointer switches.         *)
ServedRowsFrozen ==
    [][\A r \in Release \ {Live} :
         status[r] \in Servable => sink'[r] = sink[r]]_vars

(* The advisory lock is released again, whether its holder swaps the       *)
(* pointer, is rejected, finds its release active, or dies: one activation *)
(* that ends early never blocks all later ones and every rollback.         *)
LockFreed == lock # None ~> lock = None

(* docs/delivery-semantics.md:19 and README.md:85: a new release carries   *)
(* a zero row for every key that its predecessor showed and it lacks.      *)
PredecessorZeroed ==
    [][\A r \in Release \ {Live} :
         /\ pointer' = r
         /\ pointer \in Release \ {Live}
         /\ status[r] = "validated"
         => sink[pointer] \subseteq sink[r]]_vars
=============================================================================
