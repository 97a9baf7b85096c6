---------------------------- MODULE ReleasesProofs ----------------------------
(* Proofs about Releases for any number of releases, publishers, operators *)
(* and keys.                                                               *)
EXTENDS Releases, TLAPS

-----------------------------------------------------------------------------
(* The inductive invariant.                                                *)

(* The advisory lock is held exactly while a transaction is open.          *)
LockHeld == \A a \in Actor : pc[a] \in InTransaction <=> lock = a

(* Who works for a release has one.                                        *)
TargetKnown ==
    \A a \in Actor : pc[a] \in {"lock"} \cup InTransaction \cup Publishing
                        => target[a] \in Release

(* A publisher has no release before the INSERT; the one it gets then is   *)
(* its own and is not the live one.                                        *)
TargetOwn ==
    /\ status[Live] # "absent"
    /\ \A p \in Publisher :
         /\ pc[p] \in {"start", "baseline", "register"} => target[p] = None
         /\ target[p] # Live
         /\ target[p] # None => status[target[p]] # "absent"
         /\ \A q \in Publisher : target[p] = target[q] /\ target[p] # None => p = q

(* Nobody else moves a release while its publisher is at work.             *)
StillBuilding == \A p \in Publisher : pc[p] \in Publishing => status[target[p]] = "building"

(* What an open activation has read still holds.                           *)
ReadsCurrent ==
    \A a \in Actor :
      /\ pc[a] \in {"readPointer", "swap"} => status[target[a]] \in Servable
      /\ pc[a] = "swap" => old[a] = pointer /\ pointer # target[a]

(* A replay topic is empty until the one transaction that fills it.        *)
TopicFilledOnce ==
    /\ \A r \in Release : sink[r] \subseteq topic[r]
    /\ \A r \in Release : status[r] = "absent" => topic[r] = {}
    /\ \A p \in Publisher :
         /\ pc[p] = "publish" => topic[target[p]] = {}
         /\ pc[p] \in {"wait", "validate"} => topic[target[p]] = Rows(p)
         /\ pc[p] = "validate" => sink[target[p]] = Rows(p)

(* A servable replay release shows its whole topic.                        *)
ServableDrained ==
    \A r \in Release \ {Live} : status[r] \in Servable => sink[r] = topic[r]

ProcessInv == LockHeld /\ TargetKnown /\ TargetOwn /\ StillBuilding /\ ReadsCurrent
TableInv   == OneActive /\ AuditChain
StreamInv  == TopicFilledOnce /\ ServableDrained /\ ServableComplete
Inv        == TypeOK /\ ProcessInv /\ TableInv /\ StreamInv

-----------------------------------------------------------------------------
(* A process that ends is at its start or its end.                         *)
LEMMA IdleStep == \A a \in Actor : /\ Idle(a) \in {"start", "end"}
                                   /\ a \in Publisher => Idle(a) = "end"
BY DEF Idle

(* Every variable keeps its type: TypeOK is inductive on its own but for   *)
(* the targets of processes at work, which TargetKnown gives.              *)
LEMMA TypeStep ==
    ASSUME TypeOK, TargetKnown, [Next]_vars
    PROVE  TypeOK'
<1> USE LiveAssumption, IdleStep
        DEF TypeOK, TargetKnown, Goto, tables, streams, locals, Status, Servable, Step,
            Publishing, InTransaction, Actor, Rows
<1>1. CASE UNCHANGED vars
  BY <1>1 DEF vars
<1>2. ASSUME NEW k \in Key, LiveResult(k) PROVE TypeOK'
  BY <1>2 DEF LiveResult
<1>3. ASSUME NEW r \in Release, NEW k \in Key, SinkDelivers(r, k) PROVE TypeOK'
  BY <1>3 DEF SinkDelivers
<1>4. ASSUME NEW p \in Publisher, Publish(p) PROVE TypeOK'
  <2>1. ASSUME NEW K \in SUBSET Key, ReadActive(p, K) PROVE TypeOK'
    BY <2>1 DEF ReadActive
  <2>2. CASE ReadBaseline(p)
    BY <2>2 DEF ReadBaseline
  <2>3. ASSUME NEW r \in Release, Register(p, r) PROVE TypeOK'
    BY <2>3 DEF Register
  <2>7. ASSUME NEW r \in Release, RegisterTaken(p, r) PROVE TypeOK'
    BY <2>7 DEF RegisterTaken
  <2>4. CASE PublishCommits(p) \/ PublishAmbiguous(p)
    BY <2>4 DEF PublishCommits, PublishAmbiguous
  <2>5. CASE PublishUnreachable(p) \/ PublishAborts(p) \/ SnapshotVisible(p) \/ SnapshotTimeout(p)
    BY <2>5 DEF PublishUnreachable, PublishAborts, SnapshotVisible, SnapshotTimeout
  <2>6. CASE MarkFailed(p) \/ MarkValidated(p)
    BY <2>6 DEF MarkFailed, MarkValidated
  <2> QED BY <1>4, <2>1, <2>2, <2>3, <2>4, <2>5, <2>6, <2>7 DEF Publish
<1>5. ASSUME NEW o \in Operator, Operate(o) PROVE TypeOK'
  <2>1. CASE ValidateLive(o)
    BY <2>1 DEF ValidateLive
  <2>2. ASSUME NEW r \in Release, CallActivate(o, r) PROVE TypeOK'
    BY <2>2 DEF CallActivate
  <2> QED BY <1>5, <2>1, <2>2 DEF Operate
<1>6. ASSUME NEW a \in Actor, Activation(a) PROVE TypeOK'
  <2>1. CASE CommitSwap(a)
    <3>1. target[a] \in Release
      BY <2>1 DEF CommitSwap
    <3>2. Swapped(old[a], target[a]) \in [Release -> Status]
      BY <3>1 DEF Swapped
    <3> QED BY <2>1, <3>1, <3>2 DEF CommitSwap
  <2>2. CASE TakeLock(a) \/ ReadTarget(a) \/ RejectTarget(a)
    BY <2>2 DEF TakeLock, ReadTarget, RejectTarget
  <2>3. CASE ReadPointer(a) \/ AlreadyActive(a)
    BY <2>3 DEF ReadPointer, AlreadyActive
  <2> QED BY <1>6, <2>1, <2>2, <2>3 DEF Activation
<1>7. ASSUME NEW a \in Actor, Crash(a) PROVE TypeOK'
  BY <1>7 DEF Crash
<1> QED BY <1>1, <1>2, <1>3, <1>4, <1>5, <1>6, <1>7 DEF Next, Results

-----------------------------------------------------------------------------
(* The invariant holds in the initial state.                               *)
LEMMA InvInit == Init => Inv
<1> SUFFICES ASSUME Init PROVE Inv
  OBVIOUS
<1>1. TypeOK
  BY LiveAssumption DEF Init, TypeOK, Status, Servable, Step, Publishing, InTransaction
<1>2. ProcessInv
  BY LiveAssumption, NoneAssumption
     DEF Init, ProcessInv, LockHeld, TargetKnown, TargetOwn, StillBuilding, ReadsCurrent,
         Publishing, InTransaction, Actor
<1>3. TableInv
  BY NoneAssumption DEF Init, TableInv, OneActive, AuditChain
<1>4. StreamInv
  BY NoneAssumption
     DEF Init, StreamInv, TopicFilledOnce, ServableDrained, ServableComplete, Actor
<1> QED BY <1>1, <1>2, <1>3, <1>4 DEF Inv

(* Every step preserves it. ProcessInv carries the argument: the advisory  *)
(* lock keeps what an activation has read current until it commits, and    *)
(* the primary key of releases makes a publisher the only one to write the *)
(* status of the release it is building.                                   *)
LEMMA InvStep ==
    ASSUME Inv, [Next]_vars
    PROVE  Inv'
<1> USE LiveAssumption, NoneAssumption, ActorAssumption, IdleStep
        DEF Inv, ProcessInv, TableInv, StreamInv, TypeOK, LockHeld, TargetKnown, TargetOwn,
            StillBuilding, ReadsCurrent, OneActive, AuditChain, TopicFilledOnce,
            ServableDrained, ServableComplete, Goto, tables, streams, locals, Status, Servable,
            Step, Publishing, InTransaction, Actor, Rows
<1>0. TypeOK'
  BY TypeStep
<1>1. CASE UNCHANGED vars
  <2>1. ProcessInv'
    BY <1>1 DEF vars
  <2>2. TableInv'
    BY <1>1 DEF vars
  <2>3. StreamInv'
    BY <1>1 DEF vars
  <2> QED BY <2>1, <2>2, <2>3, <1>0 DEF Inv
<1>2. ASSUME NEW k \in Key, LiveResult(k) PROVE Inv'
  <2>1. ProcessInv'
    BY <1>2 DEF LiveResult
  <2>2. TableInv'
    BY <1>2 DEF LiveResult
  <2>3. StreamInv'
    BY <1>2 DEF LiveResult
  <2> QED BY <2>1, <2>2, <2>3, <1>0 DEF Inv
<1>3. ASSUME NEW r \in Release, NEW k \in Key, SinkDelivers(r, k) PROVE Inv'
  <2>1. ProcessInv'
    BY <1>3 DEF SinkDelivers
  <2>2. TableInv'
    BY <1>3 DEF SinkDelivers
  <2>3. StreamInv'
    BY <1>3 DEF SinkDelivers
  <2> QED BY <2>1, <2>2, <2>3, <1>0 DEF Inv
<1>4. ASSUME NEW p \in Publisher, Publish(p) PROVE Inv'
  <2>1. ASSUME NEW K \in SUBSET Key, ReadActive(p, K) PROVE Inv'
    <3>1. ProcessInv'
      BY <2>1 DEF ReadActive
    <3>2. TableInv'
      BY <2>1 DEF ReadActive
    <3>3. StreamInv'
      BY <2>1 DEF ReadActive
    <3> QED BY <3>1, <3>2, <3>3, <1>0 DEF Inv
  <2>2. CASE ReadBaseline(p)
    <3>1. ProcessInv'
      BY <2>2 DEF ReadBaseline
    <3>2. TableInv'
      BY <2>2 DEF ReadBaseline
    <3>3. StreamInv'
      BY <2>2 DEF ReadBaseline
    <3> QED BY <3>1, <3>2, <3>3, <1>0 DEF Inv
  <2>3. ASSUME NEW r \in Release, Register(p, r) PROVE Inv'
    <3>1. ProcessInv'
      BY <2>3 DEF Register
    <3>2. TableInv'
      BY <2>3 DEF Register
    <3>3. StreamInv'
      BY <2>3 DEF Register
    <3> QED BY <3>1, <3>2, <3>3, <1>0 DEF Inv
  <2>4. ASSUME NEW r \in Release, RegisterTaken(p, r) PROVE Inv'
    <3>1. ProcessInv'
      BY <2>4 DEF RegisterTaken
    <3>2. TableInv'
      BY <2>4 DEF RegisterTaken
    <3>3. StreamInv'
      BY <2>4 DEF RegisterTaken
    <3> QED BY <3>1, <3>2, <3>3, <1>0 DEF Inv
  <2>5. CASE PublishUnreachable(p)
    <3>1. ProcessInv'
      BY <2>5 DEF PublishUnreachable
    <3>2. TableInv'
      BY <2>5 DEF PublishUnreachable
    <3>3. StreamInv'
      BY <2>5 DEF PublishUnreachable
    <3> QED BY <3>1, <3>2, <3>3, <1>0 DEF Inv
  <2>6. CASE PublishAborts(p)
    <3>1. ProcessInv'
      BY <2>6 DEF PublishAborts
    <3>2. TableInv'
      BY <2>6 DEF PublishAborts
    <3>3. StreamInv'
      BY <2>6 DEF PublishAborts
    <3> QED BY <3>1, <3>2, <3>3, <1>0 DEF Inv
  <2>7. CASE PublishCommits(p)
    <3>1. ProcessInv'
      BY <2>7 DEF PublishCommits
    <3>2. TableInv'
      BY <2>7 DEF PublishCommits
    <3>3. StreamInv'
      BY <2>7 DEF PublishCommits
    <3> QED BY <3>1, <3>2, <3>3, <1>0 DEF Inv
  <2>8. CASE PublishAmbiguous(p)
    <3>1. ProcessInv'
      BY <2>8 DEF PublishAmbiguous
    <3>2. TableInv'
      BY <2>8 DEF PublishAmbiguous
    <3>3. StreamInv'
      BY <2>8 DEF PublishAmbiguous
    <3> QED BY <3>1, <3>2, <3>3, <1>0 DEF Inv
  <2>9. CASE MarkFailed(p)
    <3>1. ProcessInv'
      BY <2>9 DEF MarkFailed
    <3>2. TableInv'
      BY <2>9 DEF MarkFailed
    <3>3. StreamInv'
      BY <2>9 DEF MarkFailed
    <3> QED BY <3>1, <3>2, <3>3, <1>0 DEF Inv
  <2>10. CASE SnapshotVisible(p)
    <3>1. ProcessInv'
      BY <2>10 DEF SnapshotVisible
    <3>2. TableInv'
      BY <2>10 DEF SnapshotVisible
    <3>3. StreamInv'
      BY <2>10 DEF SnapshotVisible
    <3> QED BY <3>1, <3>2, <3>3, <1>0 DEF Inv
  <2>11. CASE SnapshotTimeout(p)
    <3>1. ProcessInv'
      BY <2>11 DEF SnapshotTimeout
    <3>2. TableInv'
      BY <2>11 DEF SnapshotTimeout
    <3>3. StreamInv'
      BY <2>11 DEF SnapshotTimeout
    <3> QED BY <3>1, <3>2, <3>3, <1>0 DEF Inv
  <2>12. CASE MarkValidated(p)
    <3>1. ProcessInv'
      BY <2>12 DEF MarkValidated
    <3>2. TableInv'
      BY <2>12 DEF MarkValidated
    <3>3. StreamInv'
      <4>1. target[p] \in Release /\ topic[target[p]] = Rows(p) /\ sink[target[p]] = Rows(p)
        BY <2>12 DEF MarkValidated
      <4>2. TopicFilledOnce'
        BY <2>12 DEF MarkValidated
      <4>3. ServableDrained'
        <5>1. sink[target[p]] = topic[target[p]]
          BY <4>1
        <5>2. \A r \in Release : r # target[p] => status'[r] = status[r]
          BY <2>12, <4>1 DEF MarkValidated
        <5>3. sink' = sink /\ topic' = topic
          BY <2>12 DEF MarkValidated
        <5>4. \A r \in Release \ {Live} : status[r] \in Servable => sink[r] = topic[r]
          OBVIOUS
        <5> HIDE DEF Servable, Inv, StreamInv, ServableDrained
        <5> QED BY ONLY <5>1, <5>2, <5>3, <5>4 DEF ServableDrained
      <4>4. ServableComplete'
        BY <2>12, <4>1 DEF MarkValidated
      <4> QED BY <4>2, <4>3, <4>4
    <3> QED BY <3>1, <3>2, <3>3, <1>0 DEF Inv
  <2> QED BY <1>4, <2>1, <2>2, <2>3, <2>4, <2>5, <2>6, <2>7, <2>8, <2>9, <2>10, <2>11, <2>12 DEF Publish
<1>5. ASSUME NEW o \in Operator, Operate(o) PROVE Inv'
  <2>1. CASE ValidateLive(o)
    <3>1. ProcessInv'
      BY <2>1 DEF ValidateLive
    <3>2. TableInv'
      BY <2>1 DEF ValidateLive
    <3>3. StreamInv'
      BY <2>1 DEF ValidateLive
    <3> QED BY <3>1, <3>2, <3>3, <1>0 DEF Inv
  <2>2. ASSUME NEW r \in Release, CallActivate(o, r) PROVE Inv'
    <3>1. ProcessInv'
      BY <2>2 DEF CallActivate
    <3>2. TableInv'
      BY <2>2 DEF CallActivate
    <3>3. StreamInv'
      BY <2>2 DEF CallActivate
    <3> QED BY <3>1, <3>2, <3>3, <1>0 DEF Inv
  <2> QED BY <1>5, <2>1, <2>2 DEF Operate
<1>6. ASSUME NEW a \in Actor, Activation(a) PROVE Inv'
  <2>1. CASE TakeLock(a)
    <3>1. ProcessInv'
      BY <2>1 DEF TakeLock
    <3>2. TableInv'
      BY <2>1 DEF TakeLock
    <3>3. StreamInv'
      BY <2>1 DEF TakeLock
    <3> QED BY <3>1, <3>2, <3>3, <1>0 DEF Inv
  <2>2. CASE ReadTarget(a)
    <3>1. ProcessInv'
      BY <2>2 DEF ReadTarget
    <3>2. TableInv'
      BY <2>2 DEF ReadTarget
    <3>3. StreamInv'
      BY <2>2 DEF ReadTarget
    <3> QED BY <3>1, <3>2, <3>3, <1>0 DEF Inv
  <2>3. CASE RejectTarget(a)
    <3>1. ProcessInv'
      BY <2>3 DEF RejectTarget
    <3>2. TableInv'
      BY <2>3 DEF RejectTarget
    <3>3. StreamInv'
      BY <2>3 DEF RejectTarget
    <3> QED BY <3>1, <3>2, <3>3, <1>0 DEF Inv
  <2>4. CASE ReadPointer(a)
    <3>1. ProcessInv'
      BY <2>4 DEF ReadPointer
    <3>2. TableInv'
      BY <2>4 DEF ReadPointer
    <3>3. StreamInv'
      BY <2>4 DEF ReadPointer
    <3> QED BY <3>1, <3>2, <3>3, <1>0 DEF Inv
  <2>5. CASE AlreadyActive(a)
    <3>1. ProcessInv'
      BY <2>5 DEF AlreadyActive
    <3>2. TableInv'
      BY <2>5 DEF AlreadyActive
    <3>3. StreamInv'
      BY <2>5 DEF AlreadyActive
    <3> QED BY <3>1, <3>2, <3>3, <1>0 DEF Inv
  <2>6. CASE CommitSwap(a)
    <3>1. ProcessInv'
      BY <2>6 DEF CommitSwap, Swapped
    <3>2. TableInv'
      BY <2>6 DEF CommitSwap, Swapped
    <3>3. StreamInv'
      BY <2>6 DEF CommitSwap, Swapped
    <3> QED BY <3>1, <3>2, <3>3, <1>0 DEF Inv
  <2> QED BY <1>6, <2>1, <2>2, <2>3, <2>4, <2>5, <2>6 DEF Activation
<1>7. ASSUME NEW a \in Actor, Crash(a) PROVE Inv'
  <2>1. ProcessInv'
    BY <1>7 DEF Crash
  <2>2. TableInv'
    BY <1>7 DEF Crash
  <2>3. StreamInv'
    BY <1>7 DEF Crash
  <2> QED BY <2>1, <2>2, <2>3, <1>0 DEF Inv
<1> QED BY <1>1, <1>2, <1>3, <1>4, <1>5, <1>6, <1>7 DEF Next, Results

(* The invariant holds in every reachable state.                           *)
THEOREM InvCorrect == Spec => []Inv
BY InvInit, InvStep, PTL DEF Spec

-----------------------------------------------------------------------------
(* Types of every variable, for every reachable state.                     *)
THEOREM TypeCorrect == Spec => []TypeOK
BY InvCorrect, PTL DEF Inv

(* At most one release is active, and it is the one active_release names,  *)
(* however many activations, rollbacks and publications run at once.       *)
THEOREM OneActiveCorrect == Spec => []OneActive
BY InvCorrect, PTL DEF Inv, TableInv

(* The audit table is an unbroken chain that ends at the active release.   *)
THEOREM AuditChainCorrect == Spec => []AuditChain
BY InvCorrect, PTL DEF Inv, TableInv

(* A replay release that can be served shows exactly what was published.   *)
THEOREM ServableCompleteCorrect == Spec => []ServableComplete
BY InvCorrect, PTL DEF Inv, StreamInv

(* A servable release stays servable: MarkFailed, the only step that could *)
(* end it, hits a release that its publisher is still building.            *)
THEOREM ServableStaysCorrect == Spec => ServableStays
<1>1. ASSUME Inv, [Next]_vars, NEW r \in Release, status[r] \in Servable
      PROVE  status'[r] \in Servable
  <2> USE <1>1 DEF Inv, TypeOK, Servable, tables
  <2>1. CASE UNCHANGED vars
    BY <2>1 DEF vars
  <2>2. CASE Results
    BY <2>2 DEF Results, LiveResult, SinkDelivers
  <2>3. ASSUME NEW p \in Publisher, Publish(p) PROVE status'[r] \in Servable
    <3>1. CASE MarkFailed(p)
      BY <3>1 DEF MarkFailed, ProcessInv, StillBuilding, Publishing
    <3>2. CASE MarkValidated(p)
      BY <3>2 DEF MarkValidated
    <3>3. ASSUME NEW q \in Release, Register(p, q) PROVE status'[r] \in Servable
      BY <3>3 DEF Register
    <3> QED BY <2>3, <3>1, <3>2, <3>3
           DEF Publish, ReadActive, ReadBaseline, RegisterTaken, PublishUnreachable,
               PublishCommits, PublishAborts, PublishAmbiguous, SnapshotVisible, SnapshotTimeout
  <2>4. ASSUME NEW o \in Operator, Operate(o) PROVE status'[r] \in Servable
    BY <2>4 DEF Operate, ValidateLive, CallActivate
  <2>5. ASSUME NEW a \in Actor, Activation(a) PROVE status'[r] \in Servable
    <3>1. CASE CommitSwap(a)
      BY <3>1 DEF CommitSwap, Swapped
    <3> QED BY <2>5, <3>1
           DEF Activation, TakeLock, ReadTarget, RejectTarget, ReadPointer, AlreadyActive
  <2>6. ASSUME NEW a \in Actor, Crash(a) PROVE status'[r] \in Servable
    BY <2>6 DEF Crash
  <2> QED BY <2>1, <2>2, <2>3, <2>4, <2>5, <2>6 DEF Next
<1>2. Inv /\ [Next]_vars => [\A r \in Release : status[r] \in Servable => status'[r] \in Servable]_vars
  BY <1>1
<1> QED BY <1>2, InvCorrect, PTL DEF Spec, ServableStays

(* The rows a servable replay release shows never change: its topic was    *)
(* drained when it was validated and nothing is ever added to it.          *)
THEOREM ServedRowsFrozenCorrect == Spec => ServedRowsFrozen
<1>1. ASSUME Inv, [Next]_vars, NEW r \in Release \ {Live}, status[r] \in Servable
      PROVE  sink'[r] = sink[r]
  <2>1. ASSUME NEW q \in Release, NEW k \in Key, SinkDelivers(q, k) PROVE sink'[r] = sink[r]
    BY <1>1, <2>1 DEF SinkDelivers, Inv, TypeOK, StreamInv, ServableDrained
  <2>2. CASE UNCHANGED sink
    BY <2>2
  <2>3. Next => \/ UNCHANGED sink
                \/ \E q \in Release, k \in Key : SinkDelivers(q, k)
    BY DEF Next, Results, LiveResult, Publish, Operate, Activation, Crash, ReadActive,
           ReadBaseline, Register, RegisterTaken, PublishUnreachable, PublishCommits,
           PublishAborts, PublishAmbiguous, MarkFailed, SnapshotVisible, SnapshotTimeout,
           MarkValidated, ValidateLive, CallActivate, TakeLock, ReadTarget, RejectTarget,
           ReadPointer, AlreadyActive, CommitSwap, streams
  <2> QED BY <1>1, <2>1, <2>2, <2>3 DEF vars
<1>2. Inv /\ [Next]_vars
        => [\A r \in Release \ {Live} : status[r] \in Servable => sink'[r] = sink[r]]_vars
  BY <1>1
<1> QED BY <1>2, InvCorrect, PTL DEF Spec, ServedRowsFrozen
=============================================================================
