---------------------------- MODULE ScalerProofs ----------------------------
(***************************************************************************)
(* The hosts that run are accounted for, whatever limit, number of slots and *)
(* number of faults: none but those that faults explain is unknown to the   *)
(* server, and the limit bounds what is paid for.                           *)
(***************************************************************************)
EXTENDS Ec2Scaler, FiniteSetTheorems, TLAPS

\* What ScalerInv says of the place in the tick.
Shape ==
  /\ pc = "pending" => todo \subseteq WithStatus("pending")
  /\ pc \in {"insert", "undo", "record"} <=> hand # NoHost
  /\ pc = "record" => host[hand] = "gone"

NoLess == \A k \in FaultKind : faults'[k] \in Nat /\ faults'[k] >= faults[k]

OneMore(kind) == NoLess /\ faults'[kind] = faults[kind] + 1

-----------------------------------------------------------------------------
(* Counting.                                                                *)

LEMMA HostsFinite ==
  ASSUME NEW S \in SUBSET Host
  PROVE  IsFiniteSet(S) /\ Cardinality(S) \in Nat
BY ScalerAssumption, FS_Subset, FS_CardinalityType

LEMMA NoSuchHost == NoHost \notin Host /\ MaxInstances \in Nat
BY ScalerAssumption DEF NoHost

LEMMA SubsetCounts ==
  ASSUME NEW S \in SUBSET Host, NEW T \in SUBSET S
  PROVE  Cardinality(T) <= Cardinality(S)
BY HostsFinite, FS_Subset

LEMMA OneMoreCounts ==
  ASSUME NEW S \in SUBSET Host, NEW x, NEW T \in SUBSET Host, T \subseteq S \cup {x}
  PROVE  Cardinality(T) <= Cardinality(S) + 1
<1>1. IsFiniteSet(S) /\ Cardinality(S) \in Nat
  BY HostsFinite
<1>2. /\ IsFiniteSet(S \cup {x})
      /\ Cardinality(S \cup {x}) \in {Cardinality(S), Cardinality(S) + 1}
  BY <1>1, FS_AddElement
<1>3. Cardinality(T) <= Cardinality(S \cup {x}) /\ Cardinality(T) \in Nat
  BY <1>2, HostsFinite, FS_Subset
<1> QED
  BY <1>1, <1>2, <1>3

LEMMA SetsOfHosts ==
  ASSUME TypeOK, Shape
  PROVE  /\ Unknown \in SUBSET Host /\ Live \in SUBSET Host /\ InService \in SUBSET Host
         /\ Committed \in SUBSET Host
BY DEF Unknown, Live, InService, WithStatus, Committed, TypeOK, Shape

\* What a fault does to the counts.
LEMMA FaultCounts ==
  ASSUME TypeOK, NEW kind \in FaultKind, Fault(kind)
  PROVE  OneMore(kind) /\ faults' \in [FaultKind -> 0..MaxFaults]
<1>1. \A k \in FaultKind : faults[k] \in Nat /\ faults[k] <= MaxFaults
  BY ScalerAssumption DEF TypeOK
<1>2. faults[kind] < MaxFaults
  BY <1>1, ScalerAssumption DEF Fault, FaultKind
<1> QED
  BY <1>1, <1>2, ScalerAssumption DEF Fault, OneMore, NoLess, TypeOK

LEMMA NoFaultCounts ==
  ASSUME TypeOK, NoFault
  PROVE  NoLess /\ faults' \in [FaultKind -> 0..MaxFaults]
BY ScalerAssumption DEF NoFault, NoLess, TypeOK

\* A step that makes no host unknown and commits to none keeps the invariant.
LEMMA Harmless ==
  ASSUME ScalerInv, TypeOK', Shape', NoLess, Unknown' \subseteq Unknown,
         Committed' \subseteq Committed, pc' = "undo" => pc = "undo"
  PROVE  ScalerInv'
<1>1. TypeOK /\ Shape /\ Unknown \in SUBSET Host /\ Committed \in SUBSET Host
  BY SetsOfHosts DEF ScalerInv, Shape
<1>2. Unknown' \in SUBSET Host /\ Committed' \in SUBSET Host
  BY <1>1
<1>3. /\ Cardinality(Unknown) \in Nat /\ Cardinality(Unknown') \in Nat
      /\ Cardinality(Unknown') <= Cardinality(Unknown)
      /\ Cardinality(Committed) \in Nat /\ Cardinality(Committed') \in Nat
      /\ Cardinality(Committed') <= Cardinality(Committed)
  BY <1>1, <1>2, HostsFinite, SubsetCounts
<1>4. \A k \in {"apart", "insert", "terminate"} :
        faults[k] \in Nat /\ faults'[k] \in Nat /\ faults'[k] >= faults[k]
  BY <1>1, ScalerAssumption DEF NoLess, FaultKind, TypeOK
<1>5. Cardinality(Committed') <= MaxInstances
  BY <1>3, NoSuchHost DEF ScalerInv
<1>6. Cardinality(Unknown') <= faults'["apart"] + faults'["terminate"]
  BY <1>3, <1>4 DEF ScalerInv
<1>7. Cardinality(Unknown') + (IF pc' = "undo" THEN 1 ELSE 0) <= faults'["apart"] + faults'["insert"]
  BY <1>3, <1>4 DEF ScalerInv
<1> QED
  BY <1>5, <1>6, <1>7 DEF ScalerInv, Shape

\* A crash or a failing call may make one host unknown.
LEMMA Parting ==
  ASSUME ScalerInv, TypeOK', Shape', OneMore("apart"), NEW x, Unknown' \subseteq Unknown \cup {x},
         Committed' \subseteq Committed, pc' # "undo"
  PROVE  ScalerInv'
<1>1. /\ TypeOK /\ Shape /\ Unknown \in SUBSET Host /\ Committed \in SUBSET Host
      /\ Unknown' \in SUBSET Host /\ Committed' \in SUBSET Host
  BY SetsOfHosts DEF ScalerInv, Shape, Unknown, Live
<1>2. /\ Cardinality(Unknown) \in Nat /\ Cardinality(Unknown') \in Nat
      /\ Cardinality(Unknown') <= Cardinality(Unknown) + 1
      /\ Cardinality(Committed) \in Nat /\ Cardinality(Committed') \in Nat
      /\ Cardinality(Committed') <= Cardinality(Committed)
  BY <1>1, HostsFinite, SubsetCounts, OneMoreCounts
<1>3. /\ \A k \in {"apart", "insert", "terminate"} :
           faults[k] \in Nat /\ faults'[k] \in Nat /\ faults'[k] >= faults[k]
      /\ faults'["apart"] = faults["apart"] + 1
  BY <1>1, ScalerAssumption DEF OneMore, NoLess, FaultKind, TypeOK
<1>4. Cardinality(Committed') <= MaxInstances
  BY <1>2, NoSuchHost DEF ScalerInv
<1>5. Cardinality(Unknown') <= faults'["apart"] + faults'["terminate"]
  BY <1>2, <1>3 DEF ScalerInv
<1>6. Cardinality(Unknown') <= faults'["apart"] + faults'["insert"]
  BY <1>2, <1>3 DEF ScalerInv
<1> QED
  BY <1>2, <1>4, <1>5, <1>6 DEF ScalerInv, Shape

-----------------------------------------------------------------------------
(* Statements, and where a step of the tick goes.                           *)

LEMMA InvTypes ==
  ASSUME ScalerInv
  PROVE  TypeOK /\ Shape
BY DEF ScalerInv, Shape

\* A row that has left service, or is written to one that had, adds no host to
\* those in service.
LEMMA WriteTyped ==
  ASSUME TypeOK, NEW h \in Host, NEW s \in {"running", "draining", "terminated"}
  PROVE  /\ UpdateInstanceStatus(h, s) \in [Host -> Row]
         /\ \A g \in Host : UpdateInstanceStatus(h, s)[g].status = IF g = h THEN s ELSE row[g].status
<1>1. row[h] \in Row /\ row[h].count \in 0..ContainersPerInst /\ 0 \in 0..ContainersPerInst
  BY ScalerAssumption DEF TypeOK, Row
<1> DEFINE new == [status |-> s, old |-> FALSE,
                   count |-> IF s = "terminated" THEN 0 ELSE row[h].count]
<1>2. new \in Row /\ new.status = s
  BY <1>1 DEF Row
<1>3. UpdateInstanceStatus(h, s) = [row EXCEPT ![h] = new]
  BY DEF UpdateInstanceStatus, TypeOK
<1> HIDE DEF new
<1> QED
  BY <1>2, <1>3 DEF TypeOK

LEMMA StatementWrites ==
  ASSUME TypeOK, NEW h \in Host, NEW s \in {"running", "draining", "terminated"},
         WriteStatus(h, s)
  PROVE  /\ row' \in [Host -> Row]
         /\ \A g \in Host : row'[g].status = row[g].status \/ (g = h /\ row'[g].status = s)
         /\ NoLess /\ faults' \in [FaultKind -> 0..MaxFaults]
<1>1. CASE row' = UpdateInstanceStatus(h, s) /\ NoFault
  BY <1>1, WriteTyped, NoFaultCounts
<1>2. CASE UNCHANGED row /\ Fault("other")
  BY <1>2, FaultCounts DEF TypeOK, FaultKind, OneMore
<1> QED
  BY <1>1, <1>2 DEF WriteStatus

LEMMA CountTyped ==
  ASSUME TypeOK, NEW h \in Host, NEW n \in 0..ContainersPerInst, SetCount(h, n)
  PROVE  /\ row' \in [Host -> Row]
         /\ \A g \in Host : row'[g].status = row[g].status
BY DEF TypeOK, Row, SetCount

Label == {"spot", "monitor", "dispatch", "pending", "running", "idle", "scaleUp", "insert",
          "undo", "record", "down"}

LEMMA Labels == TypeOK <=>
  /\ row \in [Host -> Row] /\ host \in [Host -> HostState] /\ pc \in Label
  /\ todo \subseteq Host /\ hand \in Host \cup {NoHost}
  /\ back \in {"monitor", "pending"} /\ waiting \in BOOLEAN
  /\ faults \in [FaultKind -> 0..MaxFaults]
BY DEF TypeOK, Label, NextLoop

\* A step that leaves host and row in service as they were, with the host in hand.
LEMMA StaysKnown ==
  ASSUME host' = host, \A h \in Host : row[h].status \in {"pending", "running"} =>
                                        row'[h].status \in {"pending", "running"},
         hand' = hand \/ hand = NoHost
  PROVE  Unknown' \subseteq Unknown
BY NoSuchHost DEF Unknown, Live, InService, WithStatus

Serving == {"pending", "running"}

LEMMA Served ==
  ASSUME NEW h \in Host
  PROVE  h \in InService <=> row[h].status \in Serving
BY DEF InService, WithStatus, Serving

\* The tick moves on, with nothing in hand.
LEMMA Moves ==
  ASSUME NEW label \in Label \ {"insert", "undo", "record"}, Goto(label)
  PROVE  /\ pc' \in Label /\ todo' \subseteq Host /\ hand' \in Host \cup {NoHost}
         /\ back' \in {"monitor", "pending"} /\ Shape' /\ pc' # "undo"
         /\ pc' = label /\ hand' = NoHost
BY DEF Goto, Shape, Label

LEMMA NextLoops ==
  ASSUME NEW label \in DOMAIN NextLoop
  PROVE  /\ label \in {"spot", "pending", "running", "idle"}
         /\ NextLoop[label] \in {"monitor", "running", "idle", "spot"}
BY DEF NextLoop

\* One instance of a loop is handled and the loop goes on, or the tick.
LEMMA Continued ==
  ASSUME TypeOK, Shape, NEW h \in Host, NEW label \in DOMAIN NextLoop, In(label, h), Continue(h),
         \A g \in Host : g # h => row'[g].status = row[g].status
  PROVE  /\ pc' \in Label /\ todo' \subseteq Host /\ hand' \in Host \cup {NoHost}
         /\ back' \in {"monitor", "pending"} /\ Shape' /\ pc' \notin {"undo", "insert"}
         /\ hand' = NoHost /\ hand = NoHost /\ pc \notin {"undo", "insert"}
<1>1. pc = label /\ pc \in {"spot", "pending", "running", "idle"} /\ hand = NoHost
  BY NextLoops DEF In, Shape
<1>2. CASE Goto(NextLoop[pc])
  BY <1>1, <1>2, NextLoops, Moves DEF Label
<1>3. CASE todo' = todo \ {h} /\ UNCHANGED <<pc, hand, back>>
  BY <1>1, <1>3, Labels DEF Shape, WithStatus, Label
<1> QED
  BY <1>2, <1>3 DEF Continue

\* One instance is handled by a step that leaves its row in service unless the
\* host is gone or a failing call has parted them.
LEMMA LoopStep ==
  ASSUME ScalerInv, NEW h \in Host, NEW label \in DOMAIN NextLoop, In(label, h), Continue(h),
         row' \in [Host -> Row], host' = host, waiting' \in BOOLEAN,
         faults' \in [FaultKind -> 0..MaxFaults], NoLess,
         \A g \in Host : g # h => row'[g].status = row[g].status,
         row'[h].status \in Serving => row[h].status \in Serving,
         row[h].status \in Serving => \/ row'[h].status \in Serving \/ host[h] = "gone"
                                      \/ OneMore("apart")
  PROVE  ScalerInv'
<1>1. TypeOK /\ Shape
  BY InvTypes
<1>2. /\ pc' \in Label /\ todo' \subseteq Host /\ hand' \in Host \cup {NoHost}
      /\ back' \in {"monitor", "pending"} /\ Shape' /\ pc' \notin {"undo", "insert"}
      /\ hand' = NoHost /\ hand = NoHost /\ pc \notin {"undo", "insert"}
  BY <1>1, Continued
<1>3. TypeOK'
  BY <1>1, <1>2, Labels DEF TypeOK, Label, NextLoop
<1>4. Committed' \subseteq Committed
  BY <1>2 DEF Committed, InService, WithStatus, Serving
<1>5. CASE OneMore("apart")
  <2>1. Unknown' \subseteq Unknown \cup {h}
    BY <1>2 DEF Unknown, Live, InService, WithStatus
  <2> QED
    BY <1>2, <1>3, <1>4, <1>5, <2>1, Parting
<1>6. CASE row[h].status \in Serving => row'[h].status \in Serving \/ host[h] = "gone"
  <2>1. Unknown' \subseteq Unknown
    BY <1>2, <1>6 DEF Unknown, Live, InService, WithStatus, Serving
  <2> QED
    BY <1>2, <1>3, <1>4, <2>1, Harmless
<1> QED
  BY <1>5, <1>6

-----------------------------------------------------------------------------
(* The loops.                                                               *)

\* What DescribeInstance costs when it fails.
LEMMA DescribeCounts ==
  ASSUME TypeOK, NEW h \in Host, DescribeFails(h)
  PROVE  /\ NoLess /\ faults' \in [FaultKind -> 0..MaxFaults]
         /\ host[h] = "gone" \/ OneMore("apart")
<1>1. CASE host[h] = "gone" /\ NoFault
  BY <1>1, NoFaultCounts
<1>2. CASE Fault("apart")
  BY <1>2, FaultCounts DEF FaultKind, OneMore
<1> QED
  BY <1>1, <1>2 DEF DescribeFails

LEMMA CheckInterruptedKeeps ==
  ASSUME ScalerInv, NEW h \in Host, CheckInterrupted(h)
  PROVE  ScalerInv'
<1>1. /\ In("spot", h) /\ Continue(h) /\ host' = host /\ "spot" \in DOMAIN NextLoop
      /\ TypeOK /\ waiting' \in BOOLEAN
  BY InvTypes, Labels DEF CheckInterrupted, NextLoop
<1>2. CASE host[h] = "gone" /\ WriteStatus(h, "draining")
  BY <1>1, <1>2, StatementWrites, LoopStep DEF Serving
<1>3. CASE NoFault /\ UNCHANGED row
  BY <1>1, <1>3, NoFaultCounts, LoopStep DEF TypeOK
<1>4. CASE DescribeFails(h) /\ UNCHANGED row
  BY <1>1, <1>4, DescribeCounts, LoopStep DEF TypeOK
<1> QED
  BY <1>2, <1>3, <1>4 DEF CheckInterrupted

LEMMA ReconcilePendingKeeps ==
  ASSUME ScalerInv, NEW h \in Host, ReconcilePending(h)
  PROVE  ScalerInv'
<1>1. /\ In("pending", h) /\ Continue(h) /\ host' = host /\ "pending" \in DOMAIN NextLoop
      /\ TypeOK /\ waiting' \in BOOLEAN /\ row[h].status = "pending"
  BY InvTypes, Labels DEF ReconcilePending, NextLoop, In, Shape, WithStatus
<1>2. CASE WriteStatus(h, "running")
  BY <1>1, <1>2, StatementWrites, LoopStep DEF Serving
<1>3. CASE host[h] = "gone" /\ WriteStatus(h, "terminated")
  BY <1>1, <1>3, StatementWrites, LoopStep DEF Serving
<1>4. CASE NoFault /\ UNCHANGED row
  BY <1>1, <1>4, NoFaultCounts, LoopStep DEF TypeOK
<1>5. CASE DescribeFails(h) /\ row' = IF row[h].old THEN UpdateInstanceStatus(h, "terminated") ELSE row
  <2>1. CASE row' = UpdateInstanceStatus(h, "terminated")
    <3>1. row' \in [Host -> Row] /\ row'[h].status = "terminated"
      BY <1>1, <2>1, WriteTyped
    <3>2. \A g \in Host : g # h => row'[g].status = row[g].status
      BY <1>1, <2>1, WriteTyped
    <3>3. /\ NoLess /\ faults' \in [FaultKind -> 0..MaxFaults]
          /\ host[h] = "gone" \/ OneMore("apart")
      BY <1>1, <1>5, DescribeCounts
    <3> QED
      BY <1>1, <3>1, <3>2, <3>3, LoopStep DEF Serving
  <2>2. CASE row' = row
    BY <1>1, <1>5, <2>2, DescribeCounts, LoopStep DEF TypeOK
  <2> QED
    BY <1>5, <2>1, <2>2
<1> QED
  BY <1>2, <1>3, <1>4, <1>5 DEF ReconcilePending

LEMMA ReconcileRunningKeeps ==
  ASSUME ScalerInv, NEW h \in Host, ReconcileRunning(h)
  PROVE  ScalerInv'
<1>1. /\ In("running", h) /\ Continue(h) /\ host' = host /\ "running" \in DOMAIN NextLoop
      /\ TypeOK /\ waiting' \in BOOLEAN
  BY InvTypes, Labels DEF ReconcileRunning, NextLoop
<1>2. CASE host[h] = "gone" /\ WriteStatus(h, "terminated")
  BY <1>1, <1>2, StatementWrites, LoopStep DEF Serving
<1>3. CASE NoFault /\ UNCHANGED row
  BY <1>1, <1>3, NoFaultCounts, LoopStep DEF TypeOK
<1>4. CASE DescribeFails(h) /\ row' = UpdateInstanceStatus(h, "terminated")
  BY <1>1, <1>4, DescribeCounts, WriteTyped, LoopStep DEF Serving
<1> QED
  BY <1>2, <1>3, <1>4 DEF ReconcileRunning

LEMMA StillUsedKeeps ==
  ASSUME ScalerInv, NEW h \in Host, StillUsed(h)
  PROVE  ScalerInv'
<1>1. /\ In("idle", h) /\ Continue(h) /\ host' = host /\ "idle" \in DOMAIN NextLoop
      /\ TypeOK /\ waiting' \in BOOLEAN /\ row' = row /\ NoFault
  BY InvTypes, Labels DEF StillUsed, NextLoop, NoFault
<1> QED
  BY <1>1, NoFaultCounts, LoopStep DEF TypeOK

-----------------------------------------------------------------------------
(* Steps between the loops.                                                 *)

\* A step that leaves statuses, hosts and what is in hand.
LEMMA Quiet ==
  ASSUME ScalerInv, TypeOK', Shape', NoLess, host' = host, hand' = NoHost,
         \A h \in Host : row'[h].status = row[h].status,
         pc \notin {"insert", "undo", "record"}, pc' \notin {"insert", "undo"}
  PROVE  ScalerInv'
<1>1. hand = NoHost
  BY InvTypes DEF Shape
<1>2. Unknown' \subseteq Unknown /\ Committed' \subseteq Committed
  BY <1>1 DEF Unknown, Committed, Live, InService, WithStatus
<1> QED
  BY <1>2, Harmless

LEMMA ListKeeps ==
  ASSUME ScalerInv, List
  PROVE  ScalerInv'
<1>1. /\ TypeOK /\ Shape /\ pc \in DOMAIN NextLoop /\ host' = host /\ row' = row
      /\ waiting' = waiting
  BY InvTypes DEF List
<1>2. NoLess /\ faults' \in [FaultKind -> 0..MaxFaults]
  BY <1>1, NoFaultCounts, FaultCounts DEF List, FaultKind, OneMore
<1>3. CASE Goto(NextLoop[pc])
  <2>1. TypeOK' /\ Shape' /\ hand' = NoHost /\ pc' \notin {"insert", "undo"}
    BY <1>1, <1>2, <1>3, NextLoops, Moves, Labels DEF TypeOK, Label, NextLoop
  <2> QED
    BY <1>1, <1>2, <2>1, NextLoops, Quiet
<1>4. CASE /\ todo' = WithStatus(IF pc = "pending" THEN "pending" ELSE "running")
           /\ UNCHANGED <<pc, hand, back>>
  <2>1. hand = NoHost
    BY <1>1, NextLoops DEF Shape
  <2>2. todo' \subseteq Host /\ (pc = "pending" => todo' = WithStatus("pending")')
    BY <1>1, <1>4 DEF WithStatus
  <2>3. TypeOK'
    BY <1>1, <1>2, <1>4, <2>2 DEF TypeOK
  <2>4. Shape'
    BY <1>1, <1>4, <2>2 DEF Shape
  <2> QED
    BY <1>1, <1>2, <1>4, <2>1, <2>3, <2>4, NextLoops, Quiet
<1> QED
  BY <1>3, <1>4 DEF List

\* An agent has ended, in the monitors' part of the tick.
LEMMA ReleaseKeeps ==
  ASSUME ScalerInv, NEW h \in Host, Release(h)
  PROVE  ScalerInv'
<1>1. /\ TypeOK /\ Shape /\ pc = "monitor" /\ host' = host /\ pc' = pc /\ hand' = hand
      /\ todo' = todo /\ back' = back /\ waiting' = waiting
  BY InvTypes DEF Release, loop
<1>2. /\ row' \in [Host -> Row] /\ \A g \in Host : row'[g].status = row[g].status
      /\ NoLess /\ faults' \in [FaultKind -> 0..MaxFaults]
  <2>1. CASE SetCount(h, row[h].count - 1) /\ NoFault
    <3>1. row[h].count - 1 \in 0..ContainersPerInst
      <4>1. row[h].count \in 0..ContainersPerInst /\ row[h].count > 0
        BY <1>1 DEF TypeOK, Row, Release
      <4> QED
        BY <4>1, ScalerAssumption
    <3> QED
      BY <1>1, <2>1, <3>1, CountTyped, NoFaultCounts
  <2>2. CASE UNCHANGED row /\ Fault("other")
    BY <1>1, <2>2, FaultCounts DEF FaultKind, OneMore, TypeOK
  <2> QED
    BY <2>1, <2>2 DEF Release
<1>3. TypeOK'
  BY <1>1, <1>2 DEF TypeOK
<1>4. Shape' /\ hand' = NoHost
  BY <1>1 DEF Shape
<1> QED
  BY <1>1, <1>2, <1>3, <1>4, Quiet

LEMMA GiveUpKeeps ==
  ASSUME ScalerInv, NEW h \in Host, GiveUp(h)
  PROVE  ScalerInv'
<1>1. /\ TypeOK /\ Shape /\ pc = "monitor" /\ pc' = "scaleUp" /\ back' = "monitor"
      /\ host' = host /\ todo' = todo /\ hand' = hand /\ hand = NoHost /\ waiting' = TRUE
  BY InvTypes DEF GiveUp, Shape
<1>2. /\ row' \in [Host -> Row] /\ NoLess /\ faults' \in [FaultKind -> 0..MaxFaults]
      /\ \A g \in Host : row'[g].status = row[g].status
                           \/ (g = h /\ row'[g].status = "terminated")
      /\ host[h] = "gone" \/ OneMore("apart")
  <2>1. CASE host[h] = "gone"
    BY <1>1, <2>1, StatementWrites DEF GiveUp
  <2>2. CASE host[h] # "gone"
    BY <1>1, <2>2, WriteTyped, FaultCounts DEF GiveUp, FaultKind, OneMore
  <2> QED
    BY <2>1, <2>2
<1>3. TypeOK'
  BY <1>1, <1>2, Labels DEF TypeOK
<1>4. Shape'
  BY <1>1 DEF Shape
<1>5. Committed' \subseteq Committed
  BY <1>1, <1>2 DEF Committed, InService, WithStatus
<1>6. CASE host[h] = "gone"
  <2>1. Unknown' \subseteq Unknown
    BY <1>1, <1>2, <1>6 DEF Unknown, Live, InService, WithStatus
  <2> QED
    BY <1>1, <1>2, <1>3, <1>4, <1>5, <2>1, Harmless
<1>7. CASE OneMore("apart")
  <2>1. Unknown' \subseteq Unknown \cup {h}
    BY <1>1, <1>2 DEF Unknown, Live, InService, WithStatus
  <2> QED
    BY <1>1, <1>3, <1>4, <1>5, <1>7, <2>1, Parting
<1> QED
  BY <1>2, <1>6, <1>7

\* The steps that only move the tick on.
LEMMA MovesKeep ==
  ASSUME ScalerInv, MonitorsDone \/ NothingPending \/ NoCapacity \/ SkipScaleUp \/ Restart
  PROVE  ScalerInv'
<1>1. TypeOK /\ Shape
  BY InvTypes
<1>2. PICK label \in {"dispatch", "pending", "scaleUp", "monitor", "spot"} : Goto(label)
  BY <1>1 DEF MonitorsDone, NothingPending, NoCapacity, SkipScaleUp, Restart, TypeOK
<1>3. /\ pc \notin {"insert", "undo", "record"} /\ row' = row /\ host' = host
      /\ waiting' = waiting
  BY DEF MonitorsDone, NothingPending, NoCapacity, SkipScaleUp, Restart
<1>4. NoLess /\ faults' \in [FaultKind -> 0..MaxFaults]
  <2>1. NoFault \/ Fault("other")
    BY DEF MonitorsDone, NothingPending, NoCapacity, SkipScaleUp, Restart, NoFault
  <2> QED
    BY <1>1, <2>1, NoFaultCounts, FaultCounts DEF FaultKind, OneMore
<1>5. TypeOK' /\ Shape' /\ hand' = NoHost /\ pc' \notin {"insert", "undo"}
  BY <1>1, <1>2, <1>3, <1>4, Moves DEF TypeOK, Label, NextLoop
<1> QED
  BY <1>3, <1>4, <1>5, Quiet

LEMMA DispatchKeeps ==
  ASSUME ScalerInv, Dispatch
  PROVE  ScalerInv'
<1>1. /\ TypeOK /\ Shape /\ pc = "dispatch" /\ host' = host /\ waiting' = FALSE
      /\ Goto("pending") /\ NoFault
  BY InvTypes DEF Dispatch, NoFault
<1>2. row' \in [Host -> Row] /\ \A g \in Host : row'[g].status = row[g].status
  <2>1. PICK h \in Roomy : row' = row \/ SetCount(h, row[h].count + 1)
    BY DEF Dispatch
  <2>2. h \in Host /\ row[h].count + 1 \in 0..ContainersPerInst
    <3>1. h \in Host /\ row[h].count < ContainersPerInst
      BY <2>1 DEF Roomy, WithStatus
    <3>2. row[h].count \in 0..ContainersPerInst
      BY <1>1, <3>1 DEF TypeOK, Row
    <3> QED
      BY <3>1, <3>2, ScalerAssumption
  <2> QED
    BY <1>1, <2>1, <2>2, CountTyped DEF TypeOK
<1>3. NoLess /\ faults' \in [FaultKind -> 0..MaxFaults]
  BY <1>1, NoFaultCounts
<1>4. Shape' /\ hand' = NoHost /\ pc' \notin {"insert", "undo"}
      /\ pc' = "pending" /\ todo' \subseteq Host /\ back' \in {"monitor", "pending"}
  BY <1>1, Moves DEF Label
<1>5. TypeOK'
  BY <1>1, <1>2, <1>3, <1>4 DEF TypeOK, NextLoop
<1> QED
  BY <1>1, <1>2, <1>3, <1>4, <1>5, Quiet

-----------------------------------------------------------------------------
(* Making and ending hosts.                                                 *)

\* A launch is committed to below the limit; when its answer is lost the host is
\* unknown by that fault.
LEMMA LaunchKeeps ==
  ASSUME ScalerInv, NEW h \in Host, Launch(h)
  PROVE  ScalerInv'
<1>1. /\ TypeOK /\ Shape /\ pc = "scaleUp" /\ hand = NoHost /\ row' = row /\ waiting' = waiting
      /\ host' = [host EXCEPT ![h] = "booting"] /\ host' \in [Host -> HostState]
  BY InvTypes DEF Launch, Shape, TypeOK, HostState
<1>2. /\ Live' = Live \cup {h} /\ InService' = InService
  BY <1>1 DEF Live, InService, WithStatus, TypeOK
<1>3. CASE pc' = "insert" /\ hand' = h /\ UNCHANGED <<todo, back>> /\ NoFault
  <2>1. NoLess /\ faults' \in [FaultKind -> 0..MaxFaults]
    BY <1>1, <1>3, NoFaultCounts
  <2>2. TypeOK'
    BY <1>1, <1>3, <2>1 DEF TypeOK
  <2>3. Shape'
    BY <1>3, NoSuchHost DEF Shape
  <2>4. Unknown' \subseteq Unknown
    BY <1>1, <1>2, <1>3, NoSuchHost DEF Unknown, Live
  <2>5. /\ Unknown \in SUBSET Host /\ Unknown' \in SUBSET Host /\ InService \in SUBSET Host
        /\ Committed' = InService \cup {h}
    BY <1>2, <1>3, SetsOfHosts, <1>1 DEF Unknown, Live, Committed
  <2>6. /\ Cardinality(InService) \in Nat /\ Cardinality(InService) < MaxInstances
        /\ Cardinality(Committed') <= Cardinality(InService) + 1
        /\ Cardinality(Committed') \in Nat
    BY <2>5, HostsFinite, OneMoreCounts DEF Launch, MayLaunch
  <2>7. /\ Cardinality(Unknown') <= Cardinality(Unknown)
        /\ Cardinality(Unknown) \in Nat /\ Cardinality(Unknown') \in Nat
    BY <2>4, <2>5, HostsFinite, SubsetCounts
  <2>8. \A k \in {"apart", "insert", "terminate"} :
          faults[k] \in Nat /\ faults'[k] \in Nat /\ faults'[k] >= faults[k]
    BY <1>1, <2>1, ScalerAssumption DEF NoLess, FaultKind, TypeOK
  <2>9. Cardinality(Committed') <= MaxInstances
    BY <2>6, NoSuchHost
  <2>10. /\ Cardinality(Unknown') <= faults'["apart"] + faults'["terminate"]
         /\ Cardinality(Unknown') <= faults'["apart"] + faults'["insert"]
    BY <1>1, <2>7, <2>8 DEF ScalerInv
  <2> QED
    BY <1>3, <2>2, <2>3, <2>7, <2>9, <2>10 DEF ScalerInv, Shape
<1>4. CASE Goto(back) /\ Fault("apart")
  <2>1. OneMore("apart") /\ NoLess /\ faults' \in [FaultKind -> 0..MaxFaults]
    BY <1>1, <1>4, FaultCounts DEF FaultKind, OneMore
  <2>2. /\ pc' \in {"monitor", "pending"} /\ todo' \subseteq Host /\ hand' = NoHost
        /\ back' \in {"monitor", "pending"} /\ Shape'
    BY <1>1, <1>4, Moves DEF Label, TypeOK
  <2>3. TypeOK'
    BY <1>1, <2>1, <2>2 DEF TypeOK, NextLoop
  <2>4. Unknown' \subseteq Unknown \cup {h} /\ Committed' \subseteq Committed
    BY <1>1, <1>2, <2>2 DEF Unknown, Committed
  <2> QED
    BY <2>1, <2>2, <2>3, <2>4, Parting
<1> QED
  BY <1>3, <1>4 DEF Launch

\* The new row is the host in hand's.
LEMMA InsertedTyped ==
  ASSUME TypeOK, hand \in Host
  PROVE  /\ Inserted \in [Host -> Row]
         /\ \A g \in Host : Inserted[g].status = IF g = hand THEN "pending" ELSE row[g].status
<1> DEFINE new == [NoRow EXCEPT !.status = "pending"]
<1>1. NoRow \in Row
  BY ScalerAssumption DEF NoRow, Row
<1>2. new \in Row /\ new.status = "pending"
  BY <1>1 DEF Row
<1>3. Inserted = [row EXCEPT ![hand] = new]
  BY DEF Inserted
<1> HIDE DEF new
<1> QED
  BY <1>2, <1>3 DEF TypeOK

\* A failing insert leaves the host in hand, to be undone.
LEMMA CreateInstanceKeeps ==
  ASSUME ScalerInv, CreateInstance
  PROVE  ScalerInv'
<1>1. /\ TypeOK /\ Shape /\ pc = "insert" /\ hand \in Host /\ host' = host
      /\ waiting' = waiting
  BY InvTypes, NoSuchHost DEF CreateInstance, Shape, TypeOK
<1>2. CASE row' = Inserted /\ Goto(back) /\ NoFault
  <2>1. NoLess /\ faults' \in [FaultKind -> 0..MaxFaults]
    BY <1>1, <1>2, NoFaultCounts
  <2>2. /\ pc' \in {"monitor", "pending"} /\ todo' \subseteq Host /\ hand' = NoHost
        /\ back' \in {"monitor", "pending"} /\ Shape'
    BY <1>1, <1>2, Moves DEF Label, TypeOK
  <2>3. /\ row' \in [Host -> Row]
        /\ \A g \in Host : row'[g].status = IF g = hand THEN "pending" ELSE row[g].status
    BY <1>1, <1>2, InsertedTyped
  <2>4. TypeOK'
    BY <1>1, <2>1, <2>2, <2>3 DEF TypeOK, NextLoop
  <2>5. Unknown' \subseteq Unknown /\ Committed' \subseteq Committed
    BY <1>1, <2>2, <2>3 DEF Unknown, Live, Committed, InService, WithStatus
  <2> QED
    BY <2>1, <2>2, <2>4, <2>5, Harmless
<1>3. CASE /\ row' \in {row, Inserted} /\ Fault("insert")
           /\ pc' = "undo" /\ UNCHANGED <<todo, hand, back>>
  <2>1. OneMore("insert") /\ NoLess /\ faults' \in [FaultKind -> 0..MaxFaults]
    BY <1>1, <1>3, FaultCounts DEF FaultKind, OneMore
  <2>2. /\ row' \in [Host -> Row]
        /\ \A g \in Host : g # hand => row'[g].status = row[g].status
    BY <1>1, <1>3, InsertedTyped DEF TypeOK
  <2>3. TypeOK'
    BY <1>1, <1>3, <2>1, <2>2 DEF TypeOK
  <2>4. Shape'
    BY <1>1, <1>3, NoSuchHost DEF Shape
  <2>5. /\ Unknown' \subseteq Unknown /\ Committed' \subseteq Committed
        /\ Unknown \in SUBSET Host /\ Unknown' \in SUBSET Host
        /\ Committed \in SUBSET Host /\ Committed' \in SUBSET Host
    BY <1>1, <1>3, <2>2, SetsOfHosts DEF Unknown, Live, Committed, InService, WithStatus
  <2>6. /\ Cardinality(Unknown') <= Cardinality(Unknown)
        /\ Cardinality(Unknown) \in Nat /\ Cardinality(Unknown') \in Nat
        /\ Cardinality(Committed') <= Cardinality(Committed)
        /\ Cardinality(Committed) \in Nat /\ Cardinality(Committed') \in Nat
    BY <2>5, HostsFinite, SubsetCounts
  <2>7. /\ \A k \in {"apart", "insert", "terminate"} :
             faults[k] \in Nat /\ faults'[k] \in Nat /\ faults'[k] >= faults[k]
        /\ faults'["insert"] = faults["insert"] + 1
    BY <1>1, <2>1, ScalerAssumption DEF OneMore, NoLess, FaultKind, TypeOK
  <2>8. /\ Cardinality(Unknown') <= faults'["apart"] + faults'["terminate"]
        /\ Cardinality(Unknown') + 1 <= faults'["apart"] + faults'["insert"]
    BY <1>1, <2>6, <2>7 DEF ScalerInv
  <2>9. Cardinality(Committed') <= MaxInstances
    BY <2>6, NoSuchHost DEF ScalerInv
  <2> QED
    BY <1>3, <2>3, <2>4, <2>8, <2>9 DEF ScalerInv, Shape
<1> QED
  BY <1>2, <1>3 DEF CreateInstance

\* What a termination does to a host.
LEMMA TerminatedTyped ==
  ASSUME TypeOK, NEW h \in Host, Terminated(h)
  PROVE  /\ host' \in [Host -> HostState] /\ Live' \subseteq Live
         /\ \/ NoLess /\ NoFault /\ host'[h] = "gone"
            \/ OneMore("terminate") /\ faults' # faults
         /\ faults' \in [FaultKind -> 0..MaxFaults]
         /\ \A g \in Host : host[g] = "gone" => host'[g] = "gone"
<1>1. [host EXCEPT ![h] = "gone"] \in [Host -> HostState]
  BY DEF TypeOK, HostState
<1>2. host' \in {host, [host EXCEPT ![h] = "gone"]}
  BY DEF Terminated
<1>3. /\ host' \in [Host -> HostState] /\ Live' \subseteq Live
      /\ \A g \in Host : host[g] = "gone" => host'[g] = "gone"
  BY <1>1, <1>2 DEF TypeOK, Live
<1>4. CASE host' = [host EXCEPT ![h] = "gone"] /\ NoFault
  BY <1>3, <1>4, NoFaultCounts DEF TypeOK
<1>5. CASE Fault("terminate")
  <2>1. OneMore("terminate") /\ faults' \in [FaultKind -> 0..MaxFaults]
    BY <1>5, FaultCounts DEF FaultKind
  <2>2. faults["terminate"] \in Nat
    BY ScalerAssumption DEF TypeOK, FaultKind
  <2>3. faults' # faults
    BY <2>1, <2>2 DEF OneMore
  <2> QED
    BY <1>3, <2>1, <2>3
<1> QED
  BY <1>4, <1>5 DEF Terminated

\* The insert whose undoing fails is paired with that fault.
LEMMA TerminateOrphanKeeps ==
  ASSUME ScalerInv, TerminateOrphan
  PROVE  ScalerInv'
<1>1. /\ TypeOK /\ Shape /\ pc = "undo" /\ hand \in Host /\ row' = row
      /\ waiting' = waiting /\ Goto(back)
  BY InvTypes, NoSuchHost DEF TerminateOrphan, Shape, TypeOK
<1>2. /\ pc' \in {"monitor", "pending"} /\ todo' \subseteq Host /\ hand' = NoHost
      /\ back' \in {"monitor", "pending"} /\ Shape'
  BY <1>1, Moves DEF Label, TypeOK
<1>3. /\ host' \in [Host -> HostState] /\ Live' \subseteq Live
      /\ (NoLess /\ host'[hand] = "gone") \/ OneMore("terminate")
      /\ faults' \in [FaultKind -> 0..MaxFaults]
  BY <1>1, TerminatedTyped DEF TerminateOrphan
<1>4. TypeOK'
  BY <1>1, <1>2, <1>3 DEF TypeOK, NextLoop
<1>5. Committed' \subseteq Committed /\ Unknown' \subseteq Unknown \cup {hand}
  BY <1>1, <1>2, <1>3 DEF Committed, Unknown, InService, WithStatus
<1>6. CASE NoLess /\ host'[hand] = "gone"
  <2>1. Unknown' \subseteq Unknown
    BY <1>5, <1>6 DEF Unknown, Live
  <2> QED
    BY <1>2, <1>4, <1>5, <1>6, <2>1, Harmless
<1>7. CASE OneMore("terminate")
  <2>1. /\ Unknown \in SUBSET Host /\ Unknown' \in SUBSET Host
        /\ Committed \in SUBSET Host /\ Committed' \in SUBSET Host
    BY <1>1, <1>5, SetsOfHosts DEF Unknown, Live
  <2>2. /\ Cardinality(Unknown') <= Cardinality(Unknown) + 1
        /\ Cardinality(Unknown) \in Nat /\ Cardinality(Unknown') \in Nat
        /\ Cardinality(Committed') <= Cardinality(Committed)
        /\ Cardinality(Committed) \in Nat /\ Cardinality(Committed') \in Nat
    BY <1>5, <2>1, HostsFinite, SubsetCounts, OneMoreCounts
  <2>3. /\ \A k \in {"apart", "insert", "terminate"} :
             faults[k] \in Nat /\ faults'[k] \in Nat /\ faults'[k] >= faults[k]
        /\ faults'["terminate"] = faults["terminate"] + 1
    BY <1>1, <1>7, ScalerAssumption DEF OneMore, NoLess, FaultKind, TypeOK
  <2>4. /\ Cardinality(Unknown') <= faults'["apart"] + faults'["terminate"]
        /\ Cardinality(Unknown') <= faults'["apart"] + faults'["insert"]
    BY <1>1, <2>2, <2>3 DEF ScalerInv
  <2>5. Cardinality(Committed') <= MaxInstances
    BY <2>2, NoSuchHost DEF ScalerInv
  <2> QED
    BY <1>2, <1>4, <2>2, <2>4, <2>5 DEF ScalerInv, Shape
<1> QED
  BY <1>3, <1>6, <1>7

\* An idle host is ended before its row is.
LEMMA ScaleDownKeeps ==
  ASSUME ScalerInv, NEW h \in Host, ScaleDown(h)
  PROVE  ScalerInv'
<1>1. /\ TypeOK /\ Shape /\ In("idle", h) /\ pc = "idle" /\ hand = NoHost
      /\ row' = row /\ waiting' = waiting
  BY InvTypes DEF ScaleDown, In, Shape
<1>2. /\ host' \in [Host -> HostState] /\ Live' \subseteq Live
      /\ (NoLess /\ NoFault /\ host'[h] = "gone") \/ (OneMore("terminate") /\ faults' # faults)
      /\ faults' \in [FaultKind -> 0..MaxFaults]
  BY <1>1, TerminatedTyped DEF ScaleDown
<1>3. NoLess
  BY <1>2 DEF OneMore
<1>4. CASE NoFault /\ host'[h] = "gone"
  <2>1. pc' = "record" /\ hand' = h /\ UNCHANGED <<todo, back>>
    BY <1>4 DEF ScaleDown, NoFault
  <2>2. TypeOK'
    BY <1>1, <1>2, <2>1 DEF TypeOK
  <2>3. Shape'
    BY <1>4, <2>1, NoSuchHost DEF Shape
  <2>4. Unknown' \subseteq Unknown /\ Committed' \subseteq Committed
    BY <1>1, <1>2, <2>1, NoSuchHost DEF Unknown, Live, Committed, InService, WithStatus
  <2> QED
    BY <1>3, <2>1, <2>2, <2>3, <2>4, Harmless
<1>5. CASE faults' # faults
  <2>1. Continue(h) /\ "idle" \in DOMAIN NextLoop
    BY <1>5 DEF ScaleDown, NextLoop
  <2>2. /\ pc' \in Label /\ todo' \subseteq Host /\ hand' \in Host \cup {NoHost}
        /\ back' \in {"monitor", "pending"} /\ Shape' /\ pc' \notin {"undo", "insert"}
        /\ hand' = NoHost
    BY <1>1, <2>1, Continued
  <2>3. TypeOK'
    BY <1>1, <1>2, <2>2 DEF TypeOK, Label, NextLoop
  <2>4. Unknown' \subseteq Unknown /\ Committed' \subseteq Committed
    BY <1>1, <1>2, <2>2, NoSuchHost DEF Unknown, Committed, InService, WithStatus
  <2> QED
    BY <1>3, <2>2, <2>3, <2>4, Harmless
<1> QED
  BY <1>2, <1>4, <1>5

LEMMA RecordTerminatedKeeps ==
  ASSUME ScalerInv, RecordTerminated
  PROVE  ScalerInv'
<1>1. /\ TypeOK /\ Shape /\ pc = "record" /\ hand \in Host /\ host[hand] = "gone"
      /\ host' = host /\ waiting' = waiting /\ WriteStatus(hand, "terminated")
  BY InvTypes, NoSuchHost DEF RecordTerminated, Shape, TypeOK
<1>2. /\ row' \in [Host -> Row] /\ NoLess /\ faults' \in [FaultKind -> 0..MaxFaults]
      /\ \A g \in Host : row'[g].status = row[g].status
                           \/ (g = hand /\ row'[g].status = "terminated")
  BY <1>1, StatementWrites
<1>3. /\ pc' \in {"spot", "idle"} /\ todo' \subseteq Host /\ hand' = NoHost
      /\ back' \in {"monitor", "pending"} /\ Shape'
  <2>1. CASE Goto("spot")
    BY <2>1, Moves DEF Label
  <2>2. CASE pc' = "idle" /\ todo' = todo \ {hand} /\ hand' = NoHost /\ UNCHANGED back
    BY <1>1, <2>2 DEF Shape, TypeOK
  <2> QED
    BY <2>1, <2>2 DEF RecordTerminated
<1>4. TypeOK'
  BY <1>1, <1>2, <1>3 DEF TypeOK, NextLoop
<1>5. Unknown' \subseteq Unknown /\ Committed' \subseteq Committed
  BY <1>1, <1>2, <1>3 DEF Unknown, Live, Committed, InService, WithStatus
<1> QED
  BY <1>2, <1>3, <1>4, <1>5, Harmless

-----------------------------------------------------------------------------
(* EC2, time, users and crashes.                                            *)

\* What may befall a host between two steps of the tick.
LEMMA HostsKeep ==
  ASSUME ScalerInv, NEW h \in Host, Boot(h) \/ Interrupt(h)
  PROVE  ScalerInv'
<1>1. /\ TypeOK /\ Shape /\ row' = row /\ waiting' = waiting /\ pc' = pc /\ todo' = todo
      /\ hand' = hand /\ back' = back
  BY InvTypes DEF Boot, Interrupt, loop
<1>2. /\ host' \in [Host -> HostState] /\ Live' \subseteq Live
      /\ \A g \in Host : host[g] = "gone" => host'[g] = "gone"
  BY <1>1 DEF Boot, Interrupt, Live, TypeOK, HostState
<1>3. NoLess /\ faults' \in [FaultKind -> 0..MaxFaults]
  <2>1. NoFault \/ Fault("other")
    BY DEF Boot, Interrupt, NoFault
  <2> QED
    BY <1>1, <2>1, NoFaultCounts, FaultCounts DEF FaultKind, OneMore
<1>4. TypeOK'
  BY <1>1, <1>2, <1>3 DEF TypeOK
<1>5. Shape'
  BY <1>1, <1>2, NoSuchHost DEF Shape, WithStatus, TypeOK
<1>6. Unknown' \subseteq Unknown /\ Committed' \subseteq Committed
  BY <1>1, <1>2 DEF Unknown, Committed, InService, WithStatus
<1> QED
  BY <1>1, <1>3, <1>4, <1>5, <1>6, Harmless

\* An id that nobody names any more, and a row that grows old.
LEMMA RowsKeep ==
  ASSUME ScalerInv, NEW h \in Host, Recycle(h) \/ Age(h)
  PROVE  ScalerInv'
<1>1. /\ TypeOK /\ Shape /\ waiting' = waiting /\ pc' = pc /\ todo' = todo
      /\ hand' = hand /\ back' = back /\ NoFault
  BY InvTypes DEF Recycle, Age, loop, NoFault
<1>2. NoLess /\ faults' \in [FaultKind -> 0..MaxFaults]
  BY <1>1, NoFaultCounts
<1>3. CASE Recycle(h)
  <2>1. NoRow \in Row /\ NoRow.status = "none"
    BY ScalerAssumption DEF NoRow, Row
  <2>2. /\ row' \in [Host -> Row] /\ host' \in [Host -> HostState]
        /\ h # hand /\ row[h].status \notin {"pending", "running"} /\ host[h] = "gone"
        /\ row'[h].status = "none" /\ host'[h] = "none"
        /\ \A g \in Host : g # h => row'[g] = row[g] /\ host'[g] = host[g]
    BY <1>1, <1>3, <2>1 DEF Recycle, TypeOK, HostState, InService, WithStatus
  <2>3. TypeOK'
    BY <1>1, <1>2, <2>2 DEF TypeOK
  <2>4. Shape'
    BY <1>1, <2>2, NoSuchHost DEF Shape, WithStatus, TypeOK
  <2>5. Unknown' \subseteq Unknown /\ Committed' \subseteq Committed
    BY <1>1, <2>2 DEF Unknown, Live, Committed, InService, WithStatus
  <2> QED
    BY <1>1, <1>2, <2>3, <2>4, <2>5, Harmless
<1>4. CASE Age(h)
  <2>1. /\ host' = host /\ row' \in [Host -> Row]
        /\ \A g \in Host : row'[g].status = row[g].status
    BY <1>1, <1>4 DEF Age, TypeOK, Row
  <2>2. TypeOK'
    BY <1>1, <1>2, <2>1 DEF TypeOK
  <2>3. Shape'
    BY <1>1, <2>1 DEF Shape, WithStatus
  <2>4. Unknown' \subseteq Unknown /\ Committed' \subseteq Committed
    BY <1>1, <2>1 DEF Unknown, Live, Committed, InService, WithStatus
  <2> QED
    BY <1>1, <1>2, <2>2, <2>3, <2>4, Harmless
<1> QED
  BY <1>3, <1>4

\* A crash loses the host in hand.
LEMMA CrashKeeps ==
  ASSUME ScalerInv, Crash
  PROVE  ScalerInv'
<1>1. TypeOK /\ Shape /\ row' = row /\ host' = host /\ waiting' = waiting /\ Goto("down")
  BY InvTypes DEF Crash
<1>2. OneMore("apart") /\ NoLess /\ faults' \in [FaultKind -> 0..MaxFaults]
  BY <1>1, FaultCounts DEF Crash, FaultKind, OneMore
<1>3. /\ pc' = "down" /\ todo' \subseteq Host /\ hand' = NoHost
      /\ back' \in {"monitor", "pending"} /\ Shape'
  BY <1>1, Moves DEF Label
<1>4. TypeOK'
  BY <1>1, <1>2, <1>3 DEF TypeOK
<1>5. Committed' \subseteq Committed /\ Unknown' \subseteq Unknown \cup {hand}
  BY <1>1, <1>3 DEF Committed, Unknown, Live, InService, WithStatus
<1> QED
  BY <1>2, <1>3, <1>4, <1>5, Parting

LEMMA TaskArrivesKeeps ==
  ASSUME ScalerInv, TaskArrives \/ UNCHANGED vars
  PROVE  ScalerInv'
<1>1. /\ TypeOK /\ Shape /\ row' = row /\ host' = host /\ pc' = pc /\ todo' = todo
      /\ hand' = hand /\ back' = back /\ NoFault /\ waiting' \in BOOLEAN
  BY InvTypes DEF TaskArrives, vars, loop, NoFault, TypeOK
<1>2. TypeOK' /\ Shape'
  BY <1>1 DEF TypeOK, Shape, WithStatus, NoFault
<1>3. Unknown' \subseteq Unknown /\ Committed' \subseteq Committed
  BY <1>1 DEF Unknown, Live, Committed, InService, WithStatus
<1>4. NoLess
  BY <1>1, NoFaultCounts
<1> QED
  BY <1>1, <1>2, <1>3, <1>4, Harmless

-----------------------------------------------------------------------------
(* The invariant, and what follows.                                         *)

LEMMA InitScaler ==
  ASSUME Init
  PROVE  ScalerInv
<1>1. NoRow \in Row /\ NoRow.status = "none"
  BY ScalerAssumption DEF NoRow, Row
<1>2. TypeOK
  <2>1. faults \in [FaultKind -> 0..MaxFaults]
    BY ScalerAssumption DEF Init
  <2>2. pc = "spot" /\ "spot" \in Label
    BY DEF Init, Label
  <2> QED
    BY <1>1, <2>1, <2>2, Labels DEF Init, HostState
<1>3. Shape
  BY DEF Init, Shape
<1>4. Unknown = {} /\ Committed = {}
  BY <1>1 DEF Init, Unknown, Live, Committed, InService, WithStatus
<1>5. Cardinality({}) = 0
  BY FS_EmptySet
<1>6. /\ Cardinality(Unknown) = 0 /\ Cardinality(Committed) = 0
      /\ faults["apart"] = 0 /\ faults["insert"] = 0 /\ faults["terminate"] = 0
      /\ pc # "undo" /\ MaxInstances \in Nat
  BY <1>4, <1>5, NoSuchHost DEF Init, FaultKind
<1> QED
  BY <1>2, <1>3, <1>6 DEF ScalerInv, Shape

LEMMA NextScaler ==
  ASSUME ScalerInv, [Next]_vars
  PROVE  ScalerInv'
<1>1. CASE Tick
  BY <1>1, ListKeeps, MovesKeep, DispatchKeeps, CreateInstanceKeeps, TerminateOrphanKeeps,
     RecordTerminatedKeeps, CheckInterruptedKeeps, GiveUpKeeps, LaunchKeeps,
     ReconcilePendingKeeps, ReconcileRunningKeeps, StillUsedKeeps, ScaleDownKeeps DEF Tick
<1>2. CASE Environment
  BY <1>2, TaskArrivesKeeps, CrashKeeps, MovesKeep, ReleaseKeeps, HostsKeep, RowsKeep
     DEF Environment
<1>3. CASE UNCHANGED vars
  BY <1>3, TaskArrivesKeeps
<1> QED
  BY <1>1, <1>2, <1>3 DEF Next

\* For any number of hosts, limit and number of faults: the hosts that no row names
\* are paired with faults, the rows in service and the host being made are within
\* the limit.
THEOREM ScalerInvariance == Spec => []ScalerInv
<1>1. Init => ScalerInv
  BY InitScaler
<1>2. ScalerInv /\ [Next]_vars => ScalerInv'
  BY NextScaler
<1> QED
  BY <1>1, <1>2, PTL DEF Spec

\* A host that runs is in service, in hand, or unknown.
LEMMA LiveCounts ==
  ASSUME ScalerInv
  PROVE  HostsAccounted
<1>1. /\ TypeOK /\ Shape /\ Unknown \in SUBSET Host /\ Committed \in SUBSET Host
      /\ Live \in SUBSET Host
  BY InvTypes, SetsOfHosts
<1>2. Live \subseteq Unknown \cup Committed
  BY <1>1, NoSuchHost DEF Live, Unknown, Committed, Shape
<1>3. /\ IsFiniteSet(Unknown) /\ IsFiniteSet(Committed) /\ IsFiniteSet(Live)
      /\ Cardinality(Unknown) \in Nat /\ Cardinality(Committed) \in Nat
      /\ Cardinality(Live) \in Nat
  BY <1>1, HostsFinite
<1>4. Unknown \cup Committed \in SUBSET Host
  BY <1>1
<1>5. /\ IsFiniteSet(Unknown \cap Committed) /\ Cardinality(Unknown \cap Committed) \in Nat
      /\ Cardinality(Unknown \cup Committed) =
           Cardinality(Unknown) + Cardinality(Committed) - Cardinality(Unknown \cap Committed)
  BY <1>1, <1>3, HostsFinite, FS_Union
<1>6. Cardinality(Live) <= Cardinality(Unknown \cup Committed)
  BY <1>2, <1>4, SubsetCounts
<1>7. Cardinality(Live) <= Cardinality(Unknown) + Cardinality(Committed)
  BY <1>3, <1>5, <1>6
<1>8. \A k \in {"apart", "insert", "terminate"} : faults[k] \in Nat
  BY <1>1, ScalerAssumption DEF TypeOK, FaultKind
<1>9. Explained \in Nat /\ Cardinality(Unknown) <= Explained
  BY <1>3, <1>8 DEF ScalerInv, Explained
<1>10. Cardinality(Committed) <= MaxInstances
  BY DEF ScalerInv
<1> QED
  BY <1>3, <1>7, <1>9, <1>10, NoSuchHost DEF HostsAccounted

\* No host is paid for that the server does not know of but those that faults
\* explain, and the limit bounds the others.
THEOREM NoneForgotten == Spec => []HostsAccounted
BY ScalerInvariance, LiveCounts, PTL

=============================================================================
