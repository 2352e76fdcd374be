----------------------------- MODULE Ec2Scaler -----------------------------
(***************************************************************************)
(* EC2 mode: the scaler and the Spot handler (internal/orchestrator/ec2),    *)
(* between the instances table and the hosts that Amazon runs and bills.    *)
(*                                                                         *)
(* A host and its row are made and ended by separate calls, any of which    *)
(* may fail or be cut short by a crash.  An action is one call to EC2 with  *)
(* the statement that follows from its answer, or the call alone where a    *)
(* crash or a failing statement behind it leaves host and row apart.        *)
(* Module Orchestrator has tasks and containers in full and the scaler in   *)
(* two steps.  Here a task is a wish for a slot and a container is counted, *)
(* and the goroutine that alone writes instance rows runs its tick in order.*)
(*                                                                         *)
(* Bounds: MaxFaults limits crashes, failing calls and statements, and      *)
(* Spot interruptions, taken together.  Host is the set of instance ids; one*)
(* that both EC2 and the server are done with stands for a new one.         *)
(***************************************************************************)
EXTENDS Naturals, FiniteSets

CONSTANTS
  Host,
  MaxInstances,       \* BACKFLOW_MAX_INSTANCES
  ContainersPerInst,  \* BACKFLOW_CONTAINERS_PER_INSTANCE
  MaxFaults

ASSUME ScalerAssumption ==
  /\ Host \subseteq Nat \ {0} /\ IsFiniteSet(Host)
  /\ MaxInstances \in Nat /\ ContainersPerInst \in Nat /\ MaxFaults \in Nat

VARIABLES
  row,      \* the instances table
  host,     \* what EC2 knows of each host
  pc,       \* where the orchestrator's goroutine is in its tick
  todo,     \* the instances of the current list not handled yet
  hand,     \* the host whose row is about to be written
  back,     \* where RequestScaleUp was called
  waiting,  \* whether a pending task waits for a slot
  faults    \* what has gone wrong so far

loop == <<pc, todo, hand, back>>
vars == <<row, host, loop, waiting, faults>>

NoHost == 0

\* A host is booting until EC2 calls it running and its SSM agent and Docker
\* answer.  "gone" is shutting down, terminated, or no longer known.
HostState == {"none", "booting", "ready", "gone"}

\* A row is old when it was last written more than five minutes ago: the
\* idleTimeout of scaleDown, and the patience with a pending instance, whose
\* row nothing writes after its creation.
Row == [status : {"none", "pending", "running", "draining", "terminated"},
        count : 0..ContainersPerInst, old : BOOLEAN]

NoRow == [status |-> "none", count |-> 0, old |-> FALSE]

\* "apart" is a crash, or a call of EC2 or SSM that fails or whose answer is
\* lost, each of which may part a host from its row; "other" cannot.
FaultKind == {"apart", "insert", "terminate", "other"}

Fault(kind) ==
  /\ faults["apart"] + faults["insert"] + faults["terminate"] + faults["other"] < MaxFaults
  /\ faults' = [faults EXCEPT ![kind] = @ + 1]

NoFault == UNCHANGED faults

Live          == {h \in Host : host[h] \in {"booting", "ready"}}
WithStatus(s) == {h \in Host : row[h].status = s}
InService     == WithStatus("pending") \cup WithStatus("running")
Roomy_OneMore == {h \in WithStatus("running") : row[h].count <= ContainersPerInst}

Roomy == {h \in WithStatus("running") : row[h].count < ContainersPerInst}

-----------------------------------------------------------------------------
(* Statements on the instances table.                                       *)

UpdateInstanceStatus(h, s) ==
  [row EXCEPT ![h] = [status |-> s, old |-> FALSE,
                      count |-> IF s = "terminated" THEN 0 ELSE @.count]]

\* When the statement fails the caller ignores the error and goes on.
WriteStatus(h, s) ==
  \/ row' = UpdateInstanceStatus(h, s) /\ NoFault
  \/ UNCHANGED row /\ Fault("other")

\* IncrementRunningContainers and DecrementRunningContainers.
SetCount(h, n) == row' = [row EXCEPT ![h].count = n, ![h].old = FALSE]

-----------------------------------------------------------------------------
(* The tick: CheckInterruptions, the monitors, dispatchPending, and Evaluate *)
(* with its three loops.                                                    *)

Goto(label) == pc' = label /\ todo' = {} /\ hand' = NoHost /\ back' = "pending"

NextLoop == [spot |-> "monitor", pending |-> "running", running |-> "idle", idle |-> "spot"]

\* ListInstances, at the start of the loops; a loop whose list fails is skipped.
List ==
  /\ pc \in DOMAIN NextLoop /\ todo = {}
  /\ LET listed == WithStatus(IF pc = "pending" THEN "pending" ELSE "running")
     IN  \/ listed = {} /\ Goto(NextLoop[pc]) /\ NoFault
         \/ listed # {} /\ todo' = listed /\ UNCHANGED <<pc, hand, back>> /\ NoFault
         \/ listed # {} /\ Goto(NextLoop[pc]) /\ Fault("other")
  /\ UNCHANGED <<row, host, waiting>>

\* The loop has h at hand.
In(label, h) == pc = label /\ h \in todo /\ \A g \in todo : h <= g

Continue(h) ==
  IF todo = {h} THEN Goto(NextLoop[pc])
                ELSE todo' = todo \ {h} /\ UNCHANGED <<pc, hand, back>>

\* DescribeInstance fails, as it does for a host that EC2 has forgotten.
DescribeFails(h) == (host[h] = "gone" /\ NoFault) \/ Fault("apart")

-----------------------------------------------------------------------------
(* CheckInterruptions, and what the monitors do to instance rows.           *)

\* The tasks of a host that is gone are requeued.
CheckInterrupted(h) ==
  /\ In("spot", h)
  /\ \/ /\ host[h] = "gone"
        /\ WriteStatus(h, "draining")
        /\ waiting' = (waiting \/ row[h].count > 0)
     \/ host[h] # "gone" /\ NoFault /\ UNCHANGED <<row, waiting>>
     \/ DescribeFails(h) /\ UNCHANGED <<row, waiting>>
  /\ Continue(h)
  /\ UNCHANGED host

\* An agent has ended: releaseInstanceSlot.
Release(h) ==
  /\ pc = "monitor" /\ row[h].count > 0
  /\ \/ SetCount(h, row[h].count - 1) /\ NoFault
     \/ UNCHANGED row /\ Fault("other")
  /\ UNCHANGED <<host, loop, waiting>>

\* requeueTask and requeueRecoveringTask: an agent cannot be inspected, so its
\* instance is marked terminated and another one asked for.
GiveUp(h) ==
  /\ pc = "monitor" /\ row[h].count > 0
  /\ IF host[h] = "gone" THEN WriteStatus(h, "terminated")
                         ELSE row' = UpdateInstanceStatus(h, "terminated") /\ Fault("apart")
  /\ waiting' = TRUE
  /\ pc' = "scaleUp" /\ back' = "monitor"
  /\ UNCHANGED <<host, todo, hand>>

MonitorsDone ==
  /\ pc = "monitor"
  /\ Goto("dispatch")
  /\ UNCHANGED <<row, host, waiting, faults>>

-----------------------------------------------------------------------------
(* dispatchPending.                                                         *)

NothingPending ==
  /\ pc = "dispatch" /\ ~ waiting
  /\ Goto("pending")
  /\ UNCHANGED <<row, host, waiting, faults>>

\* On a host that is gone the launch fails, and the task with it.
Dispatch ==
  /\ pc = "dispatch" /\ waiting
  /\ \E h \in Roomy : IF host[h] = "gone" THEN UNCHANGED row
                                         ELSE SetCount(h, row[h].count + 1)
  /\ waiting' = FALSE
  /\ Goto("pending")
  /\ UNCHANGED <<host, faults>>

NoCapacity ==
  /\ pc = "dispatch" /\ waiting /\ Roomy = {}
  /\ Goto("scaleUp")
  /\ UNCHANGED <<row, host, waiting, faults>>

-----------------------------------------------------------------------------
(* RequestScaleUp.                                                          *)

\* None is pending, and fewer than the limit are in use.
MayLaunch == WithStatus("pending") = {} /\ Cardinality(InService) < MaxInstances

SkipScaleUp ==
  /\ pc = "scaleUp"
  /\ (~ MayLaunch /\ NoFault) \/ Fault("other")
  /\ Goto(back)
  /\ UNCHANGED <<row, host, waiting>>

\* LaunchSpotInstance.  Unless its answer is lost, the new host is in hand.
Launch(h) ==
  /\ pc = "scaleUp" /\ MayLaunch
  /\ host[h] = "none" /\ row[h].status = "none"
  /\ host' = [host EXCEPT ![h] = "booting"]
  /\ \/ pc' = "insert" /\ hand' = h /\ UNCHANGED <<todo, back>> /\ NoFault
     \/ Goto(back) /\ Fault("apart")
  /\ UNCHANGED <<row, waiting>>

Inserted == [row EXCEPT ![hand] = [NoRow EXCEPT !.status = "pending"]]

CreateInstance_NoUndo ==
  /\ pc = "insert"
  /\ \/ row' = Inserted /\ NoFault
     \/ row' \in {row, Inserted} /\ Fault("insert")
  /\ Goto(back)
  /\ UNCHANGED <<host, waiting>>

\* A failing CreateInstance, which may have inserted the row, is to be undone.
CreateInstance ==
  /\ pc = "insert"
  /\ \/ row' = Inserted /\ Goto(back) /\ NoFault
     \/ /\ row' \in {row, Inserted} /\ Fault("insert")
        /\ pc' = "undo" /\ UNCHANGED <<todo, hand, back>>
  /\ UNCHANGED <<host, waiting>>

\* TerminateInstance; a call that fails may have taken effect.
Terminated(h) ==
  \/ host' = [host EXCEPT ![h] = "gone"] /\ NoFault
  \/ host' \in {host, [host EXCEPT ![h] = "gone"]} /\ Fault("terminate")

\* Nothing more is tried when this fails.
TerminateOrphan ==
  /\ pc = "undo"
  /\ Terminated(hand)
  /\ Goto(back)
  /\ UNCHANGED <<row, waiting>>

-----------------------------------------------------------------------------
(* Evaluate.                                                                *)

ReconcilePending_IgnoresDead(h) ==
  /\ In("pending", h)
  /\ \/ host[h] = "ready" /\ WriteStatus(h, "running")
     \/ host[h] # "ready" /\ NoFault /\ UNCHANGED row
  /\ Continue(h)
  /\ UNCHANGED <<host, waiting>>

\* A host that runs is put to use when SSM and Docker answer; one that is gone
\* is given up, as is an old row whose host cannot be described.
ReconcilePending(h) ==
  /\ In("pending", h)
  /\ \/ host[h] = "ready" /\ WriteStatus(h, "running")
     \/ host[h] = "gone" /\ WriteStatus(h, "terminated")
     \/ host[h] = "booting" /\ NoFault /\ UNCHANGED row
     \/ /\ DescribeFails(h)
        /\ row' = IF row[h].old THEN UpdateInstanceStatus(h, "terminated") ELSE row
  /\ Continue(h)
  /\ UNCHANGED <<host, waiting>>

ReconcileRunning_Touches(h) ==
  /\ In("running", h)
  /\ WriteStatus(h, IF host[h] = "gone" THEN "terminated" ELSE "running")
  /\ Continue(h)
  /\ UNCHANGED <<host, waiting>>

\* A running row is given up with its host, or at the first failing call.
ReconcileRunning(h) ==
  /\ In("running", h)
  /\ \/ host[h] = "gone" /\ WriteStatus(h, "terminated")
     \/ host[h] # "gone" /\ NoFault /\ UNCHANGED row
     \/ DescribeFails(h) /\ row' = UpdateInstanceStatus(h, "terminated")
  /\ Continue(h)
  /\ UNCHANGED <<host, waiting>>

StillUsed(h) ==
  /\ In("idle", h)
  /\ row[h].count > 0 \/ ~ row[h].old
  /\ Continue(h)
  /\ UNCHANGED <<row, host, waiting, faults>>

\* scaleDown as far as TerminateInstance; when that fails the row is kept.
ScaleDown(h) ==
  /\ In("idle", h)
  /\ row[h].count = 0 /\ row[h].old
  /\ Terminated(h)
  /\ IF faults' = faults
       THEN pc' = "record" /\ hand' = h /\ UNCHANGED <<todo, back>>
       ELSE Continue(h)
  /\ UNCHANGED <<row, waiting>>

RecordTerminated ==
  /\ pc = "record"
  /\ WriteStatus(hand, "terminated")
  /\ IF todo = {hand} THEN Goto("spot")
                      ELSE /\ pc' = "idle" /\ todo' = todo \ {hand}
                           /\ hand' = NoHost /\ UNCHANGED back
  /\ UNCHANGED <<host, waiting>>

-----------------------------------------------------------------------------
(* EC2, time, users and crashes.                                            *)

Boot(h) ==
  /\ host[h] = "booting"
  /\ host' = [host EXCEPT ![h] = "ready"]
  /\ UNCHANGED <<row, loop, waiting, faults>>

\* A Spot interruption.
Interrupt(h) ==
  /\ h \in Live
  /\ host' = [host EXCEPT ![h] = "gone"]
  /\ Fault("other")
  /\ UNCHANGED <<row, loop, waiting>>

\* An id that neither EC2 nor the server will name again.
Recycle(h) ==
  /\ host[h] = "gone" /\ h \notin InService /\ h # hand
  /\ host' = [host EXCEPT ![h] = "none"]
  /\ row' = [row EXCEPT ![h] = NoRow]
  /\ UNCHANGED <<loop, waiting, faults>>

\* Five minutes pass without a write.  The two last loops of a tick, behind the
\* wait for Docker, take less than that.
Age(h) ==
  /\ pc \notin {"running", "idle", "record"}
  /\ h \in InService /\ ~ row[h].old
  /\ row' = [row EXCEPT ![h].old = TRUE]
  /\ UNCHANGED <<host, loop, waiting, faults>>

TaskArrives ==
  /\ waiting' = TRUE
  /\ UNCHANGED <<row, host, loop, faults>>

\* A crash, or a shutdown, whose cancelled context fails every later call of
\* the tick.
Crash ==
  /\ pc # "down"
  /\ Goto("down")
  /\ Fault("apart")
  /\ UNCHANGED <<row, host, waiting>>

Restart ==
  /\ pc = "down"
  /\ Goto("spot")
  /\ UNCHANGED <<row, host, waiting, faults>>

-----------------------------------------------------------------------------
Init ==
  /\ row = [h \in Host |-> NoRow]
  /\ host = [h \in Host |-> "none"]
  /\ pc = "spot" /\ todo = {} /\ hand = NoHost /\ back = "pending"
  /\ waiting = FALSE
  /\ faults = [k \in FaultKind |-> 0]

Tick ==
  \/ List \/ MonitorsDone \/ NothingPending \/ Dispatch \/ NoCapacity
  \/ SkipScaleUp \/ CreateInstance \/ TerminateOrphan \/ RecordTerminated
  \/ \E h \in Host :
       \/ CheckInterrupted(h) \/ GiveUp(h) \/ Launch(h)
       \/ ReconcilePending(h) \/ ReconcileRunning(h) \/ StillUsed(h) \/ ScaleDown(h)

Environment ==
  \/ TaskArrives \/ Crash \/ Restart
  \/ \E h \in Host : Release(h) \/ Boot(h) \/ Interrupt(h) \/ Recycle(h) \/ Age(h)

Next == Tick \/ Environment

Spec == Init /\ [][Next]_vars

\* The tick's calls return, the service is started again, time passes; ids run
\* out only in the model.  Nothing is assumed of EC2 or of the agents.
Fairness ==
  /\ WF_vars(Tick) /\ WF_vars(Restart)
  /\ \A h \in Host : SF_vars(Age(h)) /\ WF_vars(Recycle(h))

FairSpec == Spec /\ Fairness

-----------------------------------------------------------------------------
TypeOK ==
  /\ row \in [Host -> Row] /\ host \in [Host -> HostState]
  /\ pc \in DOMAIN NextLoop \cup {"monitor", "dispatch", "scaleUp", "insert", "undo",
                                  "record", "down"}
  /\ todo \subseteq Host /\ hand \in Host \cup {NoHost}
  /\ back \in {"monitor", "pending"}
  /\ waiting \in BOOLEAN
  /\ faults \in [FaultKind -> 0..MaxFaults]

\* Hosts that run and that no row in service, or about to be, names.
Unknown == {h \in Live : h \notin InService /\ h # hand}

\* Instances in service, and the one that is being made.
Committed == InService \cup (IF pc \in {"insert", "undo"} THEN {hand} ELSE {})

\* As many hosts as the faults so far can have parted from their rows: each
\* crash or failing call one, a failing insert one if the termination that is
\* to undo it fails as well.
Explained ==
  faults["apart"] + IF faults["insert"] < faults["terminate"] THEN faults["insert"]
                                                              ELSE faults["terminate"]

\* A host that runs is named by a row in service, or about to be: none is paid
\* for that the server does not know of, but those that faults explain.  So
\* BACKFLOW_MAX_INSTANCES bounds the hosts that run, not only the rows.
HostsAccounted ==
  /\ Cardinality(Unknown) <= Explained
  /\ Cardinality(Live) <= MaxInstances + Explained

\* The argument for it, inductive: an insert that is yet to be undone is not yet
\* paired with a failing termination, and the scaler makes an instance only
\* below the limit, which no other step of a tick lets rows exceed.
ScalerInv ==
  /\ TypeOK
  /\ pc = "pending" => todo \subseteq WithStatus("pending")
  /\ pc \in {"insert", "undo", "record"} <=> hand # NoHost
  /\ pc = "record" => host[hand] = "gone"
  /\ Cardinality(Committed) <= MaxInstances
  /\ Cardinality(Unknown) <= faults["apart"] + faults["terminate"]
  /\ Cardinality(Unknown) + (IF pc = "undo" THEN 1 ELSE 0) <= faults["apart"] + faults["insert"]

\* No host boots for good: its SSM agent and its Docker come up, or it is gone.
HostsSettle == \A h \in Host : []<>(host[h] # "booting")

\* Every place is taken: there are as many instances as allowed, without room.
Full == Roomy = {} /\ Cardinality(WithStatus("running")) >= MaxInstances

\* A waiting task is served as long as hosts become ready: whatever dies, fails
\* or crashes on the way, it never blocks the next launch for good.  The slots of
\* o.running that an interruption loses (spot.go:84) are left aside: Dispatch
\* goes by the instances alone.
TaskServed == HostsSettle => (waiting ~> (~ waiting \/ Full))

\* An instance without work is given up, whatever calls have failed.
IdleTerminated ==
  \A h \in Host : (h \in WithStatus("running") /\ row[h].count = 0) ~>
                    ~ (h \in WithStatus("running") /\ row[h].count = 0)

=============================================================================
