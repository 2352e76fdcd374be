------------------------- MODULE OrchestratorProofs -------------------------
(***************************************************************************)
(* Theorems about the orchestrator, for every number of tasks, instances,    *)
(* requests, crashes and faults: types, limits and the retry budget.  They   *)
(* rest on the inductive invariant IInv of OrchestratorProperties, which is  *)
(* proved one group of actions at a time from what the skeleton of a loop    *)
(* (EnterPhase, ListInto, Continue, Goto) does to the variables of the loop. *)
(***************************************************************************)
EXTENDS OrchestratorProperties, FiniteSetsExt, TLAPS, FiniteSetTheorems, WellFoundedInduction

-----------------------------------------------------------------------------
(* The statements: each leaves a well-formed table behind, and ListTasks     *)
(* with a limit returns no more rows than asked.  First, what is needed of    *)
(* smallest and greatest elements.                                          *)

\* A non-empty set of naturals has the least element FiniteSetsExt names.
LEMMA MinInSet == ASSUME NEW S \in SUBSET Nat, S # {}
                  PROVE  Min(S) \in S /\ \A y \in S : Min(S) <= y
<1> DEFINE R == OpToRel(<, Nat)
<1>1. PICK n \in S : \A m \in S : ~ (<<m, n>> \in R)
  <2> HIDE DEF R
  <2>1. IsWellFoundedOn(R, Nat)
    BY NatLessThanWellFounded DEF R
  <2> QED
    BY <2>1, WFMin
<1>2. ASSUME NEW m \in S PROVE n <= m
  <2>1. ~ (m < n)
    BY <1>1 DEF OpToRel
  <2> QED
    BY <2>1
<1> QED
  BY <1>2 DEF Min

\* A non-empty set of naturals below a bound has a greatest element: the
\* distances to the bound have a least one.
LEMMA MaxExists ==
  ASSUME NEW N \in Nat, NEW S, S # {}, \A y \in S : y \in Nat /\ y <= N
  PROVE  \E m \in S : \A y \in S : y <= m
<1> DEFINE D == {N - y : y \in S}
<1>1. D \subseteq Nat /\ D # {}
  <2>1. \A y \in S : N - y \in Nat
    OBVIOUS
  <2> QED BY <2>1
<1>2. PICK d \in D : \A e \in D : d <= e
  <2> HIDE DEF D
  <2> QED BY <1>1, MinInSet
<1>3. PICK m \in S : d = N - m
  OBVIOUS
<1>4. \A y \in S : N - m <= N - y
  BY <1>2, <1>3
<1> QED
  BY <1>4

-----------------------------------------------------------------------------
(* ListTasks.                                                               *)

\* Sets of tasks are finite.
LEMMA TasksFinite == ASSUME NEW S \in SUBSET Task PROVE IsFiniteSet(S)
<1>1. IsFiniteSet(Task)
  BY StoreAssumption, FS_Interval DEF Task
<1> QED
  BY <1>1, FS_Subset

\* ORDER BY created_at LIMIT k returns tasks of the set it selects from, and
\* at most k of them.
LEMMA OldestFirstBounded ==
  ASSUME NEW S \in SUBSET Task, NEW k \in Nat
  PROVE  /\ OldestFirst(S, k) \subseteq S
         /\ Cardinality(OldestFirst(S, k)) <= k
<1> DEFINE R == OldestFirst(S, k)
<1>1. R \subseteq S
  BY DEF OldestFirst
<1>2. CASE R = {}
  BY <1>1, <1>2, FS_EmptySet
<1>3. CASE R # {}
  <2>1. PICK m \in R : \A y \in R : y <= m
    <3>1. \A y \in S : y \in Nat /\ y <= NumTasks
      BY StoreAssumption DEF Task
    <3> HIDE DEF R
    <3>2. \A y \in R : y \in Nat /\ y <= NumTasks
      BY <1>1, <3>1
    <3> QED
      BY <3>2, <1>3, MaxExists, StoreAssumption
  <2> DEFINE B == {u \in S : u < m}
  <2>2. m \in Task /\ Cardinality(B) < k
    BY <1>1, <2>1 DEF OldestFirst
  <2>3. IsFiniteSet(B) /\ Cardinality(B) \in Nat
    BY TasksFinite, FS_CardinalityType
  <2>4. R \subseteq B \cup {m}
    <3>1. \A y \in S : y \in Nat
      BY StoreAssumption DEF Task
    <3> HIDE DEF R
    <3>2. \A y \in R : y \in S /\ (y < m \/ y = m)
      BY <1>1, <2>1, <3>1
    <3> QED
      BY <3>2
  <2>5. IsFiniteSet(B \cup {m}) /\ Cardinality(B \cup {m}) <= k
    <3> HIDE DEF B
    <3>1. /\ IsFiniteSet(B \cup {m})
          /\ Cardinality(B \cup {m}) \in {Cardinality(B), Cardinality(B) + 1}
      BY <2>3, FS_AddElement
    <3> QED
      BY <2>2, <2>3, <3>1
  <2>6. Cardinality(R) <= Cardinality(B \cup {m})
    <3> HIDE DEF R, B
    <3> QED BY <2>4, <2>5, FS_Subset
  <2>7. Cardinality(R) \in Nat /\ Cardinality(B \cup {m}) \in Nat
    <3> HIDE DEF R, B
    <3> QED BY <2>4, <2>5, FS_Subset, FS_CardinalityType
  <2> QED
    BY <1>1, <2>5, <2>6, <2>7
<1> QED
  BY <1>2, <1>3

-----------------------------------------------------------------------------
(* The statements preserve the tables.                                      *)

\* An UPDATE that keeps a row in the table keeps the table well formed.
LEMMA UpdateRowType ==
  ASSUME NEW db \in TaskTable, NEW t \in Task, NEW row \in Row,
         row.status \notin Absent
  PROVE  UpdateRow(db, t, row) \in TaskTable
BY DEF UpdateRow, TaskTable, Row

\* Every statement on the tasks table leaves a well-formed table behind.
LEMMA StatementTypes ==
  ASSUME NEW db \in TaskTable, NEW t \in Task
  PROVE  /\ CreateTask(db, t) \in TaskTable
         /\ DeleteTask(db, t) \in TaskTable
         /\ \A s \in TaskStatus : UpdateTaskStatus(db, t, s) \in TaskTable
         /\ \A i \in Instance : AssignTask(db, t, i) \in TaskTable
         /\ \A c \in Nat : StartTask(db, t, c) \in TaskTable
         /\ RequeueTask(db, t) \in TaskTable
         /\ ClearTaskAssignment(db, t) \in TaskTable
         /\ MarkReadyForRetry(db, t) \in TaskTable
         /\ RetryTask(db, t) \in TaskTable
<1> USE DEF Row, TaskStatus, Absent, NoInstance, NoContainer
<1>1. db[t] \in Row
  BY DEF TaskTable
<1>2. CreateTask(db, t) \in TaskTable
  <2>1. /\ [EmptyRow EXCEPT !.status = "pending"] \in Row
        /\ [EmptyRow EXCEPT !.status = "pending"].status = "pending"
    BY DEF EmptyRow
  <2> QED
    BY <2>1 DEF CreateTask, TaskTable
<1>3. DeleteTask(db, t) \in TaskTable
  <2> DEFINE row == [EmptyRow EXCEPT !.status = "deleted"]
  <2>1. row \in Row /\ ~ row.ready /\ row.uretry = 0
    BY DEF EmptyRow
  <2> HIDE DEF row
  <2>2. UpdateRow(db, t, row) \in TaskTable
    BY <2>1 DEF UpdateRow, TaskTable
  <2> QED
    BY <2>2 DEF DeleteTask, row
<1>4. ASSUME NEW s \in TaskStatus PROVE UpdateTaskStatus(db, t, s) \in TaskTable
  BY <1>1, UpdateRowType DEF UpdateTaskStatus
<1>5. ASSUME NEW i \in Instance PROVE AssignTask(db, t, i) \in TaskTable
  BY <1>1, UpdateRowType DEF AssignTask
<1>6. ASSUME NEW c \in Nat PROVE StartTask(db, t, c) \in TaskTable
  BY <1>1, UpdateRowType DEF StartTask
<1>7. RequeueTask(db, t) \in TaskTable
  BY <1>1, UpdateRowType DEF RequeueTask
<1>8. ClearTaskAssignment(db, t) \in TaskTable
  <2>1. CASE InTable(db, t)
    BY <1>1, <2>1, UpdateRowType DEF ClearTaskAssignment, InTable
  <2>2. CASE ~ InTable(db, t)
    BY <2>2 DEF ClearTaskAssignment, UpdateRow
  <2> QED BY <2>1, <2>2
<1>9. MarkReadyForRetry(db, t) \in TaskTable
  <2>1. CASE InTable(db, t)
    BY <1>1, <2>1, UpdateRowType DEF MarkReadyForRetry, InTable
  <2>2. CASE ~ InTable(db, t)
    BY <2>2 DEF MarkReadyForRetry, UpdateRow
  <2> QED BY <2>1, <2>2
<1>10. RetryTask(db, t) \in TaskTable
  <2> DEFINE row == [db[t] EXCEPT !.status = "pending", !.inst = NoInstance,
                                  !.cont = NoContainer, !.started = FALSE,
                                  !.ready = FALSE, !.uretry = @ + 1]
  <2>1. row \in Row /\ row.status \notin Absent
    <3>1. db[t].uretry + 1 \in Nat
      BY <1>1
    <3> QED
      BY <1>1, <3>1
  <2>2. UpdateRow(db, t, row) \in TaskTable
    <3> HIDE DEF row
    <3> QED BY <2>1, UpdateRowType
  <2>3. RetryTask(db, t) \in {UpdateRow(db, t, row), db}
    BY Zenon DEF RetryTask
  <2> QED
    BY <2>2, <2>3
<1> QED
  BY <1>2, <1>3, <1>4, <1>5, <1>6, <1>7, <1>8, <1>9, <1>10

\* Every statement on the instances table, on any instance_id, leaves a
\* well-formed table behind.
LEMMA InstanceStatementTypes ==
  ASSUME NEW tbl \in InstanceTable, NEW i
  PROVE  /\ \A s \in InstanceStatus : UpdateInstanceStatus(tbl, i, s) \in InstanceTable
         /\ IncrementRunningContainers(tbl, i) \in InstanceTable
         /\ DecrementRunningContainers(tbl, i) \in InstanceTable
<1> USE DEF InstanceTable, InstanceRow, UpdateInstanceStatus,
           IncrementRunningContainers, DecrementRunningContainers
<1>1. CASE i \in Instance
  BY <1>1 DEF InstanceStatus
<1>2. CASE i \notin Instance
  BY <1>2
<1> QED
  BY <1>1, <1>2

-----------------------------------------------------------------------------
\* Two abbreviations that every group of actions uses.
USE DEF ListPCs, StoreFails

-----------------------------------------------------------------------------
(* The skeleton of a loop.                                                  *)

\* The type of the loop's variables, and its shape.
LoopOK ==
  /\ phase \in Phases /\ pc \in PCs
  /\ todo \subseteq Task
  /\ snap \in [Task -> Row]
  /\ chosen \in Instance \cup {NoInstance}
  /\ LoopShape

\* The phases whose loops handle tasks after the server has recovered.
TaskPhases == {"spot", "cancelled", "recovering", "running", "dispatch"}

\* What a step of a loop of TaskPhases leads to: the slots dispatch counted
\* are those of a list it goes on handling, or there is no such list.
StaysUp ==
  /\ phase' \notin {"down", "recover"}
  /\ phase' = "dispatch" /\ pc' # "list" =>
       phase = "dispatch" /\ pc # "list" /\ todo' \subseteq todo

\* The task in hand is a task of the list.
LEMMA CurrentInTodo ==
  ASSUME todo \subseteq Task, todo # {}
  PROVE  Current \in todo /\ Current \in Task
<1>1. \A S \in SUBSET todo : S # {} => Min(S) \in S
  BY MinInSet, StoreAssumption DEF Task
<1> QED
  BY <1>1 DEF Current

\* The container launched last for a task has an id, 0 when there is none.
LEMMA NewestType ==
  ASSUME ctr \in Seq(Container), NEW t
  PROVE  Newest(t) \in Nat
<1> DEFINE S == {NoContainer} \cup {c \in DOMAIN ctr : ctr[c].task = t}
<1>1. Len(ctr) \in Nat /\ DOMAIN ctr = 1..Len(ctr)
  OBVIOUS
<1>2. S # {} /\ \A y \in S : y \in Nat /\ y <= Len(ctr)
  BY <1>1 DEF NoContainer
<1>3. \E m \in S : \A y \in S : y <= m
  <2> HIDE DEF S
  <2> QED
    BY <1>1, <1>2, MaxExists
<1>4. \E m \in S : \A y \in S : m >= y
  BY <1>2, <1>3
<1>5. Max(S) \in S
  <2> HIDE DEF S
  <2> QED
    BY <1>4 DEF Max
<1> QED
  BY <1>2, <1>5 DEF Newest

LEMMA EmptyRowType == EmptyRow \in Row
BY DEF EmptyRow, Row, TaskStatus, Absent, NoInstance, NoContainer

\* The next loop of the tick is a loop, and not the one before it.
LEMMA NextPhaseType ==
  /\ FirstPhase \in {"spot", "cancelled"}
  /\ \A p \in Phases : NextPhase[p] \in Phases \ {"down", "recover"}
  /\ \A p \in Phases : NextPhase[p] # p
BY DEF FirstPhase, NextPhase, Phases

\* A label tells in which loops it is.
LEMMA LabelPhase ==
  ASSUME LoopOK
  PROVE  /\ pc = "clear" => phase \in {"recover", "cancelled"}
         /\ pc \in {"release", "ready"} => phase \in {"cancelled", "recovering", "running"}
         /\ pc \in {"releaseCompleted", "requeue"} => phase \in {"recovering", "running"}
         /\ pc = "kill" => phase = "running"
         /\ pc \in {"run", "start", "fail"} => phase = "dispatch"
         /\ pc \in {"listProvisioning", "listRecovering", "finish"} => phase = "recover"
         /\ pc = "listInterrupted" => phase = "spot"
BY DEF LoopOK, LoopShape, Labels, Phases

\* A new loop begins with an empty list.
LEMMA EnterPhaseOK ==
  ASSUME NEW p \in Phases, EnterPhase(p)
  PROVE  LoopOK' /\ phase' = p /\ pc' = "list"
BY DEF EnterPhase, LoopOK, LoopShape, Labels, Phases, PCs, EmptyRow, Row,
       TaskStatus, Absent, NoInstance, NoContainer

\* A list of tasks is well formed, and starts a loop or ends it at once.
LEMMA ListIntoOK ==
  ASSUME LoopOK, phase \in TaskPhases, NEW S \in SUBSET Task, task \in TaskTable,
         ListInto(S)
  PROVE  /\ LoopOK'
         /\ \/ phase' = phase /\ todo' = S /\ pc' = "next"
            \/ phase' = NextPhase[phase] /\ pc' = "list"
<1>1. CASE S = {}
  BY <1>1, EnterPhaseOK, NextPhaseType DEF ListInto, LoopOK
<1>2. CASE S # {}
  <2>1. snap' \in [Task -> Row]
    BY <1>2, EmptyRowType DEF ListInto, TaskTable
  <2>2. pc' \in PCs /\ pc' \in Labels[phase']
    BY <1>2 DEF ListInto, TaskPhases, Labels, PCs, Phases
  <2> QED
    BY <1>2, <2>1, <2>2 DEF ListInto, LoopOK, LoopShape
<1> QED
  BY <1>1, <1>2

\* Going on to the next task drops the one in hand, or ends the loop.
LEMMA ContinueOK ==
  ASSUME LoopOK, phase \in TaskPhases, todo # {}, Continue
  PROVE  /\ LoopOK'
         /\ \/ phase' = phase /\ todo' = todo \ {Current} /\ pc' = "next"
            \/ phase' \in Phases \ {"down", "recover", "dispatch"} /\ pc' = "list"
            \/ phase # "dispatch" /\ phase' = "dispatch" /\ pc' = "list"
<1>1. CASE todo # {Current}
  <2>1. snap' \in [Task -> Row]
    BY <1>1, EmptyRowType DEF Continue, LoopOK
  <2>2. todo' # {} /\ todo' \subseteq Task
    BY <1>1, CurrentInTodo DEF Continue, LoopOK
  <2>3. pc' \in PCs /\ pc' \in Labels[phase'] /\ pc' # "run"
    BY <1>1 DEF Continue, TaskPhases, Labels, PCs, Phases
  <2> QED
    BY <1>1, <2>1, <2>2, <2>3 DEF Continue, LoopOK, LoopShape
<1>2. CASE todo = {Current}
  <2>1. PICK p \in Phases \ {"down", "recover"} :
          EnterPhase(p) /\ (p = "dispatch" => phase # "dispatch")
    BY <1>2, NextPhaseType DEF Continue, LoopOK, TaskPhases, Phases
  <2> QED
    BY <2>1, EnterPhaseOK
<1> QED
  BY <1>1, <1>2

\* A step within the handling of one task keeps the list.
LEMMA GotoOK ==
  ASSUME LoopOK, todo # {}, NEW label \in Labels[phase], label # "run",
         Goto(label)
  PROVE  LoopOK' /\ phase' = phase /\ todo' = todo /\ pc' = label
<1>1. label \in PCs
  BY DEF LoopOK, Labels, Phases, PCs
<1> QED
  BY <1>1 DEF Goto, LoopOK, LoopShape

LEMMA ContinueStays ==
  ASSUME LoopOK, phase \in TaskPhases, pc # "list", todo # {}, Continue
  PROVE  LoopOK' /\ StaysUp
BY ContinueOK, ContinueOK DEF StaysUp, TaskPhases

LEMMA ListIntoStays ==
  ASSUME LoopOK, phase \in TaskPhases \ {"dispatch"}, task \in TaskTable,
         NEW S \in SUBSET Task, ListInto(S)
  PROVE  LoopOK' /\ StaysUp
BY ListIntoOK, NextPhaseType DEF StaysUp, TaskPhases, LoopOK

LEMMA GotoStays ==
  ASSUME LoopOK, phase \in TaskPhases, pc # "list", todo # {},
         NEW label \in Labels[phase], label # "run", Goto(label)
  PROVE  LoopOK' /\ StaysUp
BY GotoOK DEF StaysUp, TaskPhases

-----------------------------------------------------------------------------
(* The other variables.                                                     *)

\* The type of the variables outside the loop.
RestOK ==
  /\ task \in TaskTable /\ inst \in InstanceTable
  /\ ctr \in Seq(Container)
  /\ dead \subseteq Instance /\ expired \subseteq Task
  /\ running \in Nat
  /\ failures \in [Task -> 0..maxInspectFailures]
  /\ req \in [Requests -> [op : Ops \cup {"none"}, task : Task \cup {0}]]
  /\ crashes \in Nat /\ faults \in Nat /\ storeFaults \in Nat
  /\ RequestShape

LEMMA IInvParts == IInv <=> LoopOK /\ RestOK /\ SlotBudget
BY DEF IInv, TypeOK, LoopOK, RestOK

LEMMA MaxConcurrentType == MaxConcurrent \in Nat
<1>1. MaxInstances * ContainersPerInst \in Nat
  BY OrchestratorAssumption
<1> QED
  BY <1>1, OrchestratorAssumption DEF MaxConcurrent

\* The slots that dispatch counted still cover its list after a step that
\* takes none.
LEMMA SlotBudgetKept ==
  ASSUME SlotBudget, LoopOK, RestOK, RestOK', StaysUp, running' <= running
  PROVE  SlotBudget'
<1>1. CASE phase' = "dispatch" /\ pc' # "list"
  <2>1. running + Cardinality(todo) <= MaxConcurrent
    BY <1>1 DEF StaysUp, SlotBudget
  <2>2. /\ Cardinality(todo) \in Nat /\ Cardinality(todo') \in Nat
        /\ Cardinality(todo') <= Cardinality(todo)
    <3>1. IsFiniteSet(todo) /\ todo' \in SUBSET todo
      BY <1>1, TasksFinite DEF LoopOK, StaysUp
    <3> QED
      BY <3>1, FS_Subset, FS_CardinalityType
  <2>3. running' + Cardinality(todo') <= MaxConcurrent
    BY <2>1, <2>2, MaxConcurrentType DEF RestOK
  <2> QED
    BY <2>3, MaxConcurrentType DEF SlotBudget, StaysUp, MaxConcurrent
<1>2. CASE ~ (phase' = "dispatch" /\ pc' # "list")
  BY <1>2 DEF SlotBudget, StaysUp
<1> QED
  BY <1>1, <1>2

\* A step of a loop of TaskPhases that takes no slot keeps the invariant.
LEMMA IInvKept ==
  ASSUME LoopOK, RestOK, SlotBudget, LoopOK', RestOK', StaysUp, running' <= running
  PROVE  IInv'
BY SlotBudgetKept DEF IInv, TypeOK, LoopOK, RestOK

\* So does a step that leaves the loop and o.running alone.
LEMMA IInvKeptAlongside ==
  ASSUME LoopOK, RestOK', SlotBudget, UNCHANGED loop, running' = running
  PROVE  IInv'
<1>1. LoopOK'
  BY DEF loop, LoopOK, LoopShape
<1>2. SlotBudget'
  BY DEF loop, SlotBudget, MaxConcurrent
<1> QED
  BY <1>1, <1>2 DEF IInv, TypeOK, LoopOK, RestOK

\* Statements of the orchestrator, failed ones included.
LEMMA WriteOK ==
  ASSUME RestOK, NEW db \in TaskTable, Write(db)
  PROVE  task' \in TaskTable /\ storeFaults' \in Nat
BY DEF RestOK, Write

LEMMA StatementOK ==
  ASSUME RestOK, NEW t \in Task,
         \/ Write(RequeueTask(task, t))
         \/ Write(ClearTaskAssignment(task, t))
         \/ Write(MarkReadyForRetry(task, t))
         \/ \E s \in TaskStatus : Write(UpdateTaskStatus(task, t, s))
  PROVE  task' \in TaskTable /\ storeFaults' \in Nat
<1>1. task \in TaskTable
  BY DEF RestOK
<1>2. PICK db \in TaskTable : Write(db)
  BY <1>1, StatementTypes
<1> QED
  BY <1>2, WriteOK

LEMMA WriteInstanceOK ==
  ASSUME RestOK, NEW tbl \in InstanceTable, WriteInstance(tbl)
  PROVE  inst' \in InstanceTable /\ storeFaults' \in Nat
BY DEF RestOK, WriteInstance

LEMMA DecrementRunningOK ==
  ASSUME RestOK, DecrementRunning
  PROVE  running' \in Nat /\ running' <= running
BY DEF RestOK, DecrementRunning

LEMMA ForgetFailuresOK ==
  ASSUME RestOK, NEW t, ForgetFailures(t)
  PROVE  failures' \in [Task -> 0..maxInspectFailures]
<1>1. 0 \in 0..maxInspectFailures
  BY DEF maxInspectFailures
<1> QED
  BY <1>1 DEF RestOK, ForgetFailures

LEMMA ScaledUpOK ==
  ASSUME RestOK
  PROVE  ScaledUp(inst) \subseteq InstanceTable
<1> DEFINE fresh == InstancesWith(inst, "none")
           launched == [inst EXCEPT ![Min(fresh)] = [status |-> "pending", count |-> 0]]
<1>1. launched \in InstanceTable
  BY DEF RestOK, InstanceTable, InstanceRow, InstanceStatus
<1>2. ScaledUp(inst) \subseteq {inst, launched}
  BY DEF ScaledUp
<1> HIDE DEF launched
<1> QED
  BY <1>1, <1>2 DEF RestOK

\* A container keeps its task and its instance whatever becomes of it.
LEMMA ContainerStateOK ==
  ASSUME RestOK, NEW c \in DOMAIN ctr, NEW st \in ContainerState
  PROVE  [ctr EXCEPT ![c].st = st] \in Seq(Container)
<1>1. [ctr[c] EXCEPT !.st = st] \in Container
  <2>1. ctr[c] \in Container
    BY DEF RestOK
  <2> QED
    BY <2>1 DEF Container
<1>2. PICK n \in Nat : DOMAIN ctr = 1..n /\ ctr \in [1..n -> Container]
  BY DEF RestOK
<1> DEFINE changed == [ctr EXCEPT ![c].st = st]
<1>3. changed \in [1..n -> Container]
  BY <1>1, <1>2
<1> HIDE DEF changed
<1>4. changed \in Seq(Container)
  BY <1>3
<1> QED
  BY <1>4 DEF changed

LEMMA StoppedOK ==
  ASSUME RestOK, NEW c
  PROVE  Stopped(c) \subseteq Seq(Container)
<1>1. CASE c \in Stoppable
  <2>1. [ctr EXCEPT ![c].st = "stopped"] \in Seq(Container)
    BY <1>1, ContainerStateOK DEF Stoppable, ContainerState
  <2> QED
    BY <1>1, <2>1 DEF Stopped, RestOK
<1>2. CASE c \notin Stoppable
  BY <1>2 DEF Stopped, RestOK
<1> QED
  BY <1>1, <1>2

LEMMA WithoutHostsOK ==
  ASSUME RestOK, NEW S
  PROVE  WithoutHosts(S) \in Seq(Container)
<1>1. \A c \in DOMAIN ctr : ctr[c] \in Container
  BY DEF RestOK
<1>2. \A c \in DOMAIN ctr : WithoutHosts(S)[c] \in Container
  BY <1>1 DEF WithoutHosts, Container, ContainerState
<1>3. PICK n \in Nat : DOMAIN ctr = 1..n
  BY DEF RestOK
<1>4. WithoutHosts(S) \in [1..n -> Container]
  BY <1>2, <1>3 DEF WithoutHosts
<1> QED
  BY <1>4

-----------------------------------------------------------------------------
(* Every step keeps the invariant.                                          *)

\* The steps that several loops share.
LEMMA SharedStep ==
  ASSUME IInv, Shared PROVE IInv'
<1> USE DEF tables, world, loop, memory, budget
<1>1. LoopOK /\ RestOK /\ SlotBudget
  BY IInvParts
<1>2. CASE CompleteExited
  <2>1. todo # {} /\ pc # "list" /\ phase \in TaskPhases /\ Current \in Task
    BY <1>1, <1>2, LabelPhase, CurrentInTodo
       DEF CompleteExited, Inspecting, LoopOK, LoopShape, TaskPhases
  <2>2. LoopOK' /\ StaysUp
    BY <1>1, <1>2, <2>1, GotoStays, LabelPhase DEF CompleteExited, Inspecting, Labels, Phases, TaskPhases
  <2>3. RestOK' /\ running' <= running
    BY <1>1, <1>2, <2>1, StatementOK, ForgetFailuresOK
       DEF CompleteExited, CompleteTask, TaskStatus, RestOK, RequestShape
  <2> QED
    BY <1>1, <2>2, <2>3, IInvKept
<1>3. CASE ReleaseSlot
  <2>1. todo # {} /\ pc # "list" /\ phase \in TaskPhases /\ Current \in Task
    BY <1>1, <1>3, LabelPhase, CurrentInTodo
       DEF ReleaseSlot, LoopOK, LoopShape, TaskPhases
  <2>2. LoopOK' /\ StaysUp
    BY <1>1, <1>3, <2>1, ContinueStays, GotoStays, LabelPhase
       DEF ReleaseSlot, Labels, Phases, TaskPhases
  <2>3. RestOK' /\ running' <= running
    BY <1>1, <1>3, <2>1, WriteInstanceOK, DecrementRunningOK, InstanceStatementTypes
       DEF ReleaseSlot, RestOK, RequestShape
  <2> QED
    BY <1>1, <2>2, <2>3, IInvKept
<1>4. CASE MarkRetryReady
  <2>1. todo # {} /\ pc # "list" /\ phase \in TaskPhases /\ Current \in Task
    BY <1>1, <1>4, LabelPhase, CurrentInTodo
       DEF MarkRetryReady, LoopOK, LoopShape, TaskPhases
  <2>2. LoopOK' /\ StaysUp
    BY <1>1, <1>4, <2>1, ContinueStays DEF MarkRetryReady
  <2>3. RestOK' /\ running' <= running
    BY <1>1, <1>4, <2>1, StatementOK DEF MarkRetryReady, RestOK, RequestShape
  <2> QED
    BY <1>1, <2>2, <2>3, IInvKept
<1>5. CASE GiveUpInstance
  <2>1. todo # {} /\ pc # "list" /\ phase \in TaskPhases /\ Current \in Task
    BY <1>1, <1>5, LabelPhase, CurrentInTodo
       DEF GiveUpInstance, Inspecting, LoopOK, LoopShape, TaskPhases
  <2>2. LoopOK' /\ StaysUp
    BY <1>1, <1>5, <2>1, GotoStays, LabelPhase DEF GiveUpInstance, Inspecting, Labels, Phases, TaskPhases
  <2>3. RestOK' /\ running' <= running
    BY <1>1, <1>5, <2>1, WriteInstanceOK, DecrementRunningOK, ForgetFailuresOK,
       InstanceStatementTypes DEF GiveUpInstance, InstanceStatus, RestOK, RequestShape
  <2> QED
    BY <1>1, <2>2, <2>3, IInvKept
<1>6. CASE CountInspectFailure
  <2>1. todo # {} /\ pc # "list" /\ phase \in TaskPhases /\ Current \in Task
    BY <1>1, <1>6, LabelPhase, CurrentInTodo
       DEF CountInspectFailure, Inspecting, LoopOK, LoopShape, TaskPhases
  <2>2. LoopOK' /\ StaysUp
    BY <1>1, <1>6, <2>1, ContinueStays DEF CountInspectFailure
  <2>3. RestOK' /\ running' <= running
    BY <1>1, <1>6, <2>1 DEF CountInspectFailure, maxInspectFailures, RestOK, RequestShape
  <2> QED
    BY <1>1, <2>2, <2>3, IInvKept
<1>7. CASE Requeue
  <2>1. todo # {} /\ pc # "list" /\ phase \in TaskPhases /\ Current \in Task
    BY <1>1, <1>7, LabelPhase, CurrentInTodo
       DEF Requeue, LoopOK, LoopShape, TaskPhases
  <2>2. LoopOK' /\ StaysUp
    BY <1>1, <1>7, <2>1, ContinueStays DEF Requeue
  <2>3. RestOK' /\ running' <= running
    BY <1>1, <1>7, <2>1, StatementOK, ScaledUpOK DEF Requeue, RestOK, RequestShape
  <2> QED
    BY <1>1, <2>2, <2>3, IInvKept
<1>8. CASE ListFails
  <2>1. phase \in Phases /\ EnterPhase(NextPhase[phase])
    BY <1>1, <1>8 DEF ListFails, LoopOK
  <2>2. LoopOK' /\ StaysUp
    BY <2>1, EnterPhaseOK, NextPhaseType DEF StaysUp
  <2>3. RestOK' /\ running' <= running
    BY <1>1, <1>8 DEF ListFails, RestOK, RequestShape
  <2> QED
    BY <1>1, <2>2, <2>3, IInvKept
<1> QED
  BY <1>2, <1>3, <1>4, <1>5, <1>6, <1>7, <1>8 DEF Shared

\* The loop over cancelled tasks.
LEMMA MonitorCancelledStep ==
  ASSUME IInv, MonitorCancelled PROVE IInv'
<1> USE DEF tables, world, loop, memory, budget
<1>1. LoopOK /\ RestOK /\ SlotBudget
  BY IInvParts
<1>2. CASE ListCancelled
  <2>1. LoopOK' /\ StaysUp
    BY <1>1, <1>2, ListIntoStays
       DEF ListCancelled, At, WithStatus, TaskPhases, RestOK
  <2>2. RestOK' /\ running' <= running
    BY <1>1, <1>2 DEF ListCancelled, RestOK, RequestShape
  <2> QED
    BY <1>1, <2>1, <2>2, IInvKept
<1>3. CASE CancelledWithoutContainer
  <2>1. todo # {} /\ pc # "list" /\ phase \in TaskPhases /\ Current \in Task
    BY <1>1, <1>3, LabelPhase, CurrentInTodo
       DEF CancelledWithoutContainer, At, LoopOK, LoopShape, TaskPhases
  <2>2. LoopOK' /\ StaysUp
    BY <1>1, <1>3, <2>1, ContinueStays DEF CancelledWithoutContainer
  <2>3. RestOK' /\ running' <= running
    BY <1>1, <1>3, <2>1, StatementOK DEF CancelledWithoutContainer, RestOK, RequestShape
  <2> QED
    BY <1>1, <2>2, <2>3, IInvKept
<1>4. CASE StopCancelled
  <2>1. todo # {} /\ pc # "list" /\ phase \in TaskPhases /\ Current \in Task
    BY <1>1, <1>4, LabelPhase, CurrentInTodo
       DEF StopCancelled, At, LoopOK, LoopShape, TaskPhases
  <2>2. LoopOK' /\ StaysUp
    BY <1>1, <1>4, <2>1, GotoStays, LabelPhase DEF StopCancelled, At, Labels, Phases, TaskPhases
  <2>3. RestOK' /\ running' <= running
    BY <1>1, <1>4, <2>1, StoppedOK DEF StopCancelled, RestOK, RequestShape
  <2> QED
    BY <1>1, <2>2, <2>3, IInvKept
<1>5. CASE ClearCancelled
  <2>1. todo # {} /\ pc # "list" /\ phase \in TaskPhases /\ Current \in Task
    BY <1>1, <1>5, LabelPhase, CurrentInTodo
       DEF ClearCancelled, At, LoopOK, LoopShape, TaskPhases
  <2>2. LoopOK' /\ StaysUp
    BY <1>1, <1>5, <2>1, GotoStays, LabelPhase DEF ClearCancelled, At, Labels, Phases, TaskPhases
  <2>3. RestOK' /\ running' <= running
    BY <1>1, <1>5, <2>1, StatementOK DEF ClearCancelled, RestOK, RequestShape
  <2> QED
    BY <1>1, <2>2, <2>3, IInvKept
<1> QED
  BY <1>2, <1>3, <1>4, <1>5 DEF MonitorCancelled

\* The loop over recovering tasks.
LEMMA MonitorRecoveringStep ==
  ASSUME IInv, MonitorRecovering PROVE IInv'
<1> USE DEF tables, world, loop, memory, budget
<1>1. LoopOK /\ RestOK /\ SlotBudget
  BY IInvParts
<1>2. CASE ListRecovering
  <2>1. LoopOK' /\ StaysUp
    BY <1>1, <1>2, ListIntoStays
       DEF ListRecovering, At, WithStatus, TaskPhases, RestOK
  <2>2. RestOK' /\ running' <= running
    BY <1>1, <1>2 DEF ListRecovering, RestOK, RequestShape
  <2> QED
    BY <1>1, <2>1, <2>2, IInvKept
<1>3. CASE RequeueProvisioned
  <2>1. todo # {} /\ pc # "list" /\ phase \in TaskPhases /\ Current \in Task
    BY <1>1, <1>3, LabelPhase, CurrentInTodo
       DEF RequeueProvisioned, At, LoopOK, LoopShape, TaskPhases
  <2>2. LoopOK' /\ StaysUp
    BY <1>1, <1>3, <2>1, GotoStays, LabelPhase DEF RequeueProvisioned, At, Labels, Phases, TaskPhases
  <2>3. RestOK' /\ running' <= running
    BY <1>1, <1>3, <2>1 DEF RequeueProvisioned, RestOK, RequestShape
  <2> QED
    BY <1>1, <2>2, <2>3, IInvKept
<1>4. CASE PromoteRecovered
  <2>1. todo # {} /\ pc # "list" /\ phase \in TaskPhases /\ Current \in Task
    BY <1>1, <1>4, LabelPhase, CurrentInTodo
       DEF PromoteRecovered, Inspecting, LoopOK, LoopShape, TaskPhases
  <2>2. LoopOK' /\ StaysUp
    BY <1>1, <1>4, <2>1, ContinueStays DEF PromoteRecovered
  <2>3. RestOK' /\ running' <= running
    BY <1>1, <1>4, <2>1, StatementOK, ForgetFailuresOK
       DEF PromoteRecovered, TaskStatus, RestOK, RequestShape
  <2> QED
    BY <1>1, <2>2, <2>3, IInvKept
<1> QED
  BY <1>2, <1>3, <1>4 DEF MonitorRecovering

\* The loop over running tasks.
LEMMA MonitorRunningStep ==
  ASSUME IInv, MonitorRunning PROVE IInv'
<1> USE DEF tables, world, loop, memory, budget
<1>1. LoopOK /\ RestOK /\ SlotBudget
  BY IInvParts
<1>2. CASE ListRunning
  <2>1. LoopOK' /\ StaysUp
    BY <1>1, <1>2, ListIntoStays
       DEF ListRunning, At, WithStatus, TaskPhases, RestOK
  <2>2. RestOK' /\ running' <= running
    BY <1>1, <1>2 DEF ListRunning, RestOK, RequestShape
  <2> QED
    BY <1>1, <2>1, <2>2, IInvKept
<1>3. CASE StillRunning
  <2>1. todo # {} /\ pc # "list" /\ phase \in TaskPhases /\ Current \in Task
    BY <1>1, <1>3, LabelPhase, CurrentInTodo
       DEF StillRunning, Inspecting, LoopOK, LoopShape, TaskPhases
  <2>2. LoopOK' /\ StaysUp
    BY <1>1, <1>3, <2>1, ContinueStays DEF StillRunning
  <2>3. RestOK' /\ running' <= running
    BY <1>1, <1>3, <2>1, ForgetFailuresOK DEF StillRunning, RestOK, RequestShape
  <2> QED
    BY <1>1, <2>2, <2>3, IInvKept
<1>4. CASE StopToKill
  <2>1. todo # {} /\ pc # "list" /\ phase \in TaskPhases /\ Current \in Task
    BY <1>1, <1>4, LabelPhase, CurrentInTodo
       DEF StopToKill, At, Inspecting, LoopOK, LoopShape, TaskPhases
  <2>2. LoopOK' /\ StaysUp
    BY <1>1, <1>4, <2>1, GotoStays, LabelPhase DEF StopToKill, At, Labels, Phases, TaskPhases
  <2>3. RestOK' /\ running' <= running
    BY <1>1, <1>4, <2>1, StoppedOK, ForgetFailuresOK DEF StopToKill, RestOK, RequestShape
  <2> QED
    BY <1>1, <2>2, <2>3, IInvKept
<1>5. CASE KillTask
  <2>1. todo # {} /\ pc # "list" /\ phase \in TaskPhases /\ Current \in Task
    BY <1>1, <1>5, LabelPhase, CurrentInTodo
       DEF KillTask, At, LoopOK, LoopShape, TaskPhases
  <2>2. LoopOK' /\ StaysUp
    BY <1>1, <1>5, <2>1, GotoStays, LabelPhase DEF KillTask, At, Labels, Phases, TaskPhases
  <2>3. RestOK' /\ running' <= running
    BY <1>1, <1>5, <2>1, StatementOK DEF KillTask, CompleteTask, TaskStatus, RestOK, RequestShape
  <2> QED
    BY <1>1, <2>2, <2>3, IInvKept
<1> QED
  BY <1>2, <1>3, <1>4, <1>5 DEF MonitorRunning

\* The check for interrupted hosts.
LEMMA CheckInterruptionsStep ==
  ASSUME IInv, CheckInterruptions PROVE IInv'
<1> USE DEF tables, world, loop, memory, budget
<1>1. LoopOK /\ RestOK /\ SlotBudget
  BY IInvParts
<1>2. CASE DrainInstance
  <2>1. PICK i \in InstancesWith(inst, "running") \cap dead :
          WriteInstance(UpdateInstanceStatus(inst, i, "draining")) /\ chosen' = i
    BY <1>2 DEF DrainInstance
  <2>2. i \in Instance
    BY <2>1 DEF InstancesWith
  <2>3. LoopOK' /\ StaysUp
    BY <1>1, <1>2, <2>1, <2>2
       DEF DrainInstance, At, StaysUp, LoopOK, LoopShape, Labels, Phases, PCs
  <2>4. inst' \in InstanceTable /\ storeFaults' \in Nat
    <3>1. UpdateInstanceStatus(inst, i, "draining") \in InstanceTable
      BY <1>1, InstanceStatementTypes DEF RestOK, InstanceStatus
    <3> QED
      BY <1>1, <2>1, <3>1, WriteInstanceOK
  <2>5. RestOK' /\ running' <= running
    BY <1>1, <1>2, <2>4 DEF DrainInstance, RestOK, RequestShape
  <2> QED
    BY <1>1, <2>3, <2>5, IInvKept
<1>5. CASE ListInterrupted
  <2>1. LoopOK' /\ StaysUp
    <3>1. Interrupted \in SUBSET Task /\ phase = "spot"
      BY <1>5 DEF ListInterrupted, At, Interrupted, WithStatus
    <3>2. EnterPhase("spot") \/ ListInto(Interrupted)
      BY <1>5 DEF ListInterrupted
    <3>3. CASE EnterPhase("spot")
      BY <3>3, EnterPhaseOK DEF StaysUp, Phases
    <3>4. CASE ListInto(Interrupted)
      BY <1>1, <3>1, <3>4, ListIntoStays DEF TaskPhases, RestOK
    <3> QED
      BY <3>2, <3>3, <3>4
  <2>2. RestOK' /\ running' <= running
    BY <1>1, <1>5 DEF ListInterrupted, RestOK, RequestShape
  <2> QED
    BY <1>1, <2>1, <2>2, IInvKept
<1>3. CASE RequeueInterrupted
  <2>1. todo # {} /\ pc # "list" /\ phase \in TaskPhases /\ Current \in Task
    BY <1>1, <1>3, LabelPhase, CurrentInTodo
       DEF RequeueInterrupted, At, LoopOK, LoopShape, TaskPhases
  <2>2. LoopOK' /\ StaysUp
    BY <1>1, <1>3, <2>1, ContinueStays DEF RequeueInterrupted
  <2>3. RestOK' /\ running' <= running
    BY <1>1, <1>3, <2>1, StatementOK DEF RequeueInterrupted, RestOK, RequestShape
  <2> QED
    BY <1>1, <2>2, <2>3, IInvKept
<1>4. CASE NoMoreInterruptions
  <2>1. LoopOK' /\ StaysUp
    BY <1>4, EnterPhaseOK DEF NoMoreInterruptions, StaysUp, Phases
  <2>2. RestOK' /\ running' <= running
    BY <1>1, <1>4 DEF NoMoreInterruptions, RestOK, RequestShape
  <2> QED
    BY <1>1, <2>1, <2>2, IInvKept
<1> QED
  BY <1>2, <1>3, <1>4, <1>5 DEF CheckInterruptions

\* The loop over pending tasks.
LEMMA DispatchPendingStep ==
  ASSUME IInv, DispatchPending PROVE IInv'
<1> USE DEF tables, world, loop, memory, budget
<1>1. LoopOK /\ RestOK /\ SlotBudget
  BY IInvParts
<1>2. CASE ListPending
  <2>1. phase = "dispatch" /\ RestOK'
    BY <1>1, <1>2 DEF ListPending, At, RestOK, RequestShape
  <2>2. CASE running >= MaxConcurrent
    <3>1. LoopOK' /\ StaysUp
      BY <1>2, <2>1, <2>2, EnterPhaseOK, NextPhaseType DEF ListPending, StaysUp, Phases
    <3>2. running' <= running
      BY <1>1, <1>2 DEF ListPending, memory, RestOK
    <3> QED
      BY <1>1, <2>1, <3>1, <3>2, IInvKept
  <2>3. CASE ~ (running >= MaxConcurrent)
    <3> DEFINE k == MaxConcurrent - running
               S == OldestFirst(WithStatus(task, "pending"), k)
    <3>1. k \in Nat /\ running \in Nat
      BY <1>1, <2>3, MaxConcurrentType DEF RestOK
    <3>2. S \in SUBSET Task /\ Cardinality(S) \in Nat /\ Cardinality(S) <= k
      <4> HIDE DEF k
      <4>1. WithStatus(task, "pending") \in SUBSET Task
        BY DEF WithStatus
      <4>2. S \in SUBSET Task /\ Cardinality(S) <= k
        BY <3>1, <4>1, OldestFirstBounded
      <4> QED
        BY <4>2, TasksFinite, FS_CardinalityType
    <3>3. ListInto(S) /\ running' = running
      BY <1>2, <2>3 DEF ListPending
    <3> HIDE DEF S
    <3>4. /\ LoopOK'
          /\ \/ phase' = "dispatch" /\ todo' = S
             \/ phase' \notin {"down", "recover", "dispatch"} /\ pc' = "list"
      BY <1>1, <2>1, <3>2, <3>3, ListIntoOK, NextPhaseType DEF LoopOK, TaskPhases, RestOK
    <3>5. SlotBudget'
      BY <3>1, <3>2, <3>3, <3>4, MaxConcurrentType DEF SlotBudget, MaxConcurrent
    <3> QED
      BY <2>1, <3>4, <3>5 DEF IInv, TypeOK, LoopOK, RestOK
  <2> QED
    BY <2>2, <2>3
<1>3. CASE RejectRead
  <2>1. todo # {} /\ pc # "list" /\ phase \in TaskPhases /\ Current \in Task
    BY <1>1, <1>3, LabelPhase, CurrentInTodo
       DEF RejectRead, At, LoopOK, LoopShape, TaskPhases
  <2>2. LoopOK' /\ StaysUp
    BY <1>1, <1>3, <2>1, ContinueStays DEF RejectRead
  <2>3. RestOK' /\ running' <= running
    BY <1>1, <1>3, <2>1, StatementOK DEF RejectRead, TaskStatus, RestOK, RequestShape
  <2> QED
    BY <1>1, <2>2, <2>3, IInvKept
<1>4. CASE NoCapacity
  <2>1. todo # {} /\ pc # "list" /\ phase \in TaskPhases /\ Current \in Task
    BY <1>1, <1>4, LabelPhase, CurrentInTodo
       DEF NoCapacity, At, LoopOK, LoopShape, TaskPhases
  <2>2. LoopOK' /\ StaysUp
    BY <1>1, <1>4, <2>1, ContinueStays DEF NoCapacity
  <2>3. RestOK' /\ running' <= running
    BY <1>1, <1>4, <2>1, ScaledUpOK DEF NoCapacity, RestOK, RequestShape
  <2> QED
    BY <1>1, <2>2, <2>3, IInvKept
<1>5. CASE Assign
  <2>1. todo # {} /\ phase = "dispatch" /\ pc = "next" /\ Current \in Task
    BY <1>1, <1>5, CurrentInTodo DEF Assign, At, LoopOK, LoopShape
  <2> DEFINE i == Min(AvailableInstances)
  <2>2. AvailableInstances # {} => i \in Instance
    <3>1. AvailableInstances \in SUBSET Instance
      BY DEF AvailableInstances, InstancesWith
    <3>2. AvailableInstances \in SUBSET Nat
      BY <3>1, StoreAssumption DEF Instance
    <3> QED
      BY <3>1, <3>2, MinInSet
  <2> HIDE DEF i
  <2>3. CASE /\ AvailableInstances # {}
             /\ task' = AssignTask(task, Current, i)
             /\ chosen' = i /\ pc' = "run"
             /\ UNCHANGED <<phase, todo, snap, storeFaults>>
    <3>1. LoopOK' /\ StaysUp
      BY <1>1, <2>1, <2>2, <2>3 DEF LoopOK, LoopShape, StaysUp, Labels, Phases, PCs
    <3>2. task' \in TaskTable
      BY <1>1, <2>1, <2>2, <2>3, StatementTypes DEF RestOK
    <3>3. RestOK' /\ running' <= running
      BY <1>1, <1>5, <2>3, <3>2 DEF Assign, RestOK, RequestShape
    <3> QED
      BY <1>1, <3>1, <3>3, IInvKept
  <2>4. CASE /\ StoreFails
             /\ Goto("fail")
             /\ UNCHANGED task
    <3>1. LoopOK' /\ StaysUp
      BY <1>1, <2>1, <2>4, GotoStays DEF Labels, Phases, TaskPhases
    <3>2. RestOK' /\ running' <= running
      BY <1>1, <1>5, <2>4 DEF Assign, RestOK, RequestShape
    <3> QED
      BY <1>1, <3>1, <3>2, IInvKept
  <2> QED
    BY <1>5, <2>3, <2>4 DEF Assign, i
<1>6. CASE RunAgent
  <2>1. /\ todo # {} /\ phase = "dispatch" /\ pc = "run"
        /\ Current \in Task /\ chosen \in Instance
    BY <1>1, <1>6, CurrentInTodo DEF RunAgent, At, LoopOK, LoopShape
  <2>2. LoopOK' /\ StaysUp
    BY <1>1, <1>6, <2>1, GotoStays DEF RunAgent, Labels, Phases, TaskPhases
  <2>3. ctr' \in Seq(Container)
    <3> DEFINE agent == [task |-> Current, inst |-> chosen, st |-> "live"]
    <3>1. agent \in Container
      BY <2>1 DEF Container, ContainerState
    <3>2. ctr' = ctr \/ ctr' = Append(ctr, agent)
      BY <1>6 DEF RunAgent, Launched, Relaunched
    <3> HIDE DEF agent
    <3> QED
      BY <1>1, <3>1, <3>2 DEF RestOK
  <2>4. RestOK' /\ running' <= running
    BY <1>1, <1>6, <2>3 DEF RunAgent, RestOK, RequestShape
  <2> QED
    BY <1>1, <2>2, <2>4, IInvKept
<1>7. CASE Start
  <2>1. /\ todo # {} /\ phase = "dispatch" /\ pc = "start"
        /\ Current \in todo /\ Current \in Task
    BY <1>1, <1>7, CurrentInTodo DEF Start, At, LoopOK, LoopShape
  <2>2. CASE /\ task' = StartTask(task, Current, Newest(Current))
             /\ inst' = IncrementRunningContainers(inst, chosen)
             /\ expired' = expired \ {Current}
             /\ running' = running + 1
             /\ Continue
             /\ UNCHANGED storeFaults
    <3>1. /\ LoopOK'
          /\ \/ phase' = phase /\ todo' = todo \ {Current}
             \/ phase' \notin {"down", "recover", "dispatch"}
      BY <1>1, <2>1, <2>2, ContinueOK DEF TaskPhases
    <3>2. task' \in TaskTable /\ inst' \in InstanceTable
      <4>1. Newest(Current) \in Nat
        BY <1>1, NewestType DEF RestOK
      <4> QED
        BY <1>1, <2>1, <2>2, <4>1, StatementTypes, InstanceStatementTypes DEF RestOK
    <3>3. RestOK'
      BY <1>1, <1>7, <2>2, <3>2 DEF Start, RestOK, RequestShape
    <3>4. SlotBudget'
      <4>1. /\ IsFiniteSet(todo) /\ Cardinality(todo) \in Nat
            /\ Cardinality(todo \ {Current}) = Cardinality(todo) - 1
        <5>1. IsFiniteSet(todo)
          BY <1>1, TasksFinite DEF LoopOK
        <5> HIDE DEF Current
        <5> QED
          BY <2>1, <5>1, FS_RemoveElement, FS_CardinalityType
      <4>2. running \in Nat /\ running + Cardinality(todo) <= MaxConcurrent
        BY <1>1, <2>1 DEF RestOK, SlotBudget
      <4>3. running' + Cardinality(todo \ {Current}) <= MaxConcurrent
        BY <2>2, <4>1, <4>2, MaxConcurrentType
      <4> QED
        BY <2>1, <3>1, <4>3 DEF SlotBudget, MaxConcurrent
    <3> QED
      BY <3>1, <3>3, <3>4 DEF IInv, TypeOK, LoopOK, RestOK
  <2>3. CASE /\ StoreFails
             /\ Goto("fail")
             /\ UNCHANGED <<tables, expired, running>>
    <3>1. LoopOK' /\ StaysUp
      BY <1>1, <2>1, <2>3, GotoStays DEF Labels, Phases, TaskPhases
    <3>2. RestOK' /\ running' <= running
      BY <1>1, <1>7, <2>3 DEF Start, RestOK, RequestShape
    <3> QED
      BY <1>1, <3>1, <3>2, IInvKept
  <2> QED
    BY <1>7, <2>2, <2>3 DEF Start
<1>8. CASE FailDispatch
  <2>1. todo # {} /\ pc # "list" /\ phase \in TaskPhases /\ Current \in Task
    BY <1>1, <1>8, LabelPhase, CurrentInTodo
       DEF FailDispatch, At, LoopOK, LoopShape, TaskPhases
  <2>2. LoopOK' /\ StaysUp
    BY <1>1, <1>8, <2>1, ContinueStays DEF FailDispatch
  <2>3. RestOK' /\ running' <= running
    BY <1>1, <1>8, <2>1, StatementOK DEF FailDispatch, TaskStatus, RestOK, RequestShape
  <2> QED
    BY <1>1, <2>2, <2>3, IInvKept
<1> QED
  BY <1>2, <1>3, <1>4, <1>5, <1>6, <1>7, <1>8 DEF DispatchPending

\* The scaler.
LEMMA EvaluateStep ==
  ASSUME IInv, Evaluate PROVE IInv'
<1>1. LoopOK /\ RestOK /\ SlotBudget
  BY IInvParts
<1>2. LoopOK' /\ StaysUp
  <2>1. NextPhase["evaluate"] = "spot" \/ NextPhase["evaluate"] = "cancelled"
    BY NextPhaseType DEF NextPhase, Phases
  <2> QED
    BY <2>1, EnterPhaseOK DEF Evaluate, StaysUp, Phases
<1>3. PICK up \in SUBSET (InstancesWith(inst, "pending") \ dead),
           down \in SUBSET (InstancesWith(inst, "pending") \cup
                            InstancesWith(inst, "running")),
           idle \in SUBSET IdleInstances :
        /\ InstancesWith(inst, "running") \cap dead \subseteq down
        /\ down \ dead # {} => Glitches
        /\ up \cap down = {} /\ idle \cap down = {}
        /\ inst' = [i \in Instance |->
                      CASE i \in up          -> [inst[i] EXCEPT !.status = "running"]
                        [] i \in down \cup idle -> [status |-> "terminated", count |-> 0]
                        [] OTHER             -> inst[i]]
        /\ dead' = dead \cup idle
        /\ ctr' = WithoutHosts(idle)
  BY Zenon DEF Evaluate
<1>4. inst' \in InstanceTable /\ dead' \subseteq Instance /\ ctr' \in Seq(Container)
  <2>1. inst' \in InstanceTable
    BY <1>1, <1>3 DEF RestOK, InstanceTable, InstanceRow, InstanceStatus
  <2> QED
    BY <1>1, <1>3, <2>1, WithoutHostsOK DEF RestOK, IdleInstances, InstancesWith
<1>5. RestOK' /\ running' <= running
  BY <1>1, <1>4 DEF Evaluate, RestOK, RequestShape, memory, budget
<1> QED
  BY <1>1, <1>2, <1>5, IInvKept

\* Recovery takes no slot before it has rebuilt the counters, and the loop it
\* ends in is the first of a tick.
LEMMA RecoverStep ==
  ASSUME IInv, Recover PROVE IInv'
<1> USE DEF tables, world, loop, memory, budget
<1>1. LoopOK /\ RestOK /\ SlotBudget
  BY IInvParts
<1>2. phase = "recover" /\ running = 0
  BY <1>1 DEF Recover, SlotBudget, At, Collect, ListOrphansRunning,
              ListOrphansProvisioning, ListOrphansRecovering, MarkRecovering,
              ClearProvisioned, RebuildCounters
<1>3. ASSUME NEW s \in TaskStatus, NEW label, NEW rest \in {"listProvisioning", "listRecovering"},
             Collect(s, label, rest)
      PROVE  IInv'
  <2>1. snap' \in [Task -> Row]
    BY <1>1, <1>3 DEF Collect, LoopOK, RestOK, TaskTable
  <2>2. todo' \subseteq Task
    BY <1>1, <1>3 DEF Collect, LoopOK, WithStatus
  <2>3. LoopOK'
    BY <1>1, <1>2, <1>3, <2>1, <2>2 DEF Collect, LoopOK, LoopShape, Labels, Phases, PCs
  <2>4. RestOK' /\ SlotBudget'
    BY <1>1, <1>2, <1>3 DEF Collect, RestOK, RequestShape, SlotBudget
  <2> QED
    BY <2>3, <2>4 DEF IInv, TypeOK, LoopOK, RestOK
<1>4. ASSUME todo # {}, NextOrphan, RestOK', running' = running
      PROVE  IInv'
  <2>1. LoopOK'
    BY <1>1, <1>2, <1>4 DEF NextOrphan, LoopOK, LoopShape, Labels, Phases, PCs
  <2>2. SlotBudget'
    BY <1>2, <1>4 DEF NextOrphan, SlotBudget
  <2> QED
    BY <1>4, <2>1, <2>2 DEF IInv, TypeOK, LoopOK, RestOK
<1>5. ASSUME EnterPhase(FirstPhase), RestOK'
      PROVE  IInv'
  <2>1. LoopOK' /\ phase' \notin {"down", "recover", "dispatch"}
    BY <1>5, EnterPhaseOK, NextPhaseType DEF Phases
  <2> QED
    BY <1>5, <2>1 DEF IInv, TypeOK, LoopOK, RestOK, SlotBudget
<1>6. CASE ListOrphansRunning
  BY <1>3, <1>6 DEF ListOrphansRunning, TaskStatus
<1>7. CASE ListOrphansProvisioning
  BY <1>3, <1>7 DEF ListOrphansProvisioning, TaskStatus
<1>8. CASE ListOrphansRecovering
  <2>1. RestOK'
    BY <1>1, <1>8 DEF ListOrphansRecovering, RestOK, RequestShape
  <2>2. CASE EnterPhase(FirstPhase)
    BY <1>5, <2>1, <2>2
  <2>3. ASSUME NEW found,
               /\ snap' = [t \in Task |-> IF t \in found THEN task[t] ELSE snap[t]]
               /\ pc' = (IF todo = {} THEN "finish" ELSE "next")
               /\ UNCHANGED <<phase, todo, chosen>>
        PROVE  IInv'
    <3>1. snap' \in [Task -> Row]
      BY <1>1, <2>3 DEF LoopOK, RestOK, TaskTable
    <3>2. LoopOK'
      BY <1>1, <1>2, <2>3, <3>1 DEF LoopOK, LoopShape, Labels, Phases, PCs
    <3>3. SlotBudget'
      BY <1>2, <1>8, <2>3 DEF ListOrphansRecovering, SlotBudget
    <3> QED
      BY <2>1, <3>2, <3>3 DEF IInv, TypeOK, LoopOK, RestOK
  <2> QED
    BY <1>8, <2>2, <2>3 DEF ListOrphansRecovering
<1>9. CASE MarkRecovering
  <2>1. todo # {} /\ Current \in Task
    BY <1>1, <1>9, CurrentInTodo DEF MarkRecovering, At, LoopOK, LoopShape
  <2>2. RestOK' /\ running' = running
    BY <1>1, <1>9, <2>1, StatementOK DEF MarkRecovering, TaskStatus, RestOK, RequestShape
  <2>3. CASE Goto("clear")
    <3>1. LoopOK' /\ phase' = "recover"
      BY <1>1, <1>2, <2>1, <2>3, GotoOK DEF Labels, Phases
    <3> QED
      BY <1>2, <2>2, <3>1 DEF SlotBudget, IInv, TypeOK, LoopOK, RestOK
  <2>4. CASE NextOrphan
    BY <1>4, <2>1, <2>2, <2>4
  <2> QED
    BY <1>9, <2>3, <2>4 DEF MarkRecovering
<1>10. CASE ClearProvisioned
  <2>1. todo # {} /\ Current \in Task
    BY <1>1, <1>10, CurrentInTodo DEF ClearProvisioned, At, LoopOK, LoopShape
  <2>2. RestOK' /\ running' = running
    BY <1>1, <1>10, <2>1, StatementOK DEF ClearProvisioned, RestOK, RequestShape
  <2> QED
    BY <1>4, <1>10, <2>1, <2>2 DEF ClearProvisioned
<1>11. CASE RebuildCounters
  <2>1. running' \in Nat
    <3>1. Cardinality(WereRunning) \in Nat /\ Cardinality(PreviouslyRunning) \in Nat
      BY TasksFinite, FS_CardinalityType DEF WereRunning, PreviouslyRunning
    <3> QED
      BY <1>11, <3>1 DEF RebuildCounters
  <2>2. inst' \in InstanceTable
    <3>1. \A i \in Instance : Cardinality({t \in WereRunning : snap[t].inst = i}) \in Nat
      <4> TAKE i \in Instance
      <4>1. {t \in WereRunning : snap[t].inst = i} \in SUBSET Task
        BY DEF WereRunning
      <4> QED
        BY <4>1, TasksFinite, FS_CardinalityType
    <3> QED
      BY <1>1, <1>11, <3>1 DEF RebuildCounters, RestOK, InstanceTable, InstanceRow
  <2>3. RestOK'
    BY <1>1, <1>11, <2>1, <2>2 DEF RebuildCounters, RestOK, RequestShape
  <2> QED
    BY <1>5, <1>11, <2>3 DEF RebuildCounters
<1> QED
  BY <1>6, <1>7, <1>8, <1>9, <1>10, <1>11 DEF Recover

\* Requests write the tasks table and leave the orchestrator alone.
LEMMA ApiStepOK ==
  ASSUME IInv, ApiStep PROVE IInv'
<1> USE DEF tables, world, loop, memory, budget
<1>1. LoopOK /\ RestOK /\ SlotBudget
  BY IInvParts
<1>2. ASSUME NEW t \in Task, Create(t)
      PROVE  IInv'
  <2>1. RestOK'
    BY <1>1, <1>2, StatementTypes DEF Create, RestOK, RequestShape
  <2> QED
    BY <1>1, <1>2, <2>1, IInvKeptAlongside DEF Create
<1>3. ASSUME NEW r \in Requests, NEW op, NEW t \in Task, Admit(r, op, t)
      PROVE  IInv'
  <2>1. RestOK'
    BY <1>1, <1>3 DEF Admit, RestOK, RequestShape
  <2> QED
    BY <1>1, <1>3, <2>1, IInvKeptAlongside DEF Admit
<1>4. ASSUME NEW r \in Requests, FinishCancel(r) \/ FinishDelete(r) \/ FinishRetry(r)
      PROVE  IInv'
  <2>1. req[r].task \in Task
    BY <1>1, <1>4 DEF RestOK, RequestShape, NoRequest, FinishCancel, FinishDelete,
                      FinishRetry, Finish
  <2>2. PICK db \in TaskTable : \E op : Finish(r, op, db)
    BY <1>1, <1>4, <2>1, StatementTypes
       DEF FinishCancel, FinishDelete, FinishRetry, CancelTask, TaskStatus, RestOK
  <2>3. RestOK'
    BY <1>1, <2>2 DEF Finish, RestOK, RequestShape, NoRequest
  <2> QED
    BY <1>1, <2>2, <2>3, IInvKeptAlongside DEF Finish
<1> QED
  BY <1>2, <1>3, <1>4 DEF ApiStep, BeginCancel, BeginDelete, BeginRetry

\* Containers, hosts and clocks leave the server alone; a crash clears its
\* memory.
LEMMA WorldStepOK ==
  ASSUME IInv, WorldStep PROVE IInv'
<1> USE DEF tables, world, loop, memory, budget
<1>1. LoopOK /\ RestOK /\ SlotBudget
  BY IInvParts
<1>2. ASSUME NEW c \in DOMAIN ctr, Exit(c) \/ Reclaim(c)
      PROVE  IInv'
  <2>1. ctr' \in Seq(Container)
    BY <1>1, <1>2, ContainerStateOK DEF Exit, Reclaim, ContainerState
  <2>2. RestOK'
    BY <1>1, <1>2, <2>1 DEF Exit, Reclaim, RestOK, RequestShape
  <2> QED
    BY <1>1, <1>2, <2>2, IInvKeptAlongside DEF Exit, Reclaim
<1>3. ASSUME NEW i \in Instance, HostDies(i)
      PROVE  IInv'
  <2>1. RestOK'
    BY <1>1, <1>3, WithoutHostsOK DEF HostDies, RestOK, RequestShape
  <2> QED
    BY <1>1, <1>3, <2>1, IInvKeptAlongside DEF HostDies
<1>4. ASSUME NEW t \in Task, Expire(t)
      PROVE  IInv'
  <2>1. RestOK'
    BY <1>1, <1>4 DEF Expire, RestOK, RequestShape
  <2> QED
    BY <1>1, <1>4, <2>1, IInvKeptAlongside DEF Expire
<1>5. CASE Crash
  <2>1. LoopOK' /\ phase' = "down"
    BY <1>5, EnterPhaseOK DEF Crash, Phases
  <2>2. RestOK'
    BY <1>1, <1>5 DEF Crash, RestOK, RequestShape, NoRequest, maxInspectFailures
  <2> QED
    BY <1>5, <2>1, <2>2 DEF Crash, SlotBudget, IInv, TypeOK, LoopOK, RestOK
<1>6. CASE Restart
  <2>1. LoopOK' /\ phase' = "recover"
    BY <1>6, EnterPhaseOK DEF Restart, Phases
  <2>2. inst' \in InstanceTable
    BY <1>1, <1>6 DEF Restart, RestOK, InstanceTable, InstanceRow, InstanceStatus
  <2>3. RestOK' /\ running' = 0
    BY <1>1, <1>6, <2>2 DEF Restart, RestOK, RequestShape, SlotBudget
  <2> QED
    BY <2>1, <2>3 DEF SlotBudget, IInv, TypeOK, LoopOK, RestOK
<1> QED
  BY <1>2, <1>3, <1>4, <1>5, <1>6 DEF WorldStep

-----------------------------------------------------------------------------
(* The invariant.                                                           *)

LEMMA InitIInv == Init => IInv
BY StoreAssumption, OrchestratorAssumption
   DEF Init, IInv, TypeOK, LoopShape, RequestShape, SlotBudget, TaskTable,
       InstanceTable, InstanceRow, InstanceStatus, EmptyRow, Row, TaskStatus,
       Absent, NoInstance, NoContainer, NoRequest, Phases, PCs, Labels,
       maxInspectFailures

LEMMA NextIInv == IInv /\ [Next]_vars => IInv'
<1> SUFFICES ASSUME IInv, [Next]_vars PROVE IInv'
  OBVIOUS
<1>1. CASE OrchestratorStep
  BY <1>1, RecoverStep, CheckInterruptionsStep, MonitorCancelledStep,
     MonitorRecoveringStep, MonitorRunningStep, DispatchPendingStep, SharedStep,
     EvaluateStep DEF OrchestratorStep
<1>2. CASE ApiStep
  BY <1>2, ApiStepOK
<1>3. CASE WorldStep
  BY <1>3, WorldStepOK
<1>4. CASE UNCHANGED vars
  <2>1. LoopOK /\ RestOK /\ SlotBudget
    BY IInvParts
  <2>2. RestOK' /\ UNCHANGED loop /\ running' = running
    BY <1>4, <2>1 DEF vars, loop, RestOK, RequestShape
  <2> QED
    BY <2>1, <2>2, IInvKeptAlongside
<1> QED
  BY <1>1, <1>2, <1>3, <1>4 DEF Next

\* The state has its type in every reachable state, and the loops of the
\* orchestrator keep the shape and the slot budget that IInv describes.
THEOREM Invariance == Spec => []IInv
<1>1. Init => IInv
  BY InitIInv
<1>2. IInv /\ [Next]_vars => IInv'
  BY NextIInv
<1> QED
  BY <1>1, <1>2, PTL DEF Spec

\* Rows, containers, counters and the orchestrator's memory always have the
\* values the code can hold: no negative counter, no dangling instance.
THEOREM TypeCorrect == Spec => []TypeOK
<1>1. IInv => TypeOK
  BY DEF IInv
<1> QED
  BY <1>1, Invariance, PTL

-----------------------------------------------------------------------------
(* The orchestrator implements SlotPool: o.running is a pool of              *)
(* MaxConcurrent slots, whatever the API and the environment do between two  *)
(* statements.                                                              *)

\* The server is up and past recovery.
Up == phase \notin {"down", "recover"}

\* The steps of a tick.
TickStep ==
  \/ CheckInterruptions \/ MonitorCancelled \/ MonitorRecovering
  \/ MonitorRunning \/ DispatchPending \/ Shared \/ Evaluate

\* However a step moves through the loops of a tick, the server stays up.
LEMMA SkeletonUp ==
  ASSUME IInv, Up,
         \/ Continue
         \/ \E S : ListInto(S)
         \/ \E label : Goto(label)
         \/ phase' = phase
         \/ EnterPhase("spot") \/ EnterPhase("cancelled")
         \/ \E p \in {phase, "dispatch", "evaluate"} : EnterPhase(NextPhase[p])
  PROVE  Up'
<1>1. phase \in Phases
  BY DEF IInv, TypeOK
<1>2. phase' = phase \/ phase' \in {"spot", "cancelled"} \/ \E p \in Phases : phase' = NextPhase[p]
  BY <1>1 DEF Continue, ListInto, Goto, EnterPhase, Phases
<1> QED
  BY <1>2, NextPhaseType DEF Up

\* A step of a tick happens while the server is up, and leaves it up.
LEMMA TickStaysUp == ASSUME IInv, TickStep PROVE Up /\ Up'
<1>1. LoopOK
  BY IInvParts
<1>2. CASE CheckInterruptions
  <2>1. Up
    BY <1>2 DEF CheckInterruptions, DrainInstance, RequeueInterrupted,
                ListInterrupted, NoMoreInterruptions, At, Up
  <2> QED
    BY <1>2, <2>1, SkeletonUp
       DEF CheckInterruptions, DrainInstance, RequeueInterrupted, ListInterrupted, NoMoreInterruptions
<1>3. CASE MonitorCancelled
  <2>1. Up
    BY <1>3 DEF MonitorCancelled, ListCancelled, CancelledWithoutContainer,
                StopCancelled, ClearCancelled, At, Up
  <2> QED
    BY <1>3, <2>1, SkeletonUp
       DEF MonitorCancelled, ListCancelled, CancelledWithoutContainer, StopCancelled,
           ClearCancelled
<1>4. CASE MonitorRecovering
  <2>1. Up
    BY <1>4 DEF MonitorRecovering, ListRecovering, RequeueProvisioned, PromoteRecovered,
                At, Up
  <2> QED
    BY <1>4, <2>1, SkeletonUp
       DEF MonitorRecovering, ListRecovering, RequeueProvisioned, PromoteRecovered
<1>5. CASE MonitorRunning
  <2>1. Up
    BY <1>5 DEF MonitorRunning, ListRunning, StillRunning, StopToKill, KillTask, At, Up
  <2> QED
    BY <1>5, <2>1, SkeletonUp DEF MonitorRunning, ListRunning, StillRunning, StopToKill, KillTask
<1>6. CASE DispatchPending
  <2>1. Up
    BY <1>6 DEF DispatchPending, ListPending, RejectRead, NoCapacity, Assign, RunAgent,
                Start, FailDispatch, At, Up
  <2>2. CASE Assign
    BY <2>1, <2>2 DEF Assign, Goto, Up
  <2> QED
    BY <1>6, <2>1, <2>2, SkeletonUp
       DEF DispatchPending, ListPending, RejectRead, NoCapacity, RunAgent, Start, FailDispatch
<1>7. CASE Shared
  <2>1. Up
    BY <1>1, <1>7, LabelPhase
       DEF Shared, ListFails, CompleteExited, ReleaseSlot, MarkRetryReady, GiveUpInstance,
           CountInspectFailure, Requeue, Inspecting, Up
  <2> QED
    BY <1>7, <2>1, SkeletonUp
       DEF Shared, ListFails, CompleteExited, ReleaseSlot, MarkRetryReady, GiveUpInstance,
           CountInspectFailure, Requeue
<1>8. CASE Evaluate
  <2>1. Up
    BY <1>8 DEF Evaluate, At, Up
  <2> QED
    BY <1>8, <2>1, SkeletonUp DEF Evaluate
<1> QED
  BY <1>2, <1>3, <1>4, <1>5, <1>6, <1>7, <1>8 DEF TickStep

\* A step of a tick gives one slot back, takes one that is left, or neither.
LEMMA TickSlots ==
  ASSUME IInv, TickStep
  PROVE  \/ running' = running
         \/ DecrementRunning
         \/ running < MaxConcurrent /\ running' = running + 1
<1> USE DEF memory
<1>1. CASE Start
  <2>1. CASE running' = running + 1
    <3>1. LoopOK /\ running \in Nat /\ todo # {} /\ phase = "dispatch" /\ pc = "start"
      BY <1>1, IInvParts DEF Start, At, LoopOK, LoopShape, RestOK
    <3>2. running + Cardinality(todo) <= MaxConcurrent
      BY <3>1 DEF IInv, SlotBudget
    <3>3. Cardinality(todo) \in Nat /\ Cardinality(todo) # 0
      BY <3>1, TasksFinite, FS_CardinalityType, FS_EmptySet DEF LoopOK
    <3> QED
      BY <2>1, <3>1, <3>2, <3>3, MaxConcurrentType
  <2> QED
    BY <1>1, <2>1 DEF Start
<1>2. CASE DispatchPending /\ ~ Start
  BY <1>2 DEF DispatchPending, ListPending, RejectRead, NoCapacity, Assign, RunAgent,
              FailDispatch
<1>3. CASE CheckInterruptions \/ MonitorCancelled \/ MonitorRecovering
  BY <1>3 DEF CheckInterruptions, DrainInstance, RequeueInterrupted, ListInterrupted, NoMoreInterruptions,
              MonitorCancelled, ListCancelled, CancelledWithoutContainer, StopCancelled,
              ClearCancelled, MonitorRecovering, ListRecovering, RequeueProvisioned,
              PromoteRecovered
<1>4. CASE MonitorRunning \/ Shared \/ Evaluate
  BY <1>4 DEF MonitorRunning, ListRunning, StillRunning, StopToKill, KillTask, Shared, ListFails,
              CompleteExited, ReleaseSlot, MarkRetryReady, GiveUpInstance,
              CountInspectFailure, Requeue, Evaluate
<1> QED
  BY <1>1, <1>2, <1>3, <1>4 DEF TickStep

-----------------------------------------------------------------------------
(* The refinement.                                                          *)

LEMMA InitSlots == Init => Slots!Init
BY DEF Init, Slots!Init

LEMMA TickRefines == ASSUME IInv, TickStep PROVE [Slots!Next]_<<running, Up>>
<1>1. Up /\ Up'
  BY TickStaysUp
<1>2. running \in Nat
  BY DEF IInv, TypeOK
<1>3. CASE running' = running
  BY <1>1, <1>3
<1>4. CASE DecrementRunning
  BY <1>1, <1>2, <1>4 DEF DecrementRunning, Slots!Next, Slots!Give, Up
<1>5. CASE running < MaxConcurrent /\ running' = running + 1
  BY <1>1, <1>5 DEF Slots!Next, Slots!Take, Up
<1> QED
  BY <1>3, <1>4, <1>5, TickSlots

LEMMA RecoverRefines == ASSUME IInv, IInv', Recover PROVE [Slots!Next]_<<running, Up>>
<1>1. phase = "recover" /\ running' \in Nat
  BY DEF IInv, TypeOK, Recover, At, Collect, ListOrphansRunning, ListOrphansProvisioning,
         ListOrphansRecovering, MarkRecovering, ClearProvisioned, RebuildCounters
<1>2. CASE phase' = "recover"
  <2>1. running' = running
    BY <1>1, <1>2 DEF IInv, SlotBudget
  <2> QED
    BY <1>1, <1>2, <2>1 DEF Up
<1>3. CASE phase' # "recover"
  <2>1. phase' = FirstPhase
    BY <1>1, <1>3
       DEF Recover, Collect, ListOrphansRunning, ListOrphansProvisioning,
           ListOrphansRecovering, MarkRecovering, ClearProvisioned, RebuildCounters,
           EnterPhase, Goto, NextOrphan
  <2> QED
    BY <1>1, <2>1, NextPhaseType DEF Slots!Next, Slots!Reopen, Up
<1> QED
  BY <1>2, <1>3

LEMMA OtherRefines ==
  ASSUME IInv, ApiStep \/ WorldStep \/ UNCHANGED vars
  PROVE  [Slots!Next]_<<running, Up>>
<1> USE DEF loop, memory
<1>1. CASE Crash
  BY <1>1 DEF Crash, EnterPhase, IInv, SlotBudget, Slots!Next, Slots!Close, Up
<1>2. CASE Restart
  BY <1>2 DEF Restart, EnterPhase, Up
<1>3. CASE UNCHANGED <<phase, running>>
  BY <1>3 DEF Up
<1> QED
  BY <1>1, <1>2, <1>3
     DEF ApiStep, Create, BeginCancel, BeginDelete, BeginRetry, Admit, FinishCancel,
         FinishDelete, FinishRetry, Finish, WorldStep, Exit, Reclaim, HostDies, Expire, vars

\* While the server is up, a dispatch takes a slot of o.running only when fewer
\* than MaxConcurrent are taken, every other step gives back at most one, and
\* only recovery sets the count: the orchestrator implements SlotPool.
THEOREM SlotPoolImplemented == Spec => DispatchWithinLimit
<1>1. Init => Slots!Init
  BY InitSlots
<1>2. IInv /\ IInv' /\ [Next]_vars => [Slots!Next]_<<running, phase \notin {"down", "recover"}>>
  <2> SUFFICES ASSUME IInv, IInv', [Next]_vars
               PROVE  [Slots!Next]_<<running, Up>>
    BY DEF Up
  <2> QED
    BY TickRefines, RecoverRefines, OtherRefines DEF Next, OrchestratorStep, TickStep
<1> QED
  BY <1>1, <1>2, Invariance, PTL DEF Spec, DispatchWithinLimit, Slots!Spec

-----------------------------------------------------------------------------
(* Instances in service.                                                    *)

LEMMA InstancesFinite ==
  ASSUME NEW S \in SUBSET Instance
  PROVE  IsFiniteSet(S) /\ Cardinality(S) \in Nat
<1>1. IsFiniteSet(Instance)
  BY StoreAssumption, FS_Interval DEF Instance
<1> QED
  BY <1>1, FS_Subset, FS_CardinalityType

\* A scale-up request adds at most one instance, and only below the limit.
LEMMA ScaledUpWithinLimit ==
  ASSUME inst \in InstanceTable, InstancesWithinLimit, Mode = "ec2",
         NEW tbl \in ScaledUp(inst), inst' = tbl
  PROVE  InstancesWithinLimit'
<1> DEFINE fresh == InstancesWith(inst, "none")
<1>1. CASE inst' = inst
  BY <1>1 DEF InstancesWithinLimit, InService, InstancesWith
<1>2. CASE /\ MayLaunch(inst) /\ fresh # {}
           /\ inst' = [inst EXCEPT ![Min(fresh)] = [status |-> "pending", count |-> 0]]
  <2>1. Min(fresh) \in Instance
    <3>1. fresh \in SUBSET Nat /\ fresh \subseteq Instance
      BY StoreAssumption DEF InstancesWith, Instance
    <3> HIDE DEF fresh
    <3> QED
      BY <1>2, <3>1, MinInSet
  <2> DEFINE running1 == InstancesWith(inst, "running")
             i == Min(fresh)
  <2> HIDE DEF i
  <2>2. InService' \subseteq running1 \cup {i}
    BY <1>2, <2>1 DEF InService, InstancesWith, MayLaunch, InstanceTable, InstanceRow, i
  <2>3. running1 \in SUBSET Instance /\ Cardinality(running1) < MaxInstances
    BY <1>2 DEF MayLaunch, InstancesWith
  <2> HIDE DEF running1
  <2>4. IsFiniteSet(running1) /\ Cardinality(running1) \in Nat
    BY <2>3, InstancesFinite
  <2>5. /\ IsFiniteSet(running1 \cup {i})
        /\ Cardinality(running1 \cup {i}) \in {Cardinality(running1), Cardinality(running1) + 1}
    BY <2>4, FS_AddElement
  <2>6. Cardinality(InService') \in Nat /\ Cardinality(InService') <= Cardinality(running1 \cup {i})
    BY <2>2, <2>5, FS_Subset, FS_CardinalityType
  <2>7. Cardinality(InService') <= MaxInstances
    BY <2>3, <2>4, <2>5, <2>6, OrchestratorAssumption
  <2> QED
    BY <2>7 DEF InstancesWithinLimit
<1> QED
  BY <1>1, <1>2 DEF ScaledUp

\* Any other step takes instances out of service or leaves them there.
LEMMA ShrinkWithinLimit ==
  ASSUME InstancesWithinLimit, InService' \subseteq InService
  PROVE  InstancesWithinLimit'
<1>1. InService \in SUBSET Instance
  BY DEF InService, InstancesWith
<1>2. /\ IsFiniteSet(InService) /\ Cardinality(InService) \in Nat
      /\ Cardinality(InService') \in Nat /\ Cardinality(InService') <= Cardinality(InService)
  BY <1>1, InstancesFinite, FS_Subset, FS_CardinalityType
<1> QED
  BY <1>2, OrchestratorAssumption DEF InstancesWithinLimit

\* What the statements on the instances table do to the instances in service.
LEMMA StatementsShrink ==
  ASSUME inst \in InstanceTable, NEW i,
         \/ WriteInstance(DecrementRunningContainers(inst, i))
         \/ inst' = IncrementRunningContainers(inst, i)
         \/ WriteInstance(UpdateInstanceStatus(inst, i, "terminated"))
         \/ WriteInstance(UpdateInstanceStatus(inst, i, "draining"))
  PROVE  InService' \subseteq InService
<1>1. \A j \in Instance : inst'[j].status \in {inst[j].status, "terminated", "draining"}
  <2>1. CASE i \in Instance
    BY <2>1 DEF WriteInstance, DecrementRunningContainers, IncrementRunningContainers,
                UpdateInstanceStatus, InstanceTable, InstanceRow
  <2>2. CASE i \notin Instance
    BY <2>2 DEF WriteInstance, DecrementRunningContainers, IncrementRunningContainers,
                UpdateInstanceStatus, InstanceTable, InstanceRow
  <2> QED
    BY <2>1, <2>2
<1> QED
  BY <1>1 DEF InService, InstancesWith

LEMMA EvaluateShrinks ==
  ASSUME inst \in InstanceTable, Evaluate
  PROVE  InService' \subseteq InService
<1>1. \A j \in Instance : inst'[j].status \in {"running", "terminated", inst[j].status}
                          /\ (inst'[j].status = "running" => inst[j].status \in {"pending", "running"})
  BY DEF Evaluate, InstancesWith, InstanceTable, InstanceRow
<1> QED
  BY <1>1 DEF InService, InstancesWith

LEMMA RebuildKeepsService ==
  ASSUME inst \in InstanceTable, RebuildCounters
  PROVE  InService' \subseteq InService
<1>1. \A j \in Instance : inst'[j].status = inst[j].status
  BY DEF RebuildCounters, InstanceTable, InstanceRow
<1> QED
  BY <1>1 DEF InService, InstancesWith

LEMMA NextWithinLimit ==
  ASSUME IInv, [Next]_vars, InstancesWithinLimit, Mode = "ec2"
  PROVE  InstancesWithinLimit'
<1> USE DEF tables
<1>1. inst \in InstanceTable
  BY DEF IInv, TypeOK
<1>2. CASE inst' = inst
  BY <1>2, ShrinkWithinLimit DEF InService, InstancesWith
<1>3. CASE Requeue \/ NoCapacity
  BY <1>1, <1>3, ScaledUpWithinLimit DEF Requeue, NoCapacity
<1>4. CASE ReleaseSlot \/ GiveUpInstance \/ DrainInstance \/ Start
  BY <1>1, <1>2, <1>4, StatementsShrink, ShrinkWithinLimit
     DEF ReleaseSlot, GiveUpInstance, DrainInstance, Start
<1>5. CASE RebuildCounters \/ Evaluate
  BY <1>1, <1>5, RebuildKeepsService, EvaluateShrinks, ShrinkWithinLimit
<1>6. CASE Recover /\ ~ RebuildCounters
  BY <1>2, <1>6
     DEF Recover, Collect, ListOrphansRunning, ListOrphansProvisioning,
         ListOrphansRecovering, MarkRecovering, ClearProvisioned
<1>7. CASE \/ CheckInterruptions /\ ~ DrainInstance
           \/ MonitorCancelled \/ MonitorRecovering \/ MonitorRunning
  BY <1>2, <1>7
     DEF CheckInterruptions, RequeueInterrupted, ListInterrupted, NoMoreInterruptions, MonitorCancelled,
         ListCancelled, CancelledWithoutContainer, StopCancelled, ClearCancelled,
         MonitorRecovering, ListRecovering, RequeueProvisioned, PromoteRecovered,
         MonitorRunning, ListRunning, StillRunning, StopToKill, KillTask
<1>8. CASE \/ DispatchPending /\ ~ NoCapacity /\ ~ Start
           \/ Shared /\ ~ ReleaseSlot /\ ~ GiveUpInstance /\ ~ Requeue
  BY <1>2, <1>8
     DEF DispatchPending, ListPending, RejectRead, Assign, RunAgent, FailDispatch, Shared, ListFails,
         CompleteExited, MarkRetryReady, CountInspectFailure
<1>9. CASE ApiStep \/ WorldStep \/ UNCHANGED vars
  BY <1>2, <1>9
     DEF ApiStep, Create, BeginCancel, BeginDelete, BeginRetry, Admit, FinishCancel,
         FinishDelete, FinishRetry, Finish, WorldStep, Exit, Reclaim, HostDies, Expire,
         Crash, Restart, vars
<1> QED
  BY <1>3, <1>4, <1>5, <1>6, <1>7, <1>8, <1>9 DEF Next, OrchestratorStep

\* In EC2 mode the instances that are pending or running are never more than
\* MaxInstances, although every task without capacity and every requeued task
\* asks for another one.
THEOREM InstanceLimit == Spec => []InstancesWithinLimit
<1>1. Init => InstancesWithinLimit
  <2>1. Init /\ Mode = "ec2" => InService = {}
    BY DEF Init, InService, InstancesWith
  <2> QED
    BY <2>1, FS_EmptySet, OrchestratorAssumption DEF InstancesWithinLimit
<1>2. IInv /\ InstancesWithinLimit /\ [Next]_vars => InstancesWithinLimit'
  BY NextWithinLimit DEF InstancesWithinLimit
<1> QED
  BY <1>1, <1>2, Invariance, PTL DEF Spec

-----------------------------------------------------------------------------
(* User retries.                                                            *)

\* The state of RetryBudget that the tasks table implements.
Gate == [t \in Task |-> GateOf(task[t])]
Used == [t \in Task |-> task[t].uretry]

\* Every step changes the tasks table by one statement, if at all.  A row is
\* inserted for a new task only, and by a request; only requests delete and retry.
OneUpdate(t) ==
  \/ \E s \in TaskStatus : task' = UpdateTaskStatus(task, t, s)
  \/ \E i \in Instance : task' = AssignTask(task, t, i)
  \/ \E c \in Nat : task' = StartTask(task, t, c)
  \/ task' = RequeueTask(task, t)
  \/ task' = ClearTaskAssignment(task, t)
  \/ task' = MarkReadyForRetry(task, t)

OneStatement(t) ==
  \/ task[t].status = "new" /\ task' = CreateTask(task, t)
  \/ "delete" \in Ops /\ task' = DeleteTask(task, t)
  \/ task' = RetryTask(task, t)
  \/ OneUpdate(t)

LEMMA OrchestratorStatement ==
  ASSUME IInv, OrchestratorStep
  PROVE  task' = task \/ \E t \in Task : OneUpdate(t)
<1> USE DEF tables
<1>1. LoopOK
  BY IInvParts
<1>2. ASSUME todo # {}
      PROVE  Current \in Task
  BY <1>1, <1>2, CurrentInTodo DEF LoopOK
<1>3. ASSUME NEW t \in Task,
             \/ Write(RequeueTask(task, t))
             \/ Write(ClearTaskAssignment(task, t))
             \/ Write(MarkReadyForRetry(task, t))
             \/ \E s \in TaskStatus : Write(UpdateTaskStatus(task, t, s))
      PROVE  task' = task \/ OneUpdate(t)
  BY <1>3 DEF Write, OneUpdate
<1> USE DEF TaskStatus, CompleteTask, At
<1>4. pc \notin ListPCs => Current \in Task
  BY <1>1, <1>2 DEF LoopOK, LoopShape
<1>5. CASE MarkRecovering \/ ClearProvisioned
  BY <1>3, <1>4, <1>5 DEF MarkRecovering, ClearProvisioned
<1>6. CASE CancelledWithoutContainer \/ ClearCancelled \/ PromoteRecovered \/ KillTask
  BY <1>3, <1>4, <1>6
     DEF CancelledWithoutContainer, ClearCancelled, PromoteRecovered, Inspecting, KillTask
<1>7. CASE RejectRead \/ FailDispatch \/ RequeueInterrupted \/ MarkRetryReady \/ Requeue
  BY <1>3, <1>4, <1>7 DEF RejectRead, FailDispatch, RequeueInterrupted, MarkRetryReady, Requeue
<1>8. CASE CompleteExited
  <2>1. PICK result \in {"completed", "failed"} : Write(UpdateTaskStatus(task, Current, result))
    BY <1>8 DEF CompleteExited
  <2> QED
    BY <1>3, <1>4, <1>8, <2>1 DEF CompleteExited, Inspecting
<1>9. CASE Assign
  <2>1. AvailableInstances # {} => Min(AvailableInstances) \in Instance
    <3>1. AvailableInstances \in SUBSET Nat /\ AvailableInstances \subseteq Instance
      BY StoreAssumption DEF AvailableInstances, InstancesWith, Instance
    <3> QED
      BY <3>1, MinInSet
  <2> QED
    BY <1>4, <1>9, <2>1 DEF Assign, OneUpdate
<1>10. CASE Start
  <2>1. Newest(Current) \in Nat
    BY NewestType DEF IInv, TypeOK
  <2> QED
    BY <1>4, <1>10, <2>1 DEF Start, OneUpdate
<1>11. CASE \/ Recover /\ ~ MarkRecovering /\ ~ ClearProvisioned
            \/ CheckInterruptions /\ ~ RequeueInterrupted
            \/ MonitorCancelled /\ ~ CancelledWithoutContainer /\ ~ ClearCancelled
            \/ MonitorRecovering /\ ~ PromoteRecovered
  BY <1>11
     DEF Recover, Collect, ListOrphansRunning, ListOrphansProvisioning,
         ListOrphansRecovering, RebuildCounters, CheckInterruptions, DrainInstance,
         ListInterrupted, NoMoreInterruptions, MonitorCancelled, ListCancelled, StopCancelled,
         MonitorRecovering, ListRecovering, RequeueProvisioned
<1>12. CASE \/ MonitorRunning /\ ~ KillTask
            \/ DispatchPending /\ ~ RejectRead /\ ~ Assign /\ ~ Start /\ ~ FailDispatch
            \/ Shared /\ ~ CompleteExited /\ ~ MarkRetryReady /\ ~ Requeue
            \/ Evaluate
  BY <1>12
     DEF MonitorRunning, ListRunning, StillRunning, StopToKill, DispatchPending,
         ListPending, NoCapacity, RunAgent, Shared, ListFails, ReleaseSlot, GiveUpInstance,
         CountInspectFailure, Evaluate
<1> QED
  BY <1>5, <1>6, <1>7, <1>8, <1>9, <1>10, <1>11, <1>12 DEF OrchestratorStep, Recover,
     CheckInterruptions, MonitorCancelled, MonitorRecovering, MonitorRunning, DispatchPending,
     Shared

LEMMA OtherStatement ==
  ASSUME IInv, ApiStep \/ WorldStep \/ UNCHANGED vars
  PROVE  task' = task \/ \E t \in Task : OneStatement(t)
<1> USE DEF tables
<1>1. ASSUME NEW t \in Task, Create(t)
      PROVE  OneStatement(t)
  BY <1>1 DEF Create, OneStatement
<1>2. ASSUME NEW r \in Requests, FinishCancel(r) \/ FinishDelete(r) \/ FinishRetry(r)
      PROVE  \E t \in Task : OneStatement(t)
  <2>1. req[r].task \in Task
    BY <1>2 DEF IInv, RequestShape, NoRequest, FinishCancel, FinishDelete, FinishRetry, Finish
  <2>2. FinishDelete(r) => "delete" \in Ops
    BY DEF FinishDelete, Finish, IInv, TypeOK
  <2> QED
    BY <1>2, <2>1, <2>2 DEF FinishCancel, FinishDelete, FinishRetry, Finish, OneStatement, OneUpdate,
                      CancelTask, TaskStatus
<1>3. CASE ApiStep
  BY <1>1, <1>2, <1>3 DEF ApiStep, BeginCancel, BeginDelete, BeginRetry, Admit
<1>4. CASE WorldStep \/ UNCHANGED vars
  BY <1>4 DEF WorldStep, Exit, Reclaim, HostDies, Expire, Crash, Restart, vars
<1> QED
  BY <1>3, <1>4

\* What a new row for one task means to RetryBudget.
LEMMA RowRefines ==
  ASSUME task \in TaskTable, NEW t \in Task, NEW row, task' = [task EXCEPT ![t] = row],
         \/ GateOf(row) = GateOf(task[t]) /\ row.uretry = task[t].uretry
         \/ /\ GateOf(task[t]) # "gone" /\ GateOf(row) \in {"open", "shut"}
            /\ row.uretry = task[t].uretry
         \/ GateOf(row) = "gone" /\ row.uretry = 0
         \/ /\ GateOf(task[t]) = "open" /\ GateOf(row) = "shut"
            /\ task[t].uretry < MaxUserRetries /\ row.uretry = task[t].uretry + 1
  PROVE  [Retries!Next]_<<Gate, Used>>
<1>1. task \in [Task -> Row]
  BY DEF TaskTable
<1>2. Gate' = [Gate EXCEPT ![t] = GateOf(row)] /\ Used' = [Used EXCEPT ![t] = row.uretry]
  BY <1>1 DEF Gate, Used
<1>3. Gate[t] = GateOf(task[t]) /\ Used[t] = task[t].uretry
  BY DEF Gate, Used
<1>4. Gate \in [Task -> {"gone", "open", "shut"}] /\ Used \in [Task -> Nat]
  BY <1>1 DEF Gate, GateOf, Used, Row
<1>5. /\ Retries!Open(t) <=> /\ Gate[t] # "gone"
                             /\ Gate' = [Gate EXCEPT ![t] = "open"]
                             /\ Used' = Used
      /\ Retries!Shut(t) <=> /\ Gate[t] # "gone"
                             /\ Gate' = [Gate EXCEPT ![t] = "shut"]
                             /\ Used' = Used
      /\ Retries!Retry(t) <=> /\ Gate[t] = "open" /\ Used[t] < MaxUserRetries
                              /\ Gate' = [Gate EXCEPT ![t] = "shut"]
                              /\ Used' = [Used EXCEPT ![t] = @ + 1]
      /\ Retries!Forget(t) <=> /\ Gate' = [Gate EXCEPT ![t] = "gone"]
                               /\ Used' = [Used EXCEPT ![t] = 0]
  BY DEF Retries!Open, Retries!Shut, Retries!Retry, Retries!Forget, Gate, Used
<1>6. Retries!Open(t) \/ Retries!Shut(t) \/ Retries!Retry(t) \/ Retries!Forget(t)
        => Retries!Next
  BY DEF Retries!Next
<1> HIDE DEF Gate, Used
<1>7. CASE GateOf(row) = GateOf(task[t]) /\ row.uretry = task[t].uretry
  BY <1>2, <1>3, <1>4, <1>7
<1>8. CASE /\ GateOf(task[t]) # "gone" /\ GateOf(row) \in {"open", "shut"}
           /\ row.uretry = task[t].uretry
  BY <1>2, <1>3, <1>4, <1>5, <1>6, <1>8
<1>9. CASE GateOf(row) = "gone" /\ row.uretry = 0
  BY <1>2, <1>5, <1>6, <1>9
<1>10. CASE /\ GateOf(task[t]) = "open" /\ GateOf(row) = "shut"
            /\ task[t].uretry < MaxUserRetries /\ row.uretry = task[t].uretry + 1
  BY <1>2, <1>3, <1>5, <1>6, <1>10
<1> QED
  BY <1>7, <1>8, <1>9, <1>10

\* Every statement is a step of RetryBudget: it opens the gate or shuts it,
\* spends a retry through an open gate, or removes the task.
LEMMA StatementRefines ==
  ASSUME task \in TaskTable, NEW t \in Task, OneStatement(t)
  PROVE  [Retries!Next]_<<Gate, Used>>
<1>1. CASE task' = task
  BY <1>1 DEF Gate, Used
<1>2. CASE task' # task
  <2>1. task[t] \in Row /\ (task[t].status \in Absent => ~ task[t].ready /\ task[t].uretry = 0)
    BY DEF TaskTable
  <2> DEFINE row == task'[t]
  <2>2. task' = [task EXCEPT ![t] = row]
    BY <1>2 DEF TaskTable, OneStatement, OneUpdate, CreateTask, UpdateTaskStatus, AssignTask, StartTask,
                RequeueTask, ClearTaskAssignment, MarkReadyForRetry, DeleteTask, RetryTask,
                UpdateRow
  <2> HIDE DEF row
  <2>3. ASSUME NEW new, task' = UpdateRow(task, t, new),
               InTable(task, t) => new.status # "deleted",
               new.uretry = task[t].uretry
        PROVE  [Retries!Next]_<<Gate, Used>>
    <3>1. InTable(task, t) /\ row = new
      BY <1>2, <2>3 DEF UpdateRow, TaskTable, row
    <3> QED
      BY <2>2, <2>3, <3>1, RowRefines DEF GateOf, InTable, Absent
  <2>4. ASSUME NEW s \in TaskStatus, task' = UpdateTaskStatus(task, t, s)
        PROVE  [Retries!Next]_<<Gate, Used>>
    <3> DEFINE new == [task[t] EXCEPT !.status = s]
    <3>1. (InTable(task, t) => new.status # "deleted") /\ new.uretry = task[t].uretry
      BY <2>1 DEF Row, InTable, Absent, TaskStatus
    <3>2. task' = UpdateRow(task, t, new)
      BY <2>4 DEF UpdateTaskStatus
    <3> HIDE DEF new
    <3> QED
      BY <2>3, <3>1, <3>2
  <2>5. ASSUME NEW i \in Instance, task' = AssignTask(task, t, i)
        PROVE  [Retries!Next]_<<Gate, Used>>
    <3> DEFINE new == [task[t] EXCEPT !.status = "provisioning", !.inst = i]
    <3>1. (InTable(task, t) => new.status # "deleted") /\ new.uretry = task[t].uretry
      BY <2>1 DEF Row, InTable, Absent, TaskStatus
    <3>2. task' = UpdateRow(task, t, new)
      BY <2>5 DEF AssignTask
    <3> HIDE DEF new
    <3> QED
      BY <2>3, <3>1, <3>2
  <2>6. ASSUME NEW c \in Nat, task' = StartTask(task, t, c)
        PROVE  [Retries!Next]_<<Gate, Used>>
    <3> DEFINE new == [task[t] EXCEPT !.status = "running", !.cont = c,
                                      !.started = TRUE]
    <3>1. (InTable(task, t) => new.status # "deleted") /\ new.uretry = task[t].uretry
      BY <2>1 DEF Row, InTable, Absent, TaskStatus
    <3>2. task' = UpdateRow(task, t, new)
      BY <2>6 DEF StartTask
    <3> HIDE DEF new
    <3> QED
      BY <2>3, <3>1, <3>2
  <2>7. CASE task' = RequeueTask(task, t)
    <3> DEFINE new == [task[t] EXCEPT !.status = "pending", !.inst = NoInstance,
                                      !.cont = NoContainer, !.started = FALSE,
                                      !.ready = FALSE]
    <3>1. (InTable(task, t) => new.status # "deleted") /\ new.uretry = task[t].uretry
      BY <2>1 DEF Row, InTable, Absent, TaskStatus
    <3>2. task' = UpdateRow(task, t, new)
      BY <2>7 DEF RequeueTask
    <3> HIDE DEF new
    <3> QED
      BY <2>3, <3>1, <3>2
  <2>8. CASE task' = ClearTaskAssignment(task, t)
    <3> DEFINE new == [task[t] EXCEPT !.inst = NoInstance, !.cont = NoContainer]
    <3>1. (InTable(task, t) => new.status # "deleted") /\ new.uretry = task[t].uretry
      BY <2>1 DEF Row, InTable, Absent, TaskStatus
    <3>2. task' = UpdateRow(task, t, new)
      BY <2>8 DEF ClearTaskAssignment
    <3> HIDE DEF new
    <3> QED
      BY <2>3, <3>1, <3>2
  <2>9. CASE task' = MarkReadyForRetry(task, t)
    <3> DEFINE new == [task[t] EXCEPT !.ready = TRUE]
    <3>1. (InTable(task, t) => new.status # "deleted") /\ new.uretry = task[t].uretry
      BY <2>1 DEF Row, InTable, Absent, TaskStatus
    <3>2. task' = UpdateRow(task, t, new)
      BY <2>9 DEF MarkReadyForRetry
    <3> HIDE DEF new
    <3> QED
      BY <2>3, <3>1, <3>2
  <2>10. CASE task' = DeleteTask(task, t)
    <3>1. row.status = "deleted" /\ row.uretry = 0
      BY <1>2, <2>10 DEF DeleteTask, UpdateRow, TaskTable, EmptyRow, Row, row
    <3> QED
      BY <2>2, <3>1, RowRefines DEF GateOf
  <2>11. CASE task[t].status = "new" /\ task' = CreateTask(task, t)
    <3>1. row.status = "pending" /\ ~ row.ready /\ row.uretry = 0
      BY <2>11 DEF CreateTask, TaskTable, EmptyRow, row
    <3> QED
      BY <2>1, <2>2, <2>11, <3>1, RowRefines DEF GateOf, Absent
  <2>12. CASE task' = RetryTask(task, t)
    <3>1. task[t].ready /\ task[t].uretry < MaxUserRetries /\ InTable(task, t)
      BY <1>2, <2>12 DEF RetryTask, RetryAllowed, UpdateRow
    <3>2. row.status = "pending" /\ ~ row.ready /\ row.uretry = task[t].uretry + 1
      BY <2>1, <2>12, <3>1 DEF RetryTask, RetryAllowed, UpdateRow, TaskTable, Row, row
    <3> QED
      BY <2>2, <3>1, <3>2, RowRefines DEF GateOf, InTable, Absent
  <2> QED
    BY <2>4, <2>5, <2>6, <2>7, <2>8, <2>9, <2>10, <2>11, <2>12 DEF OneStatement, OneUpdate
<1> QED
  BY <1>1, <1>2

\* Where nothing is deleted, no step takes a retry back.
LEMMA RetriesStay ==
  ASSUME IInv, "delete" \notin Ops, [Next]_vars, NoneRetried'
  PROVE  NoneRetried
<1>1. task' = task \/ \E t \in Task : OneStatement(t)
  BY OrchestratorStatement, OtherStatement DEF Next, OneStatement
<1>2. task \in TaskTable
  BY DEF IInv, TypeOK
<1>3. ASSUME NEW t \in Task, OneStatement(t)
      PROVE  NoneRetried
  <2>1. \A u \in Task : task[u] \in Row /\ (task[u].status \in Absent => task[u].uretry = 0)
    BY <1>2 DEF TaskTable
  <2>2. ASSUME NEW new, task' = UpdateRow(task, t, new), new.uretry \in {task[t].uretry, task[t].uretry + 1}
        PROVE  NoneRetried
    <3>1. task[t].uretry \in Nat
      BY <2>1 DEF Row
    <3> QED
      BY <1>2, <2>2, <3>1 DEF UpdateRow, NoneRetried, TaskTable
  <2>3. ASSUME NEW s \in TaskStatus, task' = UpdateTaskStatus(task, t, s)
        PROVE  NoneRetried
    BY <2>1, <2>2, <2>3 DEF UpdateTaskStatus, Row
  <2>4. ASSUME NEW i \in Instance, task' = AssignTask(task, t, i)
        PROVE  NoneRetried
    BY <2>1, <2>2, <2>4 DEF AssignTask, Row
  <2>5. ASSUME NEW c \in Nat, task' = StartTask(task, t, c)
        PROVE  NoneRetried
    BY <2>1, <2>2, <2>5 DEF StartTask, Row
  <2>6. CASE \/ task' = RequeueTask(task, t) \/ task' = ClearTaskAssignment(task, t)
             \/ task' = MarkReadyForRetry(task, t)
    BY <2>1, <2>2, <2>6 DEF RequeueTask, ClearTaskAssignment, MarkReadyForRetry, Row
  <2>7. CASE task' = RetryTask(task, t)
    BY <2>1, <2>2, <2>7 DEF RetryTask, Row, NoneRetried
  <2>8. CASE task[t].status = "new" /\ task' = CreateTask(task, t)
    BY <1>2, <2>1, <2>8 DEF CreateTask, TaskTable, NoneRetried, Absent
  <2> QED
    BY <1>3, <2>3, <2>4, <2>5, <2>6, <2>7, <2>8 DEF OneStatement, OneUpdate
<1> QED
  BY <1>1, <1>3 DEF NoneRetried

\* However requests interleave with each other and with the orchestrator, a
\* retry goes through only when the orchestrator has set the flag since the
\* last one, and a task is never retried more than MaxUserRetries times.
THEOREM RetryBudgetImplemented == Spec => RetriesWithinBudget
<1>1. Init => Retries!Init
  BY DEF Init, Retries!Init, EmptyRow, GateOf
<1>2. IInv /\ [Next]_vars =>
        [Retries!Next]_<<[t \in Task |-> GateOf(task[t])], [t \in Task |-> task[t].uretry]>>
  <2> SUFFICES ASSUME IInv, [Next]_vars PROVE [Retries!Next]_<<Gate, Used>>
    BY DEF Gate, Used
  <2>1. task' = task \/ \E t \in Task : OneStatement(t)
    BY OrchestratorStatement, OtherStatement DEF Next, OneStatement
  <2>2. task \in TaskTable
    BY DEF IInv, TypeOK
  <2> QED
    BY <2>1, <2>2, StatementRefines DEF Gate, Used
<1> QED
  BY <1>1, <1>2, Invariance, PTL DEF Spec, RetriesWithinBudget, Retries!Spec

=============================================================================
