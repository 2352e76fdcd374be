---------------------------- MODULE TaskProofs ------------------------------
(***************************************************************************)
(* The lives of tasks, for every number of tasks, instances and requests:    *)
(* why a task is launched, how its status moves, whose its agents are, that  *)
(* the slots of instances cover them and scale-down spares them, that the    *)
(* counters of slots are right, and in what order tasks are dispatched.      *)
(***************************************************************************)
EXTENDS OrchestratorProofs

USE DEF ListPCs, StoreFails

-----------------------------------------------------------------------------
(* The account of launches.                                                 *)

Lost == {c \in DOMAIN ctr : ctr[c].st = "lost"}

\* The container that Start is about to record for t.
AboutToRecord(t, c) == pc = "start" /\ t = Current /\ c = Newest(t)

\* The lost containers of t that its row has done with: each is the reason
\* of one more launch.
Spent(t) == {c \in Launches(t) \cap Lost :
               c # task[t].cont /\ ~ AboutToRecord(t, c)}

\* The lists from which t may yet be queued or launched, whatever becomes of
\* its row.  A row that no longer names the container it was listed with has
\* been retried since.
Listed(t) ==
  \/ phase \in {"down", "recover"}
  \/ phase = "recovering" /\ t \in todo
  \/ phase = "dispatch" /\ t \in todo /\ (pc = "next" \/ t # Current)
  \/ phase = "running" /\ t \in todo /\ task[t].cont # snap[t].cont

\* A launch that t has a right to, and one that is under way.
Owed(t)      == task[t].status \in {"pending", "recovering"} \/ Listed(t)
Launching(t) == pc = "run" /\ t = Current

Credit(t) == (IF Owed(t) THEN 1 ELSE 0) + (IF Launching(t) THEN 1 ELSE 0)

Paid(t) ==
  task[t].status \notin Absent =>
    Cardinality(Launches(t)) + Credit(t)
      <= 1 + task[t].uretry + crashes + Cardinality(Spent(t))

\* The loops of EC2 mode do not run.
NoHosts == phase \notin {"spot", "evaluate"}

\* A row names a container of its task, or none; a task that does not exist yet
\* has no container and is in no list; and every launch is paid for.
Sound(t) ==
  /\ task[t].cont \in {NoContainer} \cup Launches(t)
  /\ task[t].status = "new" => Launches(t) = {} /\ t \notin todo
  /\ Paid(t)

\* What monitorRunning requeues has lost its container.
RequeuedIsLost == phase = "running" /\ pc = "requeue" => snap[Current].cont \in Lost

LaunchInv ==
  /\ NoHosts /\ RequeuedIsLost
  /\ Cardinality(Lost) <= faults
  /\ \A t \in Task : Sound(t)

-----------------------------------------------------------------------------
(* Containers.                                                              *)

\* The greatest id of a set of containers is one of them, or none.
LEMMA GreatestContainer ==
  ASSUME NEW q \in Seq(Container), NEW S \in SUBSET DOMAIN q
  PROVE  /\ Max({NoContainer} \cup S) \in {NoContainer} \cup S
         /\ \A c \in S : c <= Max({NoContainer} \cup S)
<1> DEFINE Z == {NoContainer} \cup S
<1>1. Len(q) \in Nat /\ DOMAIN q = 1..Len(q)
  OBVIOUS
<1>2. Z # {} /\ \A y \in Z : y \in Nat /\ y <= Len(q)
  BY <1>1 DEF NoContainer
<1> HIDE DEF Z
<1>3. \E m \in Z : \A y \in Z : y <= m
  BY <1>1, <1>2, MaxExists
<1>4. \E m \in Z : \A y \in Z : m >= y
  BY <1>2, <1>3
<1>5. Max(Z) \in Z /\ \A y \in Z : Max(Z) >= y
  BY <1>4 DEF Max
<1>6. \A y \in Z : y <= Max(Z)
  BY <1>2, <1>5
<1> QED
  BY <1>5, <1>6 DEF Z

LEMMA NewestIs ==
  ASSUME ctr \in Seq(Container), NEW t
  PROVE  /\ Newest(t) \in {NoContainer} \cup Launches(t)
         /\ \A c \in Launches(t) : c <= Newest(t)
<1>1. Launches(t) \in SUBSET DOMAIN ctr /\ Newest(t) = Max({NoContainer} \cup Launches(t))
  BY DEF Launches, Newest
<1> QED
  BY <1>1, GreatestContainer

\* Sets of containers are finite, and no container has the id 0.
LEMMA ContainersFinite ==
  ASSUME NEW q \in Seq(Container), NEW S \in SUBSET DOMAIN q
  PROVE  IsFiniteSet(S) /\ Cardinality(S) \in Nat /\ NoContainer \notin S
<1>1. Len(q) \in Nat /\ DOMAIN q = 1..Len(q)
  OBVIOUS
<1>2. IsFiniteSet(DOMAIN q)
  BY <1>1, FS_Interval
<1> QED
  BY <1>1, <1>2, FS_Subset, FS_CardinalityType DEF NoContainer

\* No step but a launch changes which containers there are and whose they
\* are, and a lost container stays lost.
ContainersKept ==
  /\ DOMAIN ctr' = DOMAIN ctr
  /\ \A c \in DOMAIN ctr : ctr'[c].task = ctr[c].task /\ ctr'[c].inst = ctr[c].inst
  /\ Lost \subseteq Lost'

LEMMA KeptLaunches ==
  ASSUME ContainersKept, NEW t
  PROVE  Launches(t)' = Launches(t) /\ Newest(t)' = Newest(t)
<1>1. {c \in DOMAIN ctr : ctr[c].task = t}' = {c \in DOMAIN ctr : ctr[c].task = t}
  BY DEF ContainersKept
<1> QED
  BY <1>1 DEF Launches, Newest

LEMMA SameContainersKept ==
  ASSUME UNCHANGED ctr PROVE ContainersKept /\ Lost' = Lost
BY DEF ContainersKept, Lost

LEMMA StateKeepsContainers ==
  ASSUME ctr \in Seq(Container), NEW c \in LiveContainers \cup Stoppable, NEW st \in ContainerState,
         ctr' = [ctr EXCEPT ![c].st = st]
  PROVE  ContainersKept /\ Lost' = (IF st = "lost" THEN Lost \cup {c} ELSE Lost)
<1>1. c \in DOMAIN ctr /\ ctr[c].st # "lost" /\ \A d \in DOMAIN ctr : ctr[d] \in Container
  BY DEF LiveContainers, Stoppable
<1>2. DOMAIN ctr' = DOMAIN ctr
  OBVIOUS
<1>3. \A d \in DOMAIN ctr : d # c => ctr'[d] = ctr[d]
  OBVIOUS
<1>4. ctr'[c] = [ctr[c] EXCEPT !.st = st]
  BY <1>1
<1>5. ctr'[c].st = st /\ ctr'[c].task = ctr[c].task /\ ctr'[c].inst = ctr[c].inst
  BY <1>1, <1>4 DEF Container
<1> QED
  BY <1>1, <1>2, <1>3, <1>5 DEF ContainersKept, Lost

LEMMA StopKeepsContainers ==
  ASSUME ctr \in Seq(Container), NEW c, ctr' \in Stopped(c)
  PROVE  ContainersKept /\ Lost' = Lost
<1>1. CASE ctr' = ctr
  BY <1>1, SameContainersKept
<1>2. CASE c \in Stoppable /\ ctr' = [ctr EXCEPT ![c].st = "stopped"]
  BY <1>2, StateKeepsContainers DEF ContainerState
<1> QED
  BY <1>1, <1>2 DEF Stopped

-----------------------------------------------------------------------------
(* What keeps the account.                                                  *)

LEMMA SpentType ==
  ASSUME ctr \in Seq(Container), NEW t
  PROVE  /\ IsFiniteSet(Launches(t)) /\ Cardinality(Launches(t)) \in Nat
         /\ IsFiniteSet(Spent(t)) /\ Cardinality(Spent(t)) \in Nat
         /\ NoContainer \notin Launches(t)
<1>1. Launches(t) \in SUBSET DOMAIN ctr /\ Spent(t) \in SUBSET DOMAIN ctr
  BY DEF Launches, Spent
<1> QED
  BY <1>1, ContainersFinite

LEMMA SpentTypeNext ==
  ASSUME ctr' \in Seq(Container), NEW t
  PROVE  /\ IsFiniteSet(Launches(t)') /\ Cardinality(Launches(t)') \in Nat
         /\ IsFiniteSet(Spent(t)') /\ Cardinality(Spent(t)') \in Nat
         /\ NoContainer \notin Launches(t)'
<1>1. Launches(t)' \in SUBSET DOMAIN ctr' /\ Spent(t)' \in SUBSET DOMAIN ctr'
  BY DEF Launches, Spent
<1> QED
  BY <1>1, ContainersFinite

\* A step that launches nothing keeps the account of a task when it adds no
\* credit and no container stops being a reason.
LEMMA PaidKept ==
  ASSUME IInv, IInv', NEW t \in Task, Paid(t), ContainersKept, crashes' = crashes,
         task'[t].status \notin Absent =>
           /\ task[t].status \notin Absent
           /\ task'[t].uretry = task[t].uretry
           /\ Credit(t)' <= Credit(t)
           /\ Spent(t) \subseteq Spent(t)'
  PROVE  Paid(t)'
<1> SUFFICES ASSUME task'[t].status \notin Absent
             PROVE  Cardinality(Launches(t)') + Credit(t)'
                      <= 1 + task'[t].uretry + crashes' + Cardinality(Spent(t)')
  BY DEF Paid
<1>1. Launches(t)' = Launches(t)
  BY KeptLaunches
<1>2. /\ Cardinality(Launches(t)) \in Nat /\ IsFiniteSet(Spent(t)')
      /\ Cardinality(Spent(t)) \in Nat /\ Cardinality(Spent(t)') \in Nat
  BY SpentType, SpentTypeNext DEF IInv, TypeOK
<1>3. Cardinality(Spent(t)) <= Cardinality(Spent(t)')
  BY <1>2, FS_Subset
<1>4. /\ Credit(t) \in 0..2 /\ Credit(t)' \in 0..2
      /\ task[t].uretry \in Nat /\ crashes \in Nat
  BY DEF Credit, IInv, TypeOK, TaskTable, Row
<1>5. Cardinality(Launches(t)) + Credit(t) <= 1 + task[t].uretry + crashes + Cardinality(Spent(t))
  BY DEF Paid
<1> HIDE DEF Launches, Spent, Credit
<1> QED
  BY <1>1, <1>2, <1>3, <1>4, <1>5

\* What most statements leave of a row.
RowKept(t) ==
  \/ task'[t] = task[t]
  \/ /\ task[t].status \notin Absent
     /\ task'[t].status # "new"
     /\ task'[t].cont \in {task[t].cont, NoContainer}
     /\ task'[t].status \notin Absent => task'[t].uretry = task[t].uretry

LEMMA SpentKept ==
  ASSUME NEW t \in Task, ctr \in Seq(Container), ContainersKept,
         task'[t].cont \in {task[t].cont, NoContainer},
         \A c : AboutToRecord(t, c)' => AboutToRecord(t, c)
  PROVE  Spent(t) \subseteq Spent(t)'
<1>1. Launches(t)' = Launches(t) /\ NoContainer \notin Launches(t)
  BY KeptLaunches, SpentType
<1>2. task'[t].cont \in {task[t].cont, NoContainer}
  OBVIOUS
<1>3. Lost \subseteq Lost'
  BY DEF ContainersKept
<1> SUFFICES ASSUME NEW c \in Spent(t) PROVE c \in Spent(t)'
  OBVIOUS
<1>4. c \in Launches(t) /\ c \in Lost /\ c # task[t].cont /\ ~ AboutToRecord(t, c)
  BY DEF Spent
<1>5. ~ AboutToRecord(t, c)'
  BY <1>4
<1>6. c \in Launches(t)' /\ c \in Lost' /\ c # task'[t].cont
  BY <1>1, <1>2, <1>3, <1>4
<1> QED
  BY <1>5, <1>6 DEF Spent

LEMMA SoundKept ==
  ASSUME IInv, IInv', NEW t \in Task, Sound(t), ContainersKept, crashes' = crashes, RowKept(t),
         Credit(t)' <= Credit(t),
         \A c : AboutToRecord(t, c)' => AboutToRecord(t, c),
         t \in todo' => t \in todo \/ task[t].status # "new"
  PROVE  Sound(t)'
<1>1. Spent(t) \subseteq Spent(t)'
  BY SpentKept DEF IInv, TypeOK, RowKept
<1>2. Paid(t)'
  BY <1>1, PaidKept DEF Sound, RowKept
<1>3. Launches(t)' = Launches(t)
  BY KeptLaunches
<1> QED
  BY <1>2, <1>3 DEF Sound, RowKept, Absent

\* The same for a step of a loop, by what it does to status and list.
LEMMA LoopStepSound ==
  ASSUME IInv, IInv', NEW t \in Task, Sound(t), ContainersKept, crashes' = crashes, RowKept(t),
         Listed(t)' => Owed(t),
         task'[t].status \in {"pending", "recovering"} => Owed(t),
         pc' \notin {"run", "start"},
         t \in todo' => t \in todo \/ task[t].status # "new"
  PROVE  Sound(t)'
<1>1. Credit(t)' <= Credit(t)
  BY DEF Credit, Owed, Launching
<1>2. \A c : ~ AboutToRecord(t, c)'
  BY DEF AboutToRecord
<1> QED
  BY <1>1, <1>2, SoundKept

-----------------------------------------------------------------------------
(* The skeleton of a loop, and the lists.                                   *)

LEMMA ContinueListed ==
  ASSUME LoopOK, phase \in TaskPhases, todo # {}, Continue, NEW t \in Task,
         t # Current => task'[t] = task[t]
  PROVE  /\ Listed(t)' => Listed(t)
         /\ pc' \in {"next", "list"}
         /\ t \in todo' => t \in todo
<1>1. CASE todo = {Current}
  <2>1. PICK p \in Phases \ {"down", "recover"} : EnterPhase(p)
    BY <1>1, NextPhaseType DEF Continue, LoopOK, TaskPhases, Phases
  <2> QED
    BY <2>1 DEF EnterPhase, Listed
<1>2. CASE todo # {Current}
  <2>1. /\ phase' = phase /\ pc' = "next" /\ todo' = todo \ {Current}
        /\ snap' = [snap EXCEPT ![Current] = EmptyRow]
    BY <1>2 DEF Continue
  <2>2. ASSUME t \in todo'
        PROVE  t \in todo /\ t # Current /\ snap'[t] = snap[t] /\ task'[t] = task[t]
    BY <2>1, <2>2 DEF LoopOK
  <2> QED
    BY <2>1, <2>2 DEF Listed, TaskPhases
<1> QED
  BY <1>1, <1>2

LEMMA GotoListed ==
  ASSUME LoopOK, NEW label \in PCs \ {"run", "start", "next"}, Goto(label), NEW t \in Task,
         task'[t].cont = task[t].cont \/ phase # "running"
  PROVE  /\ Listed(t)' => Listed(t)
         /\ pc' = label
         /\ t \in todo' => t \in todo
<1>1. pc' = label /\ phase' = phase /\ todo' = todo /\ snap' = snap
  BY DEF Goto
<1>2. Current' = Current
  BY <1>1 DEF Current
<1> QED
  BY <1>1, <1>2 DEF Listed

LEMMA ListIntoListed ==
  ASSUME LoopOK, phase \in TaskPhases, NEW S \in SUBSET Task, ListInto(S), UNCHANGED task,
         NEW t \in Task,
         phase \in {"recovering", "dispatch"} /\ t \in S => task[t].status \in {"pending", "recovering"}
  PROVE  /\ Listed(t)' => Owed(t)
         /\ pc' \in {"next", "list"}
         /\ t \in todo' => t \in S
<1>1. CASE S = {}
  <2>1. PICK p \in Phases \ {"down", "recover"} : EnterPhase(p)
    BY <1>1, NextPhaseType DEF ListInto, LoopOK
  <2> QED
    BY <2>1 DEF EnterPhase, Listed
<1>2. CASE S # {}
  <2>1. /\ phase' = phase /\ pc' = "next" /\ todo' = S
        /\ snap' = [u \in Task |-> IF u \in S THEN task[u] ELSE EmptyRow]
    BY <1>2 DEF ListInto
  <2> QED
    BY <2>1 DEF Listed, Owed, TaskPhases
<1> QED
  BY <1>1, <1>2

\* Entering a loop of a tick lists nothing.
LEMMA EnterPhaseListed ==
  ASSUME NEW p \in Phases \ {"down", "recover"}, EnterPhase(p), NEW t
  PROVE  ~ Listed(t)' /\ pc' = "list" /\ t \notin todo'
BY DEF EnterPhase, Listed

-----------------------------------------------------------------------------
(* Statements, and the row of an arbitrary task.                            *)

\* What a statement of the orchestrator on the row of u, which may fail, leaves
\* of the row of t.
LEMMA StatementRows ==
  ASSUME task \in TaskTable, NEW u \in Task, NEW t \in Task
  PROVE  /\ \A s \in TaskStatus :
              Write(UpdateTaskStatus(task, u, s)) =>
                /\ RowKept(t) /\ task'[t].cont = task[t].cont
                /\ t # u => task'[t] = task[t]
                /\ task'[t].status \in {task[t].status, s}
         /\ Write(MarkReadyForRetry(task, u)) =>
                /\ RowKept(t) /\ task'[t].cont = task[t].cont
                /\ t # u => task'[t] = task[t]
                /\ task'[t].status = task[t].status
         /\ Write(ClearTaskAssignment(task, u)) =>
                /\ RowKept(t)
                /\ t # u => task'[t] = task[t]
                /\ task'[t].status = task[t].status
         /\ Write(RequeueTask(task, u)) =>
                /\ RowKept(t)
                /\ t # u => task'[t] = task[t]
                /\ task'[t].status \in {task[t].status, "pending"}
<1>1. task[t] \in Row
  BY DEF TaskTable
<1>2. ASSUME NEW row \in Row, Write(UpdateRow(task, u, row))
      PROVE  task'[t] = task[t] \/ (t = u /\ InTable(task, t) /\ task'[t] = row)
  BY <1>2 DEF Write, UpdateRow, TaskTable
<1>3. ASSUME NEW s \in TaskStatus, Write(UpdateTaskStatus(task, u, s))
      PROVE  /\ RowKept(t) /\ task'[t].cont = task[t].cont
             /\ t # u => task'[t] = task[t]
             /\ task'[t].status \in {task[t].status, s}
  BY <1>1, <1>3 DEF Write, UpdateTaskStatus, UpdateRow, TaskTable, RowKept, InTable, Row,
                    TaskStatus, Absent
<1>4. ASSUME Write(MarkReadyForRetry(task, u))
      PROVE  /\ RowKept(t) /\ task'[t].cont = task[t].cont
             /\ t # u => task'[t] = task[t]
             /\ task'[t].status = task[t].status
  BY <1>1, <1>4 DEF Write, MarkReadyForRetry, UpdateRow, TaskTable, RowKept, InTable, Row,
                    TaskStatus, Absent
<1>5. ASSUME Write(ClearTaskAssignment(task, u))
      PROVE  /\ RowKept(t)
             /\ t # u => task'[t] = task[t]
             /\ task'[t].status = task[t].status
  <2> DEFINE row == [task[u] EXCEPT !.inst = NoInstance, !.cont = NoContainer]
  <2>1. row \in Row /\ row.status = task[u].status /\ row.cont = NoContainer
        /\ row.uretry = task[u].uretry
    BY DEF TaskTable, Row, NoInstance, NoContainer
  <2>2. Write(UpdateRow(task, u, row))
    BY <1>5 DEF ClearTaskAssignment
  <2> HIDE DEF row
  <2> QED
    BY <1>2, <2>1, <2>2 DEF RowKept, InTable, Absent
<1>6. ASSUME Write(RequeueTask(task, u))
      PROVE  /\ RowKept(t)
             /\ t # u => task'[t] = task[t]
             /\ task'[t].status \in {task[t].status, "pending"}
  <2> DEFINE row == [task[u] EXCEPT !.status = "pending", !.inst = NoInstance,
                                    !.cont = NoContainer, !.started = FALSE,
                                    !.ready = FALSE]
  <2>1. row \in Row /\ row.status = "pending" /\ row.cont = NoContainer
        /\ row.uretry = task[u].uretry
    BY DEF TaskTable, Row, TaskStatus, NoInstance, NoContainer
  <2>2. Write(UpdateRow(task, u, row))
    BY <1>6 DEF RequeueTask
  <2> HIDE DEF row
  <2> QED
    BY <1>2, <2>1, <2>2 DEF RowKept, InTable, Absent
<1> QED
  BY <1>3, <1>4, <1>5, <1>6

-----------------------------------------------------------------------------
(* Every step keeps the account of every task.                              *)

LEMMA InHand ==
  ASSUME LoopOK, pc \notin ListPCs
  PROVE  /\ todo # {} /\ Current \in todo /\ Current \in Task
         /\ phase # "recover" => phase \in TaskPhases
<1>1. todo \subseteq Task /\ todo # {} /\ phase \in Phases
  BY DEF LoopOK, LoopShape
<1>2. phase # "recover" => phase \in TaskPhases
  BY <1>1 DEF LoopOK, LoopShape, Labels, Phases, TaskPhases
<1> QED
  BY <1>1, <1>2, CurrentInTodo

\* A step that handles the task in hand keeps the account of every task, unless
\* it queues a task that has no right to it, or launches.
LEMMA HandledSound ==
  ASSUME IInv, IInv', NEW t \in Task, Sound(t), ContainersKept, crashes' = crashes,
         pc \notin ListPCs, phase # "recover", RowKept(t),
         task'[t].status \in {"pending", "recovering"} => Owed(t),
         \/ Continue /\ (t # Current => task'[t] = task[t])
         \/ /\ \E label \in PCs \ {"run", "start", "next"} : Goto(label)
            /\ task'[t].cont = task[t].cont \/ phase # "running"
  PROVE  Sound(t)'
<1>1. LoopOK /\ todo # {} /\ phase \in TaskPhases
  BY InHand, IInvParts
<1>2. /\ Listed(t)' => Listed(t)
      /\ pc' \notin {"run", "start"}
      /\ t \in todo' => t \in todo
  <2>1. CASE Continue /\ (t # Current => task'[t] = task[t])
    BY <1>1, <2>1, ContinueListed
  <2>2. CASE /\ \E label \in PCs \ {"run", "start", "next"} : Goto(label)
             /\ task'[t].cont = task[t].cont \/ phase # "running"
    BY <1>1, <2>2, GotoListed
  <2> QED
    BY <2>1, <2>2
<1> QED
  BY <1>2, LoopStepSound DEF Owed

\* A step that takes a list into memory keeps the account when the tasks of a
\* list of recovering or pending ones are such.
LEMMA ListedSound ==
  ASSUME IInv, IInv', NEW t \in Task, Sound(t), UNCHANGED <<task, ctr, crashes>>,
         phase \in TaskPhases, NEW S \in SUBSET Task, ListInto(S),
         t \in S => task[t].status # "new",
         phase \in {"recovering", "dispatch"} /\ t \in S => task[t].status \in {"pending", "recovering"}
  PROVE  Sound(t)'
<1>1. /\ Listed(t)' => Owed(t)
      /\ pc' \in {"next", "list"}
      /\ t \in todo' => t \in S
  BY ListIntoListed, IInvParts
<1> QED
  BY <1>1, SameContainersKept, LoopStepSound DEF RowKept, Owed

\* So does one that goes on to another loop.
LEMMA EnterSound ==
  ASSUME IInv, IInv', NEW t \in Task, Sound(t), UNCHANGED <<task, ctr, crashes>>,
         NEW p \in Phases \ {"down", "recover"}, EnterPhase(p)
  PROVE  Sound(t)'
BY EnterPhaseListed, SameContainersKept, LoopStepSound DEF RowKept, Owed

LEMMA MonitorCancelledSound ==
  ASSUME IInv, IInv', MonitorCancelled, NEW t \in Task, Sound(t)
  PROVE  Sound(t)'
<1> USE DEF tables, world, memory, budget, At
<1>1. LoopOK /\ task \in TaskTable /\ ctr \in Seq(Container)
  BY IInvParts DEF RestOK
<1>2. CASE ListCancelled
  BY <1>2, ListedSound DEF ListCancelled, WithStatus, TaskPhases
<1>3. CASE CancelledWithoutContainer
  <2>1. Current \in Task /\ Continue /\ crashes' = crashes
    BY <1>1, <1>3, InHand DEF CancelledWithoutContainer
  <2>2. /\ RowKept(t)
        /\ t # Current => task'[t] = task[t]
        /\ task'[t].status = task[t].status
    BY <1>1, <1>3, <2>1, StatementRows DEF CancelledWithoutContainer, RowKept
  <2> QED
    BY <1>3, <2>1, <2>2, SameContainersKept, HandledSound DEF CancelledWithoutContainer, Owed
<1>4. CASE StopCancelled
  BY <1>1, <1>4, StopKeepsContainers, HandledSound DEF StopCancelled, PCs, RowKept, Owed
<1>5. CASE ClearCancelled
  <2>1. Current \in Task
    BY <1>1, <1>5, InHand DEF ClearCancelled
  <2>2. RowKept(t) /\ task'[t].status = task[t].status
    BY <1>1, <1>5, <2>1, StatementRows DEF ClearCancelled
  <2> QED
    BY <1>5, <2>2, SameContainersKept, HandledSound DEF ClearCancelled, PCs, Owed
<1> QED
  BY <1>2, <1>3, <1>4, <1>5 DEF MonitorCancelled

LEMMA MonitorRecoveringSound ==
  ASSUME IInv, IInv', MonitorRecovering, NEW t \in Task, Sound(t)
  PROVE  Sound(t)'
<1> USE DEF tables, world, memory, budget, At
<1>1. LoopOK /\ task \in TaskTable
  BY IInvParts DEF RestOK
<1>2. CASE ListRecovering
  BY <1>2, ListedSound DEF ListRecovering, WithStatus, TaskPhases
<1>3. CASE RequeueProvisioned
  BY <1>3, SameContainersKept, HandledSound DEF RequeueProvisioned, PCs, RowKept, Owed
<1>4. CASE PromoteRecovered
  <2>1. Current \in Task
    BY <1>1, <1>4, InHand DEF PromoteRecovered, Inspecting
  <2>2. /\ RowKept(t)
        /\ t # Current => task'[t] = task[t]
        /\ task'[t].status \in {task[t].status, "running"}
    BY <1>1, <1>4, <2>1, StatementRows DEF PromoteRecovered, TaskStatus
  <2> QED
    BY <1>4, <2>2, SameContainersKept, HandledSound DEF PromoteRecovered, Inspecting, Owed
<1> QED
  BY <1>2, <1>3, <1>4 DEF MonitorRecovering

LEMMA MonitorRunningSound ==
  ASSUME IInv, IInv', MonitorRunning, NEW t \in Task, Sound(t)
  PROVE  Sound(t)'
<1> USE DEF tables, world, memory, budget, At
<1>1. LoopOK /\ task \in TaskTable /\ ctr \in Seq(Container)
  BY IInvParts DEF RestOK
<1>2. CASE ListRunning
  BY <1>2, ListedSound DEF ListRunning, WithStatus, TaskPhases
<1>3. CASE StillRunning
  BY <1>3, SameContainersKept, HandledSound DEF StillRunning, Inspecting, RowKept, Owed
<1>4. CASE StopToKill
  BY <1>1, <1>4, StopKeepsContainers, HandledSound DEF StopToKill, PCs, RowKept, Owed
<1>5. CASE KillTask
  <2>1. Current \in Task
    BY <1>1, <1>5, InHand DEF KillTask
  <2>2. /\ RowKept(t) /\ task'[t].cont = task[t].cont
        /\ task'[t].status \in {task[t].status, "failed"}
    BY <1>1, <1>5, <2>1, StatementRows DEF KillTask, CompleteTask, TaskStatus
  <2> QED
    BY <1>5, <2>2, SameContainersKept, HandledSound DEF KillTask, PCs, Owed
<1> QED
  BY <1>2, <1>3, <1>4, <1>5 DEF MonitorRunning

\* A launch adds one container, the newest of its task.
LEMMA LaunchAdds ==
  ASSUME ctr \in Seq(Container), ctr' \in Seq(Container), NEW u, NEW i,
         ctr' = Append(ctr, [task |-> u, inst |-> i, st |-> "live"]), NEW t
  PROVE  /\ Len(ctr) + 1 \notin Launches(u)
         /\ Launches(u)' = Launches(u) \cup {Len(ctr) + 1}
         /\ \A c \in Launches(u) : c # Newest(u)'
         /\ Newest(u)' # NoContainer
         /\ t # u => Launches(t)' = Launches(t) /\ Newest(t)' = Newest(t)
         /\ Lost' = Lost
<1> DEFINE n == Len(ctr) + 1
           agent == [task |-> u, inst |-> i, st |-> "live"]
<1>1. Len(ctr) \in Nat /\ DOMAIN ctr = 1..Len(ctr) /\ DOMAIN ctr' = 1..n
  OBVIOUS
<1>2. ctr'[n] = agent /\ \A c \in DOMAIN ctr : ctr'[c] = ctr[c]
  BY <1>1
<1>3. DOMAIN ctr' = DOMAIN ctr \cup {n} /\ n \notin DOMAIN ctr
  BY <1>1
<1>4. agent.task = u /\ agent.st = "live"
  OBVIOUS
<1> HIDE DEF agent
<1>5. Launches(u)' = Launches(u) \cup {n} /\ n \notin Launches(u) /\ Lost' = Lost
  BY <1>2, <1>3, <1>4 DEF Launches, Lost
<1>6. ASSUME t # u PROVE Launches(t)' = Launches(t) /\ Newest(t)' = Newest(t)
  <2>1. {c \in DOMAIN ctr : ctr[c].task = t}' = {c \in DOMAIN ctr : ctr[c].task = t}
    BY <1>2, <1>3, <1>4, <1>6
  <2> QED
    BY <2>1 DEF Launches, Newest
<1>7. Launches(u)' \in SUBSET DOMAIN ctr' /\ Newest(u)' = Max({NoContainer} \cup Launches(u)')
  BY DEF Launches, Newest
<1>8. Newest(u)' \in {NoContainer} \cup Launches(u)' /\ n <= Newest(u)'
  <2>1. n \in Launches(u)'
    BY <1>5
  <2>2. Max({NoContainer} \cup Launches(u)') \in {NoContainer} \cup Launches(u)'
        /\ \A c \in Launches(u)' : c <= Max({NoContainer} \cup Launches(u)')
    BY <1>7, GreatestContainer
  <2> HIDE DEF n
  <2> QED
    BY <1>7, <2>1, <2>2
<1>9. \A c \in Launches(u) : c < n
  BY <1>1 DEF Launches
<1>10. Newest(u)' # NoContainer
  BY <1>1, <1>8 DEF NoContainer
<1>11. \A c \in Launches(u) : c # Newest(u)'
  <2>1. Launches(u) \subseteq Nat
    BY <1>1 DEF Launches
  <2>2. Newest(u)' \in Nat
    BY <1>1, <1>5, <1>8, <2>1 DEF NoContainer
  <2> QED
    BY <1>1, <1>8, <1>9, <2>1, <2>2
<1> QED
  BY <1>5, <1>6, <1>10, <1>11

\* A launch, new or answered with an earlier container, uses up the right to it.
LEMMA RunAgentSound ==
  ASSUME IInv, IInv', RunAgent, NEW t \in Task, Sound(t)
  PROVE  Sound(t)'
<1> USE DEF tables, memory, budget, At
<1>1. LoopOK /\ ctr \in Seq(Container) /\ ctr' \in Seq(Container)
  BY IInvParts DEF RestOK, IInv, TypeOK
<1>2. /\ pc = "run" /\ phase = "dispatch" /\ pc' \in {"start", "fail"}
      /\ UNCHANGED <<task, crashes, phase, todo, snap>>
      /\ (Launched \/ Relaunched) \/ (pc' = "fail" /\ UNCHANGED ctr)
  BY <1>1 DEF RunAgent, Goto
<1>3. Current' = Current
  BY <1>2 DEF Current
<1>4. /\ Owed(t)' => Owed(t)
      /\ ~ Launching(t)'
  BY <1>2, <1>3 DEF Owed, Listed, Launching
<1>5. CASE t # Current
  <2>1. Launches(t)' = Launches(t) /\ Newest(t)' = Newest(t) /\ Lost' = Lost
    BY <1>1, <1>2, <1>5, LaunchAdds, SameContainersKept, KeptLaunches DEF Launched, Relaunched
  <2>2. Spent(t)' = Spent(t)
    BY <1>2, <1>3, <1>5, <2>1 DEF Spent, AboutToRecord
  <2>3. Credit(t)' <= Credit(t)
    BY <1>4 DEF Credit
  <2>4. Credit(t) \in 0..2 /\ Credit(t)' \in 0..2
    BY DEF Credit
  <2>5. /\ Cardinality(Launches(t)) \in Nat /\ Cardinality(Spent(t)) \in Nat
        /\ task[t].uretry \in Nat /\ crashes \in Nat
    BY SpentType DEF IInv, TypeOK, TaskTable, Row
  <2> HIDE DEF Launches, Spent, Credit
  <2> QED
    BY <1>2, <2>1, <2>2, <2>3, <2>4, <2>5 DEF Sound, Paid
<1>6. CASE t = Current
  <2>1. Credit(t) \in 1..2 /\ Credit(t)' \in 0..1 /\ Credit(t)' + 1 <= Credit(t)
    BY <1>2, <1>4, <1>6 DEF Credit, Launching
  <2>2. /\ Cardinality(Launches(t)) \in Nat /\ Cardinality(Spent(t)) \in Nat
        /\ Cardinality(Launches(t)') \in Nat /\ Cardinality(Spent(t)') \in Nat
        /\ IsFiniteSet(Launches(t)) /\ IsFiniteSet(Spent(t)) /\ IsFiniteSet(Spent(t)')
        /\ task[t].uretry \in Nat /\ crashes \in Nat
    BY <1>1, SpentType, SpentTypeNext DEF IInv, TypeOK, TaskTable, Row
  <2>3. Launches(t) \subseteq Launches(t)' /\ t \in todo
    BY <1>1, <1>2, <1>6, LaunchAdds, SameContainersKept, KeptLaunches, CurrentInTodo
       DEF Launched, Relaunched, LoopOK, LoopShape
  <2>4. CASE Launched
    <3>1. /\ Launches(t)' = Launches(t) \cup {Len(ctr) + 1} /\ Len(ctr) + 1 \notin Launches(t)
          /\ \A c \in Launches(t) : c # Newest(t)'
          /\ Lost' = Lost
      BY <1>1, <1>6, <2>4, LaunchAdds DEF Launched
    <3>2. Cardinality(Launches(t)') = Cardinality(Launches(t)) + 1
      BY <2>2, <3>1, FS_AddElement
    <3>3. Spent(t) \subseteq Spent(t)'
      BY <1>2, <3>1 DEF Spent, AboutToRecord
    <3>4. Cardinality(Spent(t)) <= Cardinality(Spent(t)')
      BY <2>2, <3>3, FS_Subset
    <3> HIDE DEF Launches, Spent, Credit
    <3> QED
      BY <1>2, <2>1, <2>2, <2>3, <3>2, <3>4 DEF Sound, Paid
  <2>5. CASE UNCHANGED ctr
    <3>1. Launches(t)' = Launches(t) /\ Newest(t)' = Newest(t) /\ Lost' = Lost
      BY <2>5, SameContainersKept, KeptLaunches
    <3>2. Spent(t) \subseteq Spent(t)' \cup {Newest(t)}
      BY <1>2, <3>1 DEF Spent, AboutToRecord
    <3>3. Cardinality(Spent(t)) <= Cardinality(Spent(t)') + 1
      <4> DEFINE S == Spent(t)' \cup {Newest(t)}
      <4>1. IsFiniteSet(S) /\ Cardinality(S) \in {Cardinality(Spent(t)'), Cardinality(Spent(t)') + 1}
        BY <2>2, FS_AddElement
      <4>2. Cardinality(Spent(t)) <= Cardinality(S)
        BY <3>2, <4>1, FS_Subset
      <4> QED
        BY <2>2, <4>1, <4>2
    <3> HIDE DEF Launches, Spent, Credit
    <3> QED
      BY <1>2, <2>1, <2>2, <2>3, <3>1, <3>3 DEF Sound, Paid
  <2> QED
    BY <1>2, <2>4, <2>5 DEF Relaunched
<1> QED
  BY <1>5, <1>6

\* Every other step of dispatch takes a task from the queue, or leaves it there.
LEMMA AssignSound ==
  ASSUME IInv, IInv', Assign, NEW t \in Task, Sound(t)
  PROVE  Sound(t)'
<1> USE DEF tables, world, memory, budget, At
<1>1. LoopOK /\ task \in TaskTable
  BY IInvParts DEF RestOK
<1>2. Current \in Task /\ Current \in todo /\ phase = "dispatch" /\ pc = "next"
      /\ UNCHANGED <<ctr, crashes>>
  BY <1>1, InHand DEF Assign
<1>3. CASE /\ AvailableInstances # {}
           /\ task' = AssignTask(task, Current, Min(AvailableInstances))
           /\ pc' = "run"
           /\ UNCHANGED <<phase, todo, snap>>
  <2>1. Current' = Current
    BY <1>3 DEF Current
  <2>2. /\ RowKept(t)
        /\ t # Current => task'[t] = task[t]
        /\ task'[t].status \in {task[t].status, "provisioning"}
        /\ InTable(task, t) /\ t = Current => task'[t].status = "provisioning"
    <3> DEFINE row == [task[Current] EXCEPT !.status = "provisioning",
                                            !.inst = Min(AvailableInstances)]
    <3>1. /\ row.status = "provisioning" /\ row.cont = task[Current].cont
          /\ row.uretry = task[Current].uretry
      BY <1>1, <1>2 DEF TaskTable, Row
    <3>2. task' = UpdateRow(task, Current, row)
      BY <1>3 DEF AssignTask
    <3> HIDE DEF row
    <3> QED
      BY <1>1, <1>2, <3>1, <3>2 DEF RowKept, InTable, Absent, UpdateRow, TaskTable
  <2>3. Credit(t)' <= Credit(t)
    <3>1. CASE t # Current
      BY <1>2, <1>3, <2>1, <2>2, <3>1 DEF Credit, Owed, Listed, Launching
    <3>2. CASE t = Current
      <4>1. Owed(t) /\ ~ Launching(t)
        BY <1>2, <3>2 DEF Owed, Listed, Launching
      <4>2. Launching(t)'
        BY <1>3, <2>1, <3>2 DEF Launching
      <4>3. task'[t].status \notin {"pending", "recovering"} \/ task[t].status \in Absent
        BY <2>2, <3>2 DEF InTable
      <4>4. ~ Listed(t)'
        BY <1>2, <1>3, <2>1, <3>2 DEF Listed
      <4>5. task[t].status \in Absent => task'[t].status \in Absent
        BY <1>1, <1>2, <1>3 DEF AssignTask, UpdateRow, InTable, TaskTable
      <4>6. ~ Owed(t)'
        BY <4>3, <4>4, <4>5 DEF Owed, Absent
      <4> QED
        BY <4>1, <4>2, <4>6 DEF Credit
    <3> QED
      BY <3>1, <3>2
  <2>4. \A c : ~ AboutToRecord(t, c)'
    BY <1>3 DEF AboutToRecord
  <2> QED
    BY <1>2, <1>3, <2>2, <2>3, <2>4, SameContainersKept, SoundKept
<1>4. CASE Goto("fail") /\ UNCHANGED task
  BY <1>2, <1>4, SameContainersKept, HandledSound DEF PCs, RowKept, Owed
<1> QED
  BY <1>3, <1>4 DEF Assign

LEMMA StartSound ==
  ASSUME IInv, IInv', Start, NEW t \in Task, Sound(t)
  PROVE  Sound(t)'
<1> USE DEF tables, memory, budget, At
<1>1. LoopOK /\ task \in TaskTable /\ ctr \in Seq(Container)
  BY IInvParts DEF RestOK
<1>2. Current \in Task /\ Current \in todo /\ phase = "dispatch" /\ pc = "start"
      /\ UNCHANGED <<ctr, crashes>>
  BY <1>1, InHand DEF Start
<1>3. ContainersKept /\ Lost' = Lost /\ Launches(t)' = Launches(t)
  BY <1>2, SameContainersKept, KeptLaunches
<1>4. CASE task' = StartTask(task, Current, Newest(Current)) /\ Continue
  <2> DEFINE row == [task[Current] EXCEPT !.status = "running", !.cont = Newest(Current),
                                          !.started = TRUE]
  <2>1. /\ row.status = "running" /\ row.cont = Newest(Current)
        /\ row.uretry = task[Current].uretry
    BY <1>1, <1>2 DEF TaskTable, Row
  <2>2. task' = UpdateRow(task, Current, row)
    BY <1>4 DEF StartTask
  <2> HIDE DEF row
  <2>3. /\ t # Current => task'[t] = task[t]
        /\ task'[t] = task[t] \/ (t = Current /\ InTable(task, t) /\ task'[t] = row)
    BY <1>1, <1>2, <2>2 DEF UpdateRow, TaskTable
  <2>4. /\ Listed(t)' => Listed(t)
        /\ pc' \in {"next", "list"}
        /\ t \in todo' => t \in todo
    BY <1>1, <1>2, <1>4, <2>3, ContinueListed DEF TaskPhases
  <2>5. Credit(t)' <= Credit(t)
    BY <2>1, <2>3, <2>4 DEF Credit, Owed, Launching
  <2>6. ASSUME InTable(task, t) PROVE Spent(t) \subseteq Spent(t)'
    <3>1. \A c : ~ AboutToRecord(t, c)'
      BY <2>4 DEF AboutToRecord
    <3>2. \A c \in Spent(t) : c # task'[t].cont
      BY <1>2, <2>1, <2>3 DEF Spent, AboutToRecord
    <3> QED
      BY <1>3, <3>1, <3>2 DEF Spent
  <2>7. Paid(t)'
    BY <1>2, <1>3, <2>1, <2>3, <2>5, <2>6, PaidKept DEF Sound, InTable
  <2>8. Newest(t) \in {NoContainer} \cup Launches(t)
    BY <1>1, NewestIs
  <2> QED
    BY <1>3, <2>1, <2>3, <2>4, <2>7, <2>8 DEF Sound
<1>5. CASE Goto("fail") /\ UNCHANGED task
  BY <1>2, <1>5, SameContainersKept, HandledSound DEF PCs, RowKept, Owed
<1> QED
  BY <1>4, <1>5 DEF Start

LEMMA DispatchPendingSound ==
  ASSUME IInv, IInv', DispatchPending, NEW t \in Task, Sound(t)
  PROVE  Sound(t)'
<1> USE DEF tables, world, memory, budget, At
<1>1. LoopOK /\ task \in TaskTable
  BY IInvParts DEF RestOK
<1>2. CASE ListPending
  <2>1. CASE EnterPhase(NextPhase["dispatch"])
    BY <1>2, <2>1, NextPhaseType, EnterSound DEF ListPending, Phases
  <2>2. CASE ListInto(OldestFirst(WithStatus(task, "pending"), MaxConcurrent - running))
    <3>1. /\ OldestFirst(WithStatus(task, "pending"), MaxConcurrent - running)
               \subseteq WithStatus(task, "pending")
          /\ WithStatus(task, "pending") \subseteq Task
      BY DEF OldestFirst, WithStatus
    <3>2. t \in WithStatus(task, "pending") => task[t].status = "pending"
      BY DEF WithStatus
    <3> QED
      BY <1>2, <2>2, <3>1, <3>2, ListedSound DEF ListPending, TaskPhases
  <2> QED
    BY <1>2, <2>1, <2>2 DEF ListPending
<1>3. CASE RejectRead \/ FailDispatch
  <2>1. Current \in Task /\ UNCHANGED <<ctr, crashes>> /\ Continue
        /\ Write(UpdateTaskStatus(task, Current, "failed"))
        /\ pc \notin ListPCs /\ phase = "dispatch"
    BY <1>1, <1>3, InHand DEF RejectRead, FailDispatch
  <2>2. /\ RowKept(t)
        /\ t # Current => task'[t] = task[t]
        /\ task'[t].status \in {task[t].status, "failed"}
    BY <1>1, <2>1, StatementRows DEF TaskStatus
  <2> QED
    BY <2>1, <2>2, SameContainersKept, HandledSound DEF Owed
<1>4. CASE NoCapacity
  BY <1>4, SameContainersKept, HandledSound DEF NoCapacity, RowKept, Owed
<1> QED
  BY <1>2, <1>3, <1>4, AssignSound, RunAgentSound, StartSound DEF DispatchPending

\* monitorRunning requeues a task that has lost its container, which becomes the
\* reason of the launch to come, or one that has been retried since it was listed.
LEMMA RequeueSound ==
  ASSUME IInv, IInv', NoHosts, RequeuedIsLost, Requeue, NEW t \in Task, Sound(t)
  PROVE  Sound(t)'
<1> USE DEF tables, world, memory, budget
<1>1. LoopOK /\ task \in TaskTable /\ ctr \in Seq(Container)
  BY IInvParts DEF RestOK
<1>2. /\ Current \in Task /\ Current \in todo /\ pc = "requeue"
      /\ phase \in {"recovering", "running"}
      /\ UNCHANGED <<ctr, crashes>> /\ Continue /\ Write(RequeueTask(task, Current))
  BY <1>1, InHand, LabelPhase DEF Requeue
<1>3. /\ RowKept(t)
      /\ t # Current => task'[t] = task[t]
      /\ task'[t].status \in {task[t].status, "pending"}
  BY <1>1, <1>2, StatementRows
<1>4. ContainersKept
  BY <1>2, SameContainersKept
<1>5. CASE task'[t] = task[t] \/ Owed(t)
  BY <1>2, <1>3, <1>4, <1>5, HandledSound DEF Owed
<1>6. CASE task'[t] # task[t] /\ ~ Owed(t)
  <2>1. t = Current /\ phase = "running" /\ task[t].cont = snap[t].cont
    BY <1>2, <1>3, <1>6 DEF Owed, Listed
  <2>2. task[t].cont \in Launches(t) \cap Lost
    BY <1>1, <1>2, <2>1, ContainersFinite DEF RequeuedIsLost, Sound, Lost
  <2>3. task'[t].cont = NoContainer /\ task'[t].uretry = task[t].uretry
        /\ task[t].status \notin Absent /\ task'[t].status # "new"
    <3> DEFINE row == [task[Current] EXCEPT !.status = "pending", !.inst = NoInstance,
                                            !.cont = NoContainer, !.started = FALSE,
                                            !.ready = FALSE]
    <3>1. row.status = "pending" /\ row.cont = NoContainer /\ row.uretry = task[Current].uretry
      BY <1>1, <1>2 DEF TaskTable, Row
    <3>2. task' = UpdateRow(task, Current, row) \/ task' = task
      BY <1>2 DEF Write, RequeueTask
    <3> HIDE DEF row
    <3> QED
      BY <1>1, <1>2, <1>6, <2>1, <3>1, <3>2 DEF UpdateRow, InTable, TaskTable, Absent
  <2>4. /\ Launches(t)' = Launches(t) /\ Lost' = Lost
        /\ NoContainer \notin Launches(t) /\ pc' \in {"next", "list"}
        /\ t \in todo' => t \in todo
    BY <1>1, <1>2, <1>3, <1>4, SameContainersKept, KeptLaunches, SpentType, ContinueListed
       DEF TaskPhases
  <2>5. \A c : ~ AboutToRecord(t, c)'
    BY <2>4 DEF AboutToRecord
  <2>6. task[t].cont \notin Spent(t) /\ Spent(t) \cup {task[t].cont} \subseteq Spent(t)'
    BY <2>2, <2>3, <2>4, <2>5 DEF Spent
  <2>7. /\ Cardinality(Launches(t)) \in Nat /\ Cardinality(Spent(t)) \in Nat
        /\ Cardinality(Spent(t)') \in Nat /\ IsFiniteSet(Spent(t)) /\ IsFiniteSet(Spent(t)')
        /\ task[t].uretry \in Nat /\ crashes \in Nat
    BY SpentType, SpentTypeNext DEF IInv, TypeOK, TaskTable, Row
  <2>8. Cardinality(Spent(t)) + 1 <= Cardinality(Spent(t)')
    <3>1. /\ IsFiniteSet(Spent(t) \cup {task[t].cont})
          /\ Cardinality(Spent(t) \cup {task[t].cont}) = Cardinality(Spent(t)) + 1
      BY <2>6, <2>7, FS_AddElement
    <3> QED
      BY <2>6, <2>7, <3>1, FS_Subset
  <2>9. Credit(t)' \in 0..1 /\ Credit(t) \in 0..2
    BY <2>4 DEF Credit, Launching
  <2>10. Paid(t)'
    <3> HIDE DEF Launches, Spent, Credit
    <3> QED
      BY <1>2, <2>3, <2>4, <2>7, <2>8, <2>9 DEF Sound, Paid
  <2> QED
    BY <2>3, <2>10 DEF Sound
<1> QED
  BY <1>5, <1>6

LEMMA SharedSound ==
  ASSUME IInv, IInv', NoHosts, RequeuedIsLost, Shared, NEW t \in Task, Sound(t)
  PROVE  Sound(t)'
<1> USE DEF tables, world, memory, budget
<1>1. LoopOK /\ task \in TaskTable
  BY IInvParts DEF RestOK
<1>2. CASE ListFails
  BY <1>1, <1>2, NextPhaseType, EnterSound DEF ListFails, LoopOK
<1>3. CASE CompleteExited
  <2>1. Current \in Task /\ pc \notin ListPCs /\ phase # "recover" /\ UNCHANGED <<ctr, crashes>>
    BY <1>1, <1>3, InHand DEF CompleteExited, Inspecting
  <2>2. PICK result \in {"completed", "failed"} :
          /\ Write(UpdateTaskStatus(task, Current, result))
          /\ Goto(IF result = "completed" THEN "releaseCompleted" ELSE "release")
    BY <1>3 DEF CompleteExited, CompleteTask
  <2>3. /\ RowKept(t) /\ task'[t].cont = task[t].cont
        /\ task'[t].status \in {task[t].status, result}
    BY <1>1, <2>1, <2>2, StatementRows DEF TaskStatus
  <2> QED
    BY <2>1, <2>2, <2>3, SameContainersKept, HandledSound DEF PCs, Owed
<1>4. CASE ReleaseSlot
  <2>1. Continue \/ Goto("clear") \/ Goto("ready")
    BY <1>4 DEF ReleaseSlot
  <2>2. phase # "recover"
    BY <1>1, <1>4, LabelPhase DEF ReleaseSlot
  <2> QED
    BY <1>4, <2>1, <2>2, SameContainersKept, HandledSound DEF ReleaseSlot, PCs, RowKept, Owed
<1>5. CASE MarkRetryReady
  <2>1. Current \in Task /\ phase # "recover"
    BY <1>1, <1>5, InHand, LabelPhase DEF MarkRetryReady
  <2>2. /\ RowKept(t)
        /\ t # Current => task'[t] = task[t]
        /\ task'[t].status = task[t].status
    BY <1>1, <1>5, <2>1, StatementRows DEF MarkRetryReady
  <2> QED
    BY <1>5, <2>1, <2>2, SameContainersKept, HandledSound DEF MarkRetryReady, Owed
<1>6. CASE GiveUpInstance
  BY <1>6, SameContainersKept, HandledSound DEF GiveUpInstance, Inspecting, PCs, RowKept, Owed
<1>7. CASE CountInspectFailure
  BY <1>7, SameContainersKept, HandledSound DEF CountInspectFailure, Inspecting, RowKept, Owed
<1> QED
  BY <1>2, <1>3, <1>4, <1>5, <1>6, <1>7, RequeueSound DEF Shared

\* While the server recovers every task may yet be launched.
LEMMA RecoverSound ==
  ASSUME IInv, IInv', Recover, NEW t \in Task, Sound(t)
  PROVE  Sound(t)'
<1> USE DEF tables, world, memory, budget, At
<1>1. LoopOK /\ task \in TaskTable
  BY IInvParts DEF RestOK
<1>2. phase = "recover" /\ UNCHANGED <<ctr, crashes>>
  BY DEF Recover, ListOrphansRunning, ListOrphansProvisioning, Collect,
         ListOrphansRecovering, MarkRecovering, ClearProvisioned, RebuildCounters
<1>3. Owed(t)
  BY <1>2 DEF Owed, Listed
<1>4. CASE ListOrphansRunning \/ ListOrphansProvisioning
  BY <1>2, <1>3, <1>4, SameContainersKept, LoopStepSound
     DEF ListOrphansRunning, ListOrphansProvisioning, Collect, WithStatus, RowKept
<1>5. CASE ListOrphansRecovering
  <2>1. UNCHANGED task /\ pc' \notin {"run", "start"} /\ (t \in todo' => t \in todo)
    BY <1>5 DEF ListOrphansRecovering, EnterPhase
  <2> QED
    BY <1>2, <1>3, <2>1, SameContainersKept, LoopStepSound DEF RowKept
<1>6. CASE MarkRecovering \/ ClearProvisioned
  <2>1. Current \in Task
    BY <1>1, <1>6, InHand DEF MarkRecovering, ClearProvisioned
  <2>2. RowKept(t)
    BY <1>1, <1>6, <2>1, StatementRows DEF MarkRecovering, ClearProvisioned, TaskStatus
  <2>3. pc' \notin {"run", "start"} /\ (t \in todo' => t \in todo)
    BY <1>6 DEF MarkRecovering, ClearProvisioned, NextOrphan, Goto
  <2> QED
    BY <1>2, <1>3, <2>2, <2>3, SameContainersKept, LoopStepSound
<1>7. CASE RebuildCounters
  BY <1>2, <1>3, <1>7, SameContainersKept, LoopStepSound DEF RebuildCounters, EnterPhase, RowKept
<1> QED
  BY <1>4, <1>5, <1>6, <1>7 DEF Recover

-----------------------------------------------------------------------------
(* Requests, containers and crashes.                                        *)

LEMMA AlongsideSound ==
  ASSUME IInv, IInv', NEW t \in Task, Sound(t), ContainersKept, UNCHANGED <<loop, crashes>>,
         RowKept(t), task'[t].cont = task[t].cont,
         task'[t].status \in {"pending", "recovering"} => task[t].status \in {"pending", "recovering"}
  PROVE  Sound(t)'
<1> USE DEF loop
<1>1. Current' = Current
  BY DEF Current
<1>2. Newest(t)' = Newest(t)
  BY KeptLaunches
<1>3. Credit(t)' <= Credit(t)
  BY <1>1 DEF Credit, Owed, Listed, Launching
<1>4. \A c : AboutToRecord(t, c)' => AboutToRecord(t, c)
  BY <1>1, <1>2 DEF AboutToRecord
<1> QED
  BY <1>3, <1>4, SoundKept

LEMMA CreateSound ==
  ASSUME IInv, IInv', NEW u \in Task, Create(u), NEW t \in Task, Sound(t)
  PROVE  Sound(t)'
<1> USE DEF world, budget, loop
<1>1. task \in TaskTable /\ ctr \in Seq(Container) /\ UNCHANGED <<ctr, crashes, loop>> /\ LoopOK
  BY IInvParts DEF RestOK, Create
<1>2. ContainersKept /\ Launches(t)' = Launches(t)
  BY <1>1, SameContainersKept, KeptLaunches
<1>3. CASE t # u
  <2>1. task'[t] = task[t]
    BY <1>1, <1>3 DEF Create, CreateTask, TaskTable
  <2> QED
    BY <1>1, <1>2, <2>1, AlongsideSound DEF RowKept
<1>4. CASE t = u
  <2>1. task'[t] = [EmptyRow EXCEPT !.status = "pending"]
    BY <1>1, <1>4 DEF Create, CreateTask, TaskTable
  <2>2. task'[t].status = "pending" /\ task'[t].cont = NoContainer /\ task'[t].uretry = 0
    BY <2>1 DEF EmptyRow
  <2>3. Launches(t) = {} /\ t \notin todo
    BY <1>4 DEF Create, Sound
  <2>4. ~ Launching(t)'
    <3>1. Current' = Current
      BY <1>1 DEF Current
    <3> QED
      BY <1>1, <2>3, <3>1, InHand DEF Launching
  <2>5. Cardinality(Launches(t)') = 0
    BY <1>2, <2>3, FS_EmptySet
  <2>6. Cardinality(Spent(t)') \in Nat /\ crashes' \in Nat
    BY SpentTypeNext DEF IInv, TypeOK
  <2>7. Credit(t)' \in 0..1
    BY <2>4 DEF Credit
  <2>8. Paid(t)'
    <3> HIDE DEF Launches, Spent, Credit
    <3> QED
      BY <2>2, <2>5, <2>6, <2>7 DEF Paid
  <2> QED
    BY <2>2, <2>8 DEF Sound
<1> QED
  BY <1>3, <1>4

LEMMA FinishSound ==
  ASSUME IInv, IInv', NEW r \in Requests, FinishCancel(r) \/ FinishDelete(r) \/ FinishRetry(r),
         NEW t \in Task, Sound(t)
  PROVE  Sound(t)'
<1> USE DEF world, budget, loop
<1> DEFINE u == req[r].task
<1>1. /\ task \in TaskTable /\ ctr \in Seq(Container)
      /\ UNCHANGED <<ctr, crashes, loop>> /\ u \in Task
  BY IInvParts DEF RestOK, FinishCancel, FinishDelete, FinishRetry, Finish, RequestShape, NoRequest
<1>2. ContainersKept /\ Launches(t)' = Launches(t) /\ Newest(t)' = Newest(t) /\ Current' = Current
  BY <1>1, SameContainersKept, KeptLaunches DEF Current
<1> HIDE DEF u
<1>3. CASE task' = UpdateTaskStatus(task, u, "cancelled")
  <2>1. Write(UpdateTaskStatus(task, u, "cancelled")) \/ storeFaults' # storeFaults
    BY <1>3 DEF Write
  <2>2. UNCHANGED storeFaults
    BY DEF FinishCancel, FinishDelete, FinishRetry, Finish
  <2>3. /\ RowKept(t) /\ task'[t].cont = task[t].cont
        /\ task'[t].status \in {task[t].status, "cancelled"}
    BY <1>1, <2>1, <2>2, StatementRows DEF TaskStatus
  <2> QED
    BY <1>1, <1>2, <2>3, AlongsideSound
<1>4. CASE task'[t] = task[t]
  BY <1>1, <1>2, <1>4, AlongsideSound DEF RowKept
<1>5. CASE task'[t].status = "deleted" /\ task'[t].cont = NoContainer
  BY <1>5 DEF Sound, Paid, Absent
<1>6. CASE /\ task[t].status \notin Absent /\ task'[t].status = "pending"
           /\ task'[t].cont = NoContainer /\ task'[t].uretry = task[t].uretry + 1
  <2>1. \A c : AboutToRecord(t, c)' => AboutToRecord(t, c)
    BY <1>1, <1>2 DEF AboutToRecord
  <2>2. Spent(t) \subseteq Spent(t)'
    BY <1>1, <1>2, <1>6, <2>1, SpentKept
  <2>3. Launching(t)' = Launching(t)
    BY <1>1, <1>2 DEF Launching
  <2>4. Credit(t)' <= Credit(t) + 1 /\ Credit(t) \in 0..2 /\ Credit(t)' \in 0..2
    BY <2>3 DEF Credit
  <2>5. /\ Cardinality(Launches(t)) \in Nat /\ Cardinality(Spent(t)) \in Nat
        /\ Cardinality(Spent(t)') \in Nat /\ IsFiniteSet(Spent(t)) /\ IsFiniteSet(Spent(t)')
        /\ task[t].uretry \in Nat /\ crashes \in Nat
    BY SpentType, SpentTypeNext DEF IInv, TypeOK, TaskTable, Row
  <2>6. Cardinality(Spent(t)) <= Cardinality(Spent(t)')
    BY <2>2, <2>5, FS_Subset
  <2>7. Paid(t)'
    <3> HIDE DEF Launches, Spent, Credit
    <3>1. Cardinality(Launches(t)) + Credit(t) <= 1 + task[t].uretry + crashes + Cardinality(Spent(t))
      BY <1>6 DEF Sound, Paid
    <3>2. crashes' = crashes
      BY <1>1
    <3>3. Cardinality(Launches(t)') + Credit(t)'
            <= 1 + task'[t].uretry + crashes' + Cardinality(Spent(t)')
      BY <1>2, <1>6, <2>4, <2>5, <2>6, <3>1, <3>2
    <3> QED
      BY <3>3 DEF Paid
  <2> QED
    BY <1>6, <2>7 DEF Sound
<1>7. CASE FinishDelete(r)
  <2> DEFINE row == [EmptyRow EXCEPT !.status = "deleted"]
  <2>1. row.status = "deleted" /\ row.cont = NoContainer
    BY DEF EmptyRow
  <2>2. task' = UpdateRow(task, u, row)
    BY <1>7 DEF FinishDelete, Finish, DeleteTask, u
  <2> HIDE DEF row
  <2>3. task'[t] = task[t] \/ task'[t] = row
    BY <1>1, <2>2 DEF UpdateRow, TaskTable
  <2> QED
    BY <1>4, <1>5, <2>1, <2>3
<1>8. CASE FinishRetry(r)
  <2> DEFINE row == [task[u] EXCEPT !.status = "pending", !.inst = NoInstance,
                                    !.cont = NoContainer, !.started = FALSE,
                                    !.ready = FALSE, !.uretry = @ + 1]
  <2>1. /\ row.status = "pending" /\ row.cont = NoContainer
        /\ row.uretry = task[u].uretry + 1
    BY <1>1 DEF TaskTable, Row
  <2>2. task' = UpdateRow(task, u, row) \/ task' = task
    BY <1>8, Zenon DEF FinishRetry, Finish, RetryTask, u
  <2> HIDE DEF row
  <2>3. task'[t] = task[t] \/ (t = u /\ InTable(task, t) /\ task'[t] = row)
    BY <1>1, <2>2 DEF UpdateRow, TaskTable
  <2> QED
    BY <1>4, <1>6, <2>1, <2>3 DEF InTable
<1> QED
  BY <1>3, <1>7, <1>8 DEF FinishCancel, Finish, CancelTask, u

LEMMA ApiSound ==
  ASSUME IInv, IInv', ApiStep, NEW t \in Task, Sound(t)
  PROVE  Sound(t)'
<1>1. ASSUME NEW u \in Task, Create(u)
      PROVE  Sound(t)'
  BY <1>1, CreateSound
<1>2. ASSUME NEW r \in Requests, FinishCancel(r) \/ FinishDelete(r) \/ FinishRetry(r)
      PROVE  Sound(t)'
  BY <1>2, FinishSound
<1>3. ASSUME UNCHANGED <<tables, world, loop, budget>>
      PROVE  Sound(t)'
  BY <1>3, SameContainersKept, AlongsideSound DEF tables, world, budget, RowKept
<1>4. ASSUME NEW r \in Requests, NEW u \in Task,
             BeginCancel(r, u) \/ BeginDelete(r, u) \/ BeginRetry(r, u)
      PROVE  Sound(t)'
  BY <1>3, <1>4 DEF BeginCancel, BeginDelete, BeginRetry, Admit
<1> QED
  BY <1>1, <1>2, <1>4 DEF ApiStep

\* A crash may cost a task its launch, recorded or not; recovery then launches it
\* once more.
LEMMA WorldSound ==
  ASSUME Mode # "ec2", IInv, IInv', WorldStep, NEW t \in Task, Sound(t)
  PROVE  Sound(t)'
<1> USE DEF tables, world, budget, loop
<1>1. ctr \in Seq(Container)
  BY DEF IInv, TypeOK
<1>2. ASSUME NEW c, Exit(c) \/ Reclaim(c)
      PROVE  Sound(t)'
  <2>1. ContainersKept
    BY <1>1, <1>2, StateKeepsContainers DEF Exit, Reclaim, ContainerState
  <2> QED
    BY <1>2, <2>1, AlongsideSound DEF Exit, Reclaim, RowKept
<1>3. ASSUME NEW u, Expire(u)
      PROVE  Sound(t)'
  BY <1>3, SameContainersKept, AlongsideSound DEF Expire, RowKept
<1>4. CASE Crash
  <2>1. /\ UNCHANGED <<task, ctr>> /\ crashes' = crashes + 1
        /\ pc' = "list" /\ todo' = {}
    BY <1>4 DEF Crash, EnterPhase
  <2>2. ContainersKept /\ Launches(t)' = Launches(t)
    BY <2>1, SameContainersKept, KeptLaunches
  <2>3. Credit(t)' \in 0..1 /\ Credit(t) \in 0..2
    BY <2>1 DEF Credit, Launching
  <2>4. Spent(t) \subseteq Spent(t)'
    BY <1>1, <2>1, <2>2, SpentKept DEF AboutToRecord
  <2>5. /\ Cardinality(Launches(t)) \in Nat /\ Cardinality(Spent(t)) \in Nat
        /\ Cardinality(Spent(t)') \in Nat /\ IsFiniteSet(Spent(t)) /\ IsFiniteSet(Spent(t)')
        /\ task[t].uretry \in Nat /\ crashes \in Nat
    BY SpentType, SpentTypeNext DEF IInv, TypeOK, TaskTable, Row
  <2>6. Cardinality(Spent(t)) <= Cardinality(Spent(t)')
    BY <2>4, <2>5, FS_Subset
  <2>7. Paid(t)'
    <3> HIDE DEF Launches, Spent, Credit
    <3> QED
      BY <2>1, <2>2, <2>3, <2>5, <2>6 DEF Sound, Paid
  <2> QED
    BY <2>1, <2>2, <2>7 DEF Sound
<1>5. CASE Restart
  <2>1. UNCHANGED <<task, ctr, crashes>> /\ phase = "down" /\ pc' = "list" /\ todo' = {}
    BY <1>5 DEF Restart, EnterPhase
  <2> QED
    BY <2>1, SameContainersKept, LoopStepSound DEF RowKept, Owed, Listed
<1> QED
  BY <1>2, <1>3, <1>4, <1>5 DEF WorldStep, HostDies

-----------------------------------------------------------------------------
(* The rest of the invariant.                                               *)

\* Outside EC2 mode no step enters a loop of EC2 mode, only a loop that finds a
\* container gone is about to requeue its task, and only Reclaim loses one.
LEMMA PhasesWithoutHosts ==
  ASSUME Mode # "ec2"
  PROVE  /\ FirstPhase = "cancelled"
         /\ \A p \in Phases : NextPhase[p] \notin {"spot", "evaluate"}
BY DEF FirstPhase, NextPhase

\* What a step of the orchestrator does to the loop, as far as NoHosts and
\* RequeuedIsLost can tell.
GoesOn ==
  \/ pc' # "requeue" /\ phase' \notin {"spot", "evaluate"}
  \/ phase' = "recovering"
  \/ phase' = "running" /\ Current' = Current /\ snap' = snap /\ snap[Current].cont \in Lost

LEMMA ContinueGoesOn ==
  ASSUME Mode # "ec2", NoHosts, LoopOK, Continue
  PROVE  GoesOn
BY PhasesWithoutHosts DEF Continue, NoHosts, LoopOK, EnterPhase, GoesOn

LEMMA ListIntoGoesOn ==
  ASSUME Mode # "ec2", NoHosts, LoopOK, NEW S, ListInto(S)
  PROVE  GoesOn
BY PhasesWithoutHosts DEF ListInto, NoHosts, LoopOK, EnterPhase, GoesOn

LEMMA GotoGoesOn ==
  ASSUME NoHosts, NEW label, Goto(label), label # "requeue"
  PROVE  GoesOn
BY DEF Goto, NoHosts, GoesOn

LEMMA OrchestratorGoesOn ==
  ASSUME Mode # "ec2", NoHosts, LoopOK, OrchestratorStep
  PROVE  GoesOn
<1> USE DEF At
<1>1. CASE Recover
  BY <1>1, PhasesWithoutHosts, GotoGoesOn
     DEF Recover, ListOrphansRunning, ListOrphansProvisioning, Collect, ListOrphansRecovering,
         MarkRecovering, ClearProvisioned, RebuildCounters, EnterPhase, NextOrphan, GoesOn
<1>2. CASE CheckInterruptions \/ Evaluate
  BY <1>2 DEF CheckInterruptions, DrainInstance, ListInterrupted, RequeueInterrupted,
              NoMoreInterruptions, Evaluate, NoHosts
<1>3. CASE MonitorCancelled
  BY <1>3, ListIntoGoesOn, ContinueGoesOn, GotoGoesOn
     DEF MonitorCancelled, ListCancelled, CancelledWithoutContainer, StopCancelled, ClearCancelled
<1>4. CASE MonitorRecovering
  <2>1. CASE RequeueProvisioned
    BY <2>1 DEF RequeueProvisioned, Goto, GoesOn
  <2> QED
    BY <1>4, <2>1, ListIntoGoesOn, ContinueGoesOn DEF MonitorRecovering, ListRecovering, PromoteRecovered
<1>5. CASE MonitorRunning
  BY <1>5, ListIntoGoesOn, ContinueGoesOn, GotoGoesOn
     DEF MonitorRunning, ListRunning, StillRunning, StopToKill, KillTask
<1>6. CASE DispatchPending
  <2>1. CASE Assign
    BY <2>1, GotoGoesOn DEF Assign, GoesOn
  <2>2. CASE ListPending
    BY <2>2, ListIntoGoesOn, PhasesWithoutHosts DEF ListPending, EnterPhase, GoesOn, Phases
  <2> QED
    BY <1>6, <2>1, <2>2, ContinueGoesOn, GotoGoesOn
       DEF DispatchPending, RejectRead, NoCapacity, RunAgent, Start, FailDispatch
<1>7. CASE GiveUpInstance
  <2>1. pc' = "requeue" /\ phase' = phase /\ todo' = todo /\ snap' = snap
    BY <1>7 DEF GiveUpInstance, Goto
  <2>2. Current' = Current
    BY <2>1 DEF Current
  <2>3. phase = "recovering" \/ (phase = "running" /\ "gone" \in Inspected(snap[Current].cont))
    BY <1>7 DEF GiveUpInstance, Inspecting
  <2>4. ASSUME NEW c, "gone" \in Inspected(c) PROVE c \in Lost
    <3>1. c \in DOMAIN ctr
      BY <2>4 DEF Inspected
    <3>2. ctr[c].st = "lost"
      BY <2>4, <3>1 DEF Inspected
    <3> QED
      BY <3>1, <3>2 DEF Lost
  <2> QED
    BY <2>1, <2>2, <2>3, <2>4 DEF GoesOn
<1>8. CASE Shared /\ ~ GiveUpInstance
  <2>1. CASE ListFails
    BY <2>1, PhasesWithoutHosts DEF ListFails, EnterPhase, GoesOn, LoopOK
  <2>2. CASE CompleteExited
    BY <2>2, GotoGoesOn DEF CompleteExited
  <2>3. CASE ReleaseSlot
    <3>1. Continue \/ Goto("clear") \/ Goto("ready")
      BY <2>3 DEF ReleaseSlot
    <3> QED
      BY <3>1, ContinueGoesOn, GotoGoesOn
  <2> QED
    BY <1>8, <2>1, <2>2, <2>3, ContinueGoesOn DEF Shared, MarkRetryReady, CountInspectFailure, Requeue
<1> QED
  BY <1>1, <1>2, <1>3, <1>4, <1>5, <1>6, <1>7, <1>8 DEF OrchestratorStep

\* A container is lost by a fault.
LEMMA OnlyFaultsLose ==
  ASSUME Mode # "ec2", NoHosts, IInv, Next
  PROVE  \/ Lost' = Lost /\ faults' = faults
         \/ faults' = faults + 1 /\ \E c : Lost' = Lost \cup {c}
<1> USE DEF tables, world, budget, loop, At
<1>1. ctr \in Seq(Container)
  BY DEF IInv, TypeOK
<1>2. ASSUME ctr' = ctr PROVE Lost' = Lost
  BY <1>2 DEF Lost
<1>3. CASE StopCancelled \/ StopToKill
  BY <1>1, <1>3, StopKeepsContainers DEF StopCancelled, StopToKill
<1>4. CASE RunAgent
  <2>1. ctr' = ctr \/ ctr' = Append(ctr, [task |-> Current, inst |-> chosen, st |-> "live"])
    BY <1>4 DEF RunAgent, Launched, Relaunched
  <2>2. ctr' \in Seq(Container)
    BY <1>4, NextIInv DEF Next, OrchestratorStep, DispatchPending, IInv, TypeOK
  <2>3. faults' = faults
    BY <1>4 DEF RunAgent
  <2> QED
    BY <1>1, <1>2, <2>1, <2>2, <2>3, LaunchAdds
<1>5. CASE \E c \in DOMAIN ctr : Exit(c) \/ Reclaim(c)
  BY <1>1, <1>5, StateKeepsContainers DEF Exit, Reclaim, ContainerState
<1>6. ASSUME OrchestratorStep, ~ (StopCancelled \/ StopToKill \/ RunAgent)
      PROVE  ctr' = ctr /\ faults' = faults
  <2>1. CASE Recover
    BY <2>1 DEF Recover, ListOrphansRunning, ListOrphansProvisioning, Collect, ListOrphansRecovering,
         MarkRecovering, ClearProvisioned, RebuildCounters
  <2>2. CASE CheckInterruptions \/ Evaluate
    BY <2>2 DEF CheckInterruptions, DrainInstance, ListInterrupted, RequeueInterrupted,
              NoMoreInterruptions, Evaluate, NoHosts
  <2>3. CASE MonitorCancelled \/ MonitorRecovering \/ MonitorRunning
    BY <1>6, <2>3 DEF MonitorCancelled, ListCancelled, CancelledWithoutContainer, ClearCancelled,
         MonitorRecovering, ListRecovering, RequeueProvisioned, PromoteRecovered,
         MonitorRunning, ListRunning, StillRunning, KillTask
  <2>4. CASE DispatchPending
    BY <1>6, <2>4 DEF DispatchPending, ListPending, RejectRead, NoCapacity, Assign, Start, FailDispatch
  <2>5. CASE Shared
    BY <2>5 DEF Shared, ListFails, CompleteExited, ReleaseSlot, MarkRetryReady,
                GiveUpInstance, CountInspectFailure, Requeue
  <2> QED
    BY <1>6, <2>1, <2>2, <2>3, <2>4, <2>5 DEF OrchestratorStep
<1>7. CASE ApiStep
  <2>1. ctr' = ctr /\ faults' = faults
    BY <1>7 DEF ApiStep, Create, BeginCancel, BeginDelete, BeginRetry, Admit,
                FinishCancel, FinishDelete, FinishRetry, Finish
  <2> QED
    BY <1>2, <2>1
<1>8. CASE WorldStep /\ ~ (\E c \in DOMAIN ctr : Exit(c) \/ Reclaim(c))
  <2>1. ctr' = ctr /\ faults' = faults
    BY <1>8 DEF WorldStep, HostDies, Expire, Crash, Restart
  <2> QED
    BY <1>2, <2>1
<1> QED
  BY <1>2, <1>3, <1>4, <1>5, <1>6, <1>7, <1>8 DEF Next

-----------------------------------------------------------------------------
(* Theorems.                                                                *)

LEMMA LaunchInvInit == ASSUME Init PROVE LaunchInv
<1>1. \A t \in Task : task[t] = EmptyRow
  BY DEF Init
<1>2. Lost = {} /\ \A t \in Task : Launches(t) = {}
  BY DEF Init, Lost, Launches
<1>3. \A t \in Task : Sound(t)
  BY <1>1, <1>2 DEF Sound, Paid, Init, EmptyRow, Absent, NoContainer
<1>4. Cardinality(Lost) = 0
  BY <1>2, FS_EmptySet
<1> QED
  BY <1>3, <1>4 DEF Init, LaunchInv, NoHosts, RequeuedIsLost

LEMMA LaunchInvNext ==
  ASSUME Mode # "ec2", IInv, LaunchInv, [Next]_vars
  PROVE  LaunchInv'
<1>1. IInv'
  BY NextIInv
<1>2. CASE UNCHANGED vars
  <2>1. Lost' = Lost /\ \A t \in Task : Launches(t)' = Launches(t) /\ Newest(t)' = Newest(t)
    BY <1>2, SameContainersKept, KeptLaunches DEF vars
  <2>2. Current' = Current
    BY <1>2 DEF vars, Current
  <2>3. ASSUME NEW t \in Task PROVE Sound(t)'
    BY <1>1, <1>2, <2>1, SameContainersKept, AlongsideSound DEF vars, loop, LaunchInv, RowKept
  <2> QED
    BY <1>2, <2>1, <2>2, <2>3 DEF LaunchInv, NoHosts, RequeuedIsLost, vars
<1>3. CASE Next
  <2>1. LoopOK /\ NoHosts /\ RequeuedIsLost
    BY IInvParts DEF LaunchInv
  <2>2. ASSUME NEW t \in Task PROVE Sound(t)'
    <3>1. Sound(t)
      BY DEF LaunchInv
    <3>2. CASE OrchestratorStep
      <4>1. ~ CheckInterruptions /\ ~ Evaluate
        BY <2>1 DEF CheckInterruptions, DrainInstance, ListInterrupted, RequeueInterrupted,
                    NoMoreInterruptions, Evaluate, NoHosts, At
      <4> QED
        BY <1>1, <2>1, <3>1, <3>2, <4>1, RecoverSound, MonitorCancelledSound, MonitorRecoveringSound,
           MonitorRunningSound, DispatchPendingSound, SharedSound DEF OrchestratorStep
    <3> QED
      BY <1>1, <1>3, <3>1, <3>2, ApiSound, WorldSound DEF Next
  <2>3. Cardinality(Lost') <= faults'
    <3>1. /\ IsFiniteSet(Lost) /\ Cardinality(Lost) \in Nat /\ faults \in Nat
          /\ Cardinality(Lost) <= faults
      BY ContainersFinite DEF Lost, LaunchInv, IInv, TypeOK
    <3> HIDE DEF Lost
    <3>2. CASE Lost' = Lost /\ faults' = faults
      BY <3>1, <3>2
    <3>3. ASSUME NEW c, Lost' = Lost \cup {c}, faults' = faults + 1
          PROVE  Cardinality(Lost') <= faults'
      <4>1. Cardinality(Lost') \in {Cardinality(Lost), Cardinality(Lost) + 1}
        BY <3>1, <3>3, FS_AddElement
      <4> QED
        BY <3>1, <3>3, <4>1
    <3> QED
      BY <1>3, <2>1, <3>2, <3>3, OnlyFaultsLose
  <2>4. NoHosts' /\ RequeuedIsLost'
    <3>1. Lost \subseteq Lost'
      BY <1>3, <2>1, OnlyFaultsLose
    <3>2. CASE OrchestratorStep
      BY <2>1, <3>1, <3>2, OrchestratorGoesOn DEF GoesOn, NoHosts, RequeuedIsLost
    <3>3. CASE UNCHANGED loop
      <4>1. Current' = Current
        BY <3>3 DEF loop, Current
      <4> QED
        BY <2>1, <3>1, <3>3, <4>1 DEF loop, NoHosts, RequeuedIsLost
    <3>4. CASE ApiStep
      BY <3>3, <3>4 DEF ApiStep, Create, BeginCancel, BeginDelete, BeginRetry, Admit,
                FinishCancel, FinishDelete, FinishRetry, Finish
    <3>5. CASE Crash \/ Restart
      BY <3>5 DEF Crash, Restart, EnterPhase, NoHosts, RequeuedIsLost
    <3>6. CASE WorldStep /\ ~ (Crash \/ Restart)
      BY <3>3, <3>6 DEF WorldStep, Exit, Reclaim, HostDies, Expire
    <3> QED
      BY <1>3, <3>2, <3>4, <3>5, <3>6 DEF Next
  <2> QED
    BY <2>2, <2>3, <2>4 DEF LaunchInv
<1> QED
  BY <1>2, <1>3

LEMMA LaunchInvImplies ==
  ASSUME IInv, LaunchInv PROVE RelaunchesHaveACause
<1> SUFFICES ASSUME NEW t \in Task, task[t].status \notin Absent
             PROVE  Cardinality(Launches(t)) <= 1 + task[t].uretry + crashes + faults
  BY DEF RelaunchesHaveACause
<1>1. /\ Cardinality(Launches(t)) \in Nat /\ Cardinality(Spent(t)) \in Nat
      /\ task[t].uretry \in Nat /\ crashes \in Nat /\ faults \in Nat
  BY SpentType DEF IInv, TypeOK, TaskTable, Row
<1>2. Cardinality(Launches(t)) + Credit(t) <= 1 + task[t].uretry + crashes + Cardinality(Spent(t))
  BY DEF LaunchInv, Sound, Paid
<1>3. Credit(t) \in 0..2
  BY DEF Credit
<1>4. /\ Cardinality(Spent(t)) <= Cardinality(Lost) /\ Cardinality(Lost) \in Nat
      /\ Cardinality(Lost) <= faults
  <2>1. Lost \in SUBSET DOMAIN ctr
    BY DEF Lost
  <2>2. IsFiniteSet(Lost) /\ Cardinality(Lost) \in Nat
    BY <2>1, ContainersFinite DEF IInv, TypeOK
  <2>3. Spent(t) \subseteq Lost
    BY DEF Spent
  <2> QED
    BY <2>2, <2>3, FS_Subset DEF LaunchInv
<1> HIDE DEF Launches, Spent, Credit, Lost
<1> QED
  BY <1>1, <1>2, <1>3, <1>4

\* Under local and Fargate mode no task is launched without a cause: after its
\* first launch each one is paid for by a retry of a user, by a crash of the
\* server, or by a container of its own that was lost, whatever fails, is
\* cancelled, retried or deleted in between.
THEOREM LaunchesPaidFor ==
  ASSUME Mode # "ec2"
  PROVE  Spec => []RelaunchesHaveACause
<1>1. Init => LaunchInv
  BY LaunchInvInit
<1>2. IInv /\ LaunchInv /\ [Next]_vars => LaunchInv'
  BY LaunchInvNext
<1>3. IInv /\ LaunchInv => RelaunchesHaveACause
  BY LaunchInvImplies
<1> QED
  BY <1>1, <1>2, <1>3, Invariance, PTL DEF Spec

-----------------------------------------------------------------------------
(* Rows and lists, when nobody cancels or deletes and no statement fails.    *)

\* The labels at which the row of the task in hand has changed since it was
\* listed, and what its status has become.
HandledPCs == {"run", "start", "fail", "clear", "release", "ready", "releaseCompleted"}

HandledAs ==
  [label \in HandledPCs |->
     CASE label \in {"run", "start", "fail"} -> "provisioning"
       [] label = "clear"                    -> "recovering"
       [] label = "releaseCompleted"         -> "completed"
       [] OTHER                              -> "failed"]

\* What the loops list.
ListedAs ==
  [p \in Phases |->
     CASE p = "recover"             -> {"running", "provisioning"}
       [] p \in {"spot", "running"} -> {"running"}
       [] p = "recovering"          -> {"recovering"}
       [] p = "dispatch"            -> {"pending"}
       [] OTHER                     -> {}]

Untouched(t) == t # Current \/ pc \notin HandledPCs

\* A listed row is still what it was, unless the loop has changed it itself.
\* The flag that lets a retry change a row is only set where no list holds it.
FreshRow(t) ==
  /\ task[t].status \notin {"deleted", "cancelled", "interrupted"}
  /\ task[t].ready => task[t].status = "failed" /\ t \notin todo
  /\ task[t].status \in {"new", "pending", "provisioning"} => task[t].cont = NoContainer
  /\ t \in todo /\ Untouched(t) =>
       task[t] = snap[t] /\ task[t].status \in ListedAs[phase]
  /\ t \in todo /\ ~ Untouched(t) =>
       task[t].status = HandledAs[pc] /\ snap[t].status \in ListedAs[phase]
  /\ t \in todo /\ t = Current /\ pc \in {"run", "start", "fail"} => task[t].inst = chosen
  /\ t \in todo /\ t = Current /\ pc = "clear" => task[t].cont = NoContainer

FreshInv == \A t \in Task : FreshRow(t)

\* How TaskLifecycle lets a status change.
MayMove(a, b) ==
  \/ a = b
  \/ a = "new" /\ b = "pending"
  \/ a = "pending" /\ b \in {"provisioning", "failed"}
  \/ a = "provisioning" /\ b \in {"running", "failed", "recovering"}
  \/ a \in {"running", "recovering"} /\ b \in {"completed", "failed", "pending"}
  \/ a = "running" /\ b = "recovering"
  \/ a = "recovering" /\ b = "running"
  \/ a = "failed" /\ b = "pending"

Alone(u) == \A t \in Task \ {u} : task'[t] = task[t]

OneMoves ==
  UNCHANGED task \/ \E u \in Task : Alone(u) /\ MayMove(task[u].status, task'[u].status)

\* What every row satisfies, listed or not.
RowOK(row) ==
  /\ row.status \notin {"deleted", "cancelled", "interrupted"}
  /\ row.ready => row.status = "failed"
  /\ row.status \in {"new", "pending", "provisioning"} => row.cont = NoContainer

\* Every statement on the row of u changes that row alone, to this.
RowIs(row, s, i, c, flag) ==
  row.status = s /\ row.inst = i /\ row.cont = c /\ row.ready = flag

LEMMA Effects ==
  ASSUME task \in TaskTable, NEW u \in Task, InTable(task, u)
  PROVE  /\ \A s \in TaskStatus :
              task' = UpdateTaskStatus(task, u, s) =>
                Alone(u) /\ RowIs(task'[u], s, task[u].inst, task[u].cont, task[u].ready)
         /\ \A i : task' = AssignTask(task, u, i) =>
                Alone(u) /\ RowIs(task'[u], "provisioning", i, task[u].cont, task[u].ready)
         /\ \A c : task' = StartTask(task, u, c) =>
                Alone(u) /\ RowIs(task'[u], "running", task[u].inst, c, task[u].ready)
         /\ task' = RequeueTask(task, u) =>
                Alone(u) /\ RowIs(task'[u], "pending", NoInstance, NoContainer, FALSE)
         /\ task' = ClearTaskAssignment(task, u) =>
                Alone(u) /\ RowIs(task'[u], task[u].status, NoInstance, NoContainer, task[u].ready)
         /\ task' = MarkReadyForRetry(task, u) =>
                Alone(u) /\ RowIs(task'[u], task[u].status, task[u].inst, task[u].cont, TRUE)
<1>1. task[u] \in Row /\ task \in [Task -> Row]
  BY DEF TaskTable
<1>2. ASSUME NEW row, task' = UpdateRow(task, u, row)
      PROVE  Alone(u) /\ task'[u] = row
  BY <1>1, <1>2 DEF UpdateRow, Alone
<1> USE DEF RowIs, Row
<1>3. ASSUME NEW s \in TaskStatus, task' = UpdateTaskStatus(task, u, s)
      PROVE  Alone(u) /\ RowIs(task'[u], s, task[u].inst, task[u].cont, task[u].ready)
  BY <1>1, <1>2, <1>3 DEF UpdateTaskStatus
<1>4. ASSUME NEW i, task' = AssignTask(task, u, i)
      PROVE  Alone(u) /\ RowIs(task'[u], "provisioning", i, task[u].cont, task[u].ready)
  <2> DEFINE row == [task[u] EXCEPT !.status = "provisioning", !.inst = i]
  <2>1. RowIs(row, "provisioning", i, task[u].cont, task[u].ready)
    BY <1>1
  <2>2. task' = UpdateRow(task, u, row)
    BY <1>4 DEF AssignTask
  <2> HIDE DEF row
  <2> QED
    BY <1>2, <2>1, <2>2
<1>5. ASSUME NEW c, task' = StartTask(task, u, c)
      PROVE  Alone(u) /\ RowIs(task'[u], "running", task[u].inst, c, task[u].ready)
  <2> DEFINE row == [task[u] EXCEPT !.status = "running", !.cont = c, !.started = TRUE]
  <2>1. RowIs(row, "running", task[u].inst, c, task[u].ready)
    BY <1>1
  <2>2. task' = UpdateRow(task, u, row)
    BY <1>5 DEF StartTask
  <2> HIDE DEF row
  <2> QED
    BY <1>2, <2>1, <2>2
<1>6. ASSUME task' = RequeueTask(task, u)
      PROVE  Alone(u) /\ RowIs(task'[u], "pending", NoInstance, NoContainer, FALSE)
  <2> DEFINE row == [task[u] EXCEPT !.status = "pending", !.inst = NoInstance,
                                  !.cont = NoContainer, !.started = FALSE,
                                  !.ready = FALSE]
  <2>1. RowIs(row, "pending", NoInstance, NoContainer, FALSE)
    BY <1>1
  <2>2. task' = UpdateRow(task, u, row)
    BY <1>6 DEF RequeueTask
  <2> HIDE DEF row
  <2> QED
    BY <1>2, <2>1, <2>2
<1>7. ASSUME task' = ClearTaskAssignment(task, u)
      PROVE  Alone(u) /\ RowIs(task'[u], task[u].status, NoInstance, NoContainer, task[u].ready)
  <2> DEFINE row == [task[u] EXCEPT !.inst = NoInstance, !.cont = NoContainer]
  <2>1. RowIs(row, task[u].status, NoInstance, NoContainer, task[u].ready)
    BY <1>1
  <2>2. task' = UpdateRow(task, u, row)
    BY <1>7 DEF ClearTaskAssignment
  <2> HIDE DEF row
  <2> QED
    BY <1>2, <2>1, <2>2
<1>8. ASSUME task' = MarkReadyForRetry(task, u)
      PROVE  Alone(u) /\ RowIs(task'[u], task[u].status, task[u].inst, task[u].cont, TRUE)
  <2> DEFINE row == [task[u] EXCEPT !.ready = TRUE]
  <2>1. RowIs(row, task[u].status, task[u].inst, task[u].cont, TRUE)
    BY <1>1
  <2>2. task' = UpdateRow(task, u, row)
    BY <1>8 DEF MarkReadyForRetry
  <2> HIDE DEF row
  <2> QED
    BY <1>2, <2>1, <2>2
<1> QED
  BY <1>3, <1>4, <1>5, <1>6, <1>7, <1>8

\* The task in hand.
LEMMA HandFresh ==
  ASSUME IInv, FreshInv, pc \notin ListPCs
  PROVE  /\ Current \in todo /\ Current \in Task /\ todo # {}
         /\ InTable(task, Current) /\ ~ task[Current].ready
         /\ RowOK(task[Current])
         /\ pc \notin HandledPCs =>
              task[Current] = snap[Current] /\ task[Current].status \in ListedAs[phase]
         /\ pc \in HandledPCs =>
              task[Current].status = HandledAs[pc] /\ snap[Current].status \in ListedAs[phase]
         /\ pc \in {"run", "start", "fail"} => task[Current].inst = chosen
         /\ pc = "clear" => task[Current].cont = NoContainer
         /\ phase \in Phases \ {"down", "cancelled", "evaluate"}
<1>1. LoopOK /\ task \in TaskTable
  BY IInvParts DEF RestOK
<1>2. Current \in todo /\ Current \in Task /\ todo # {} /\ phase \in Phases
  BY <1>1, InHand DEF LoopOK
<1>3. FreshRow(Current)
  BY <1>2 DEF FreshInv
<1>4. /\ pc \notin HandledPCs =>
           task[Current] = snap[Current] /\ task[Current].status \in ListedAs[phase]
      /\ pc \in HandledPCs =>
           task[Current].status = HandledAs[pc] /\ snap[Current].status \in ListedAs[phase]
  BY <1>2, <1>3 DEF FreshRow, Untouched
<1>5. phase \in Phases \ {"down", "cancelled", "evaluate"}
  BY <1>2, <1>4 DEF ListedAs
<1>6. task[Current].status \notin Absent
  BY <1>2, <1>4 DEF ListedAs, HandledAs, HandledPCs, Absent
<1> QED
  BY <1>2, <1>3, <1>4, <1>5, <1>6 DEF FreshRow, RowOK, InTable

\* A step that goes on to the next task has left the row in hand well formed, or
\* has left that task alone; a step within the handling has made its row what the
\* next label says.
LEMMA ContinueFresh ==
  ASSUME IInv, FreshInv, pc \notin ListPCs, phase \in TaskPhases, Continue,
         Alone(Current), RowOK(task'[Current])
  PROVE  FreshInv'
<1>1. LoopOK /\ todo # {} /\ phase \in Phases
  BY InHand, IInvParts DEF LoopOK
<1> SUFFICES ASSUME NEW t \in Task PROVE FreshRow(t)'
  BY DEF FreshInv
<1>2. FreshRow(t) /\ RowOK(task'[t])
  BY DEF FreshInv, FreshRow, RowOK, Alone
<1>3. CASE todo = {Current}
  <2>1. PICK p \in Phases : EnterPhase(p)
    BY <1>1, <1>3, NextPhaseType DEF Continue, TaskPhases, Phases
  <2>2. todo' = {}
    BY <2>1 DEF EnterPhase
  <2> QED
    BY <1>2, <2>2 DEF FreshRow, RowOK
<1>4. CASE todo # {Current}
  <2>1. /\ phase' = phase /\ pc' = "next" /\ todo' = todo \ {Current}
        /\ snap' = [snap EXCEPT ![Current] = EmptyRow]
    BY <1>4 DEF Continue
  <2>2. ASSUME t \in todo'
        PROVE  t \in todo /\ t # Current /\ snap'[t] = snap[t] /\ task'[t] = task[t]
    BY <1>1, <2>1, <2>2 DEF LoopOK, Alone
  <2>3. t # Current => task'[t] = task[t]
    BY DEF Alone
  <2>4. task'[t].ready => task'[t].status = "failed" /\ t \notin todo'
    BY <1>2, <2>1, <2>3 DEF FreshRow, RowOK
  <2>5. t \in todo' => task'[t] = snap'[t] /\ task'[t].status \in ListedAs[phase']
    BY <1>2, <2>1, <2>2 DEF FreshRow, Untouched
  <2> QED
    BY <1>2, <2>1, <2>4, <2>5 DEF FreshRow, RowOK, Untouched, HandledPCs
<1> QED
  BY <1>3, <1>4

LEMMA WithinFresh ==
  ASSUME IInv, FreshInv, pc \notin ListPCs, UNCHANGED <<phase, todo, snap>>,
         Alone(Current), RowOK(task'[Current]), ~ task'[Current].ready,
         \/ /\ pc' \in HandledPCs /\ task'[Current].status = HandledAs[pc']
            /\ pc' \in {"run", "start", "fail"} => task'[Current].inst = chosen'
            /\ pc' = "clear" => task'[Current].cont = NoContainer
         \/ pc' \notin HandledPCs /\ pc \notin HandledPCs /\ UNCHANGED task
  PROVE  FreshInv'
<1>1. Current' = Current
  BY DEF Current
<1>2. snap[Current].status \in ListedAs[phase] /\ Current \in todo
  BY HandFresh
<1> SUFFICES ASSUME NEW t \in Task PROVE FreshRow(t)'
  BY DEF FreshInv
<1>3. FreshRow(t)
  BY DEF FreshInv
<1>4. CASE t # Current
  BY <1>1, <1>3, <1>4 DEF FreshRow, Untouched, Alone
<1>5. CASE t = Current
  BY <1>1, <1>2, <1>3, <1>5 DEF FreshRow, Untouched, RowOK, HandledPCs
<1> QED
  BY <1>4, <1>5

LEMMA EnterFresh ==
  ASSUME FreshInv, UNCHANGED task, NEW p, EnterPhase(p)
  PROVE  FreshInv'
BY DEF FreshInv, FreshRow, EnterPhase

LEMMA ListIntoFresh ==
  ASSUME IInv, FreshInv, phase \in TaskPhases, UNCHANGED task, NEW S \in SUBSET Task, ListInto(S),
         \A t \in S : task[t].status \in ListedAs[phase]
  PROVE  FreshInv'
<1>1. CASE S = {}
  BY <1>1, EnterFresh DEF ListInto
<1>2. CASE S # {}
  <2>1. /\ phase' = phase /\ pc' = "next" /\ todo' = S
        /\ snap' = [t \in Task |-> IF t \in S THEN task[t] ELSE EmptyRow]
    BY <1>2 DEF ListInto
  <2>2. "failed" \notin ListedAs[phase]
    BY DEF ListedAs, TaskPhases, Phases
  <2> QED
    BY <2>1, <2>2 DEF FreshInv, FreshRow, Untouched, HandledPCs
<1> QED
  BY <1>1, <1>2

\* Recovery lists twice before it handles anything, and keeps what it listed.
LEMMA OrphanFresh ==
  ASSUME IInv, FreshInv, phase = "recover", pc \notin ListPCs, NextOrphan,
         Alone(Current), RowOK(task'[Current])
  PROVE  FreshInv'
<1>1. /\ todo' = todo \ {Current} /\ pc' \in {"finish", "next"}
      /\ UNCHANGED <<phase, snap>>
  BY DEF NextOrphan
<1> SUFFICES ASSUME NEW t \in Task PROVE FreshRow(t)'
  BY DEF FreshInv
<1>2. FreshRow(t) /\ (t # Current => task'[t] = task[t])
  BY DEF FreshInv, Alone
<1> QED
  BY <1>1, <1>2 DEF FreshRow, RowOK, Untouched, HandledPCs

LEMMA Stays == ASSUME UNCHANGED task PROVE OneMoves /\ Alone(Current)
BY DEF OneMoves, Alone

LEMMA RecoverFresh ==
  ASSUME IInv, FreshInv, UNCHANGED storeFaults, Recover
  PROVE  FreshInv' /\ OneMoves
<1> USE DEF At
<1>1. LoopOK /\ task \in TaskTable /\ storeFaults \in Nat
  BY IInvParts DEF RestOK
<1>2. ~ StoreFails
  BY <1>1
<1>3. ASSUME NEW s \in {"running", "provisioning"}, NEW label, NEW rest, Collect(s, label, rest),
             rest \notin HandledPCs, label \in ListPCs
      PROVE  FreshInv' /\ OneMoves
  <2>1. /\ phase = "recover" /\ pc \notin HandledPCs /\ pc' \notin HandledPCs
        /\ UNCHANGED <<phase, task>>
        /\ snap' = [t \in Task |-> IF task[t].status = s THEN task[t] ELSE snap[t]]
        /\ todo' = todo \cup WithStatus(task, s)
    BY <1>2, <1>3 DEF Collect, tables, HandledPCs
  <2> SUFFICES ASSUME NEW t \in Task PROVE FreshRow(t)'
    BY <2>1, Stays DEF FreshInv
  <2>2. FreshRow(t)
    BY DEF FreshInv
  <2>3. t \in todo' => IF task[t].status = s THEN task[t] = snap'[t]
                       ELSE t \in todo /\ snap'[t] = snap[t]
    BY <2>1 DEF WithStatus
  <2>4. s \in ListedAs["recover"]
    BY DEF ListedAs, Phases
  <2> QED
    BY <2>1, <2>2, <2>3, <2>4 DEF FreshRow, Untouched, HandledPCs
<1>4. CASE ListOrphansRunning \/ ListOrphansProvisioning
  BY <1>3, <1>4 DEF ListOrphansRunning, ListOrphansProvisioning, HandledPCs
<1>5. CASE ListOrphansRecovering
  <2>1. UNCHANGED task
    BY <1>5 DEF ListOrphansRecovering, tables
  <2>2. CASE EnterPhase(FirstPhase)
    BY <2>1, <2>2, EnterFresh, Stays
  <2>3. CASE \E found \in {RecoveringContainers, {}} :
               /\ snap' = [t \in Task |-> IF t \in found THEN task[t] ELSE snap[t]]
               /\ pc' \in {"finish", "next"}
               /\ UNCHANGED <<phase, todo, chosen>>
    <3> SUFFICES ASSUME NEW t \in Task PROVE FreshRow(t)'
      BY <2>1, Stays DEF FreshInv
    <3>1. FreshRow(t)
      BY DEF FreshInv
    <3>2. phase = "recover" /\ pc = "listRecovering"
      BY <1>5 DEF ListOrphansRecovering
    <3>3. t \in todo => task[t].status \in {"running", "provisioning"} /\ task[t] = snap[t]
      BY <3>1, <3>2 DEF FreshRow, Untouched, HandledPCs, ListedAs, Phases
    <3>4. t \in todo => snap'[t] = snap[t]
      BY <2>3, <3>3 DEF RecoveringContainers, WithStatus
    <3> QED
      BY <2>1, <2>3, <3>1, <3>2, <3>3, <3>4 DEF FreshRow, Untouched, HandledPCs
  <2> QED
    BY <1>5, <2>2, <2>3 DEF ListOrphansRecovering
<1>6. CASE MarkRecovering
  <2>1. /\ Current \in Task /\ Current \in todo /\ InTable(task, Current) /\ ~ task[Current].ready
        /\ task[Current] = snap[Current] /\ task[Current].status \in {"running", "provisioning"}
        /\ phase = "recover" /\ pc \notin ListPCs /\ pc \notin HandledPCs
        /\ RowOK(task[Current])
    BY <1>6, HandFresh DEF MarkRecovering, HandledPCs, ListedAs, Phases
  <2>2. /\ Alone(Current)
        /\ RowIs(task'[Current], "recovering", task[Current].inst, task[Current].cont, FALSE)
    BY <1>1, <1>2, <1>6, <2>1, Effects DEF MarkRecovering, Write, TaskStatus, TaskTable, Row
  <2>3. RowOK(task'[Current]) /\ OneMoves /\ ~ task'[Current].ready
    BY <2>1, <2>2 DEF RowOK, RowIs, OneMoves, MayMove
  <2>4. CASE Goto("clear") /\ snap[Current].status = "provisioning"
    BY <2>1, <2>2, <2>3, <2>4, WithinFresh DEF Goto, RowIs, RowOK, HandledAs, HandledPCs
  <2>5. CASE NextOrphan
    BY <2>1, <2>2, <2>3, <2>5, OrphanFresh
  <2> QED
    BY <1>6, <2>3, <2>4, <2>5 DEF MarkRecovering
<1>7. CASE ClearProvisioned
  <2>1. /\ Current \in Task /\ Current \in todo /\ InTable(task, Current) /\ ~ task[Current].ready
        /\ task[Current].status = "recovering"
        /\ phase = "recover" /\ pc \notin ListPCs
    BY <1>7, HandFresh DEF ClearProvisioned, HandledPCs, HandledAs
  <2>2. /\ Alone(Current)
        /\ RowIs(task'[Current], "recovering", NoInstance, NoContainer, task[Current].ready)
    BY <1>1, <1>2, <1>7, <2>1, Effects DEF ClearProvisioned, Write
  <2>3. RowOK(task'[Current]) /\ OneMoves
    BY <2>1, <2>2 DEF RowOK, RowIs, OneMoves, MayMove
  <2> QED
    BY <1>7, <2>1, <2>2, <2>3, OrphanFresh DEF ClearProvisioned
<1>8. CASE RebuildCounters
  BY <1>8, EnterFresh, Stays DEF RebuildCounters
<1> QED
  BY <1>4, <1>5, <1>6, <1>7, <1>8 DEF Recover

LEMMA SpotFresh ==
  ASSUME IInv, FreshInv, UNCHANGED storeFaults, CheckInterruptions
  PROVE  FreshInv' /\ OneMoves
<1> USE DEF At
<1>1. LoopOK /\ task \in TaskTable /\ storeFaults \in Nat
  BY IInvParts DEF RestOK
<1>2. ~ StoreFails
  BY <1>1
<1>3. CASE DrainInstance
  <2>1. /\ UNCHANGED <<task, phase, todo, snap>> /\ pc = "list" /\ pc' = "listInterrupted"
    BY <1>3 DEF DrainInstance
  <2>2. Current' = Current
    BY <2>1 DEF Current
  <2> QED
    BY <2>1, <2>2, Stays DEF FreshInv, FreshRow, Untouched, HandledPCs
<1>4. CASE ListInterrupted
  <2>1. UNCHANGED task /\ phase = "spot"
    BY <1>4 DEF ListInterrupted, tables
  <2>2. CASE ListInto(Interrupted)
    <3>1. Interrupted \in SUBSET Task /\ \A t \in Interrupted : task[t].status \in ListedAs[phase]
      BY <2>1 DEF Interrupted, WithStatus, ListedAs, Phases
    <3> QED
      BY <2>1, <2>2, <3>1, ListIntoFresh, Stays DEF TaskPhases
  <2>3. CASE EnterPhase("spot")
    BY <2>1, <2>3, EnterFresh, Stays
  <2> QED
    BY <1>4, <2>2, <2>3 DEF ListInterrupted
<1>5. CASE RequeueInterrupted
  <2>1. /\ Current \in Task /\ InTable(task, Current) /\ task[Current].status = "running"
        /\ pc \notin ListPCs /\ phase \in TaskPhases
    BY <1>5, HandFresh DEF RequeueInterrupted, HandledPCs, ListedAs, TaskPhases, Phases
  <2>2. Alone(Current) /\ RowIs(task'[Current], "pending", NoInstance, NoContainer, FALSE)
    BY <1>1, <1>2, <1>5, <2>1, Effects DEF RequeueInterrupted, Write
  <2>3. RowOK(task'[Current]) /\ OneMoves
    BY <2>1, <2>2 DEF RowOK, RowIs, OneMoves, MayMove
  <2> QED
    BY <1>5, <2>1, <2>2, <2>3, ContinueFresh DEF RequeueInterrupted
<1>6. CASE NoMoreInterruptions
  BY <1>6, EnterFresh, Stays DEF NoMoreInterruptions, tables
<1> QED
  BY <1>3, <1>4, <1>5, <1>6 DEF CheckInterruptions

LEMMA CancelledFresh ==
  ASSUME IInv, FreshInv, MonitorCancelled
  PROVE  FreshInv' /\ OneMoves
<1> USE DEF At
<1>1. CASE ListCancelled
  <2>1. WithStatus(task, "cancelled") \in SUBSET Task
        /\ \A t \in WithStatus(task, "cancelled") : task[t].status \in ListedAs[phase]
    BY DEF WithStatus, FreshInv, FreshRow
  <2> QED
    BY <1>1, <2>1, ListIntoFresh, Stays DEF ListCancelled, TaskPhases, tables
<1>2. CASE CancelledWithoutContainer \/ StopCancelled \/ ClearCancelled
  BY <1>2, HandFresh DEF CancelledWithoutContainer, StopCancelled, ClearCancelled
<1> QED
  BY <1>1, <1>2 DEF MonitorCancelled

\* The rows of a monitor's list.
LEMMA MonitorHand ==
  ASSUME IInv, FreshInv, pc \notin ListPCs, phase \in {"recovering", "running"}
  PROVE  /\ Current \in Task /\ InTable(task, Current) /\ ~ task[Current].ready
         /\ phase \in TaskPhases
         /\ RowOK(task[Current])
         /\ pc \notin HandledPCs => task[Current] = snap[Current]
         /\ pc \notin HandledPCs => task[Current].status = phase
<1>1. ListedAs[phase] = {phase}
  BY DEF ListedAs, Phases
<1> QED
  BY <1>1, HandFresh DEF TaskPhases

LEMMA RecoveringFresh ==
  ASSUME IInv, FreshInv, UNCHANGED storeFaults, MonitorRecovering
  PROVE  FreshInv' /\ OneMoves
<1> USE DEF At
<1>1. LoopOK /\ task \in TaskTable /\ storeFaults \in Nat
  BY IInvParts DEF RestOK
<1>2. ~ StoreFails
  BY <1>1
<1>3. CASE ListRecovering
  <2>1. WithStatus(task, "recovering") \in SUBSET Task
        /\ \A t \in WithStatus(task, "recovering") : task[t].status \in ListedAs[phase]
    BY <1>3 DEF ListRecovering, WithStatus, ListedAs, Phases
  <2> QED
    BY <1>3, <2>1, ListIntoFresh, Stays DEF ListRecovering, TaskPhases, tables
<1>4. CASE RequeueProvisioned
  BY <1>4, MonitorHand, WithinFresh, Stays DEF RequeueProvisioned, Goto, HandledPCs, tables
<1>5. CASE PromoteRecovered
  <2>1. /\ Current \in Task /\ InTable(task, Current) /\ task[Current].status = "recovering"
        /\ ~ task[Current].ready
        /\ pc \notin ListPCs /\ phase \in TaskPhases
    BY <1>5, MonitorHand DEF PromoteRecovered, Inspecting, HandledPCs
  <2>2. /\ Alone(Current)
        /\ RowIs(task'[Current], "running", task[Current].inst, task[Current].cont, FALSE)
    BY <1>1, <1>2, <1>5, <2>1, Effects DEF PromoteRecovered, Write, TaskStatus, TaskTable, Row
  <2>3. RowOK(task'[Current]) /\ OneMoves
    BY <2>1, <2>2 DEF RowOK, RowIs, OneMoves, MayMove
  <2> QED
    BY <1>5, <2>1, <2>2, <2>3, ContinueFresh DEF PromoteRecovered
<1> QED
  BY <1>3, <1>4, <1>5 DEF MonitorRecovering

LEMMA RunningFresh ==
  ASSUME IInv, FreshInv, UNCHANGED storeFaults, MonitorRunning
  PROVE  FreshInv' /\ OneMoves
<1> USE DEF At
<1>1. LoopOK /\ task \in TaskTable /\ storeFaults \in Nat
  BY IInvParts DEF RestOK
<1>2. ~ StoreFails
  BY <1>1
<1>3. CASE ListRunning
  <2>1. WithStatus(task, "running") \in SUBSET Task
        /\ \A t \in WithStatus(task, "running") : task[t].status \in ListedAs[phase]
    BY <1>3 DEF ListRunning, WithStatus, ListedAs, Phases
  <2> QED
    BY <1>3, <2>1, ListIntoFresh, Stays DEF ListRunning, TaskPhases, tables
<1>4. CASE StillRunning
  BY <1>4, MonitorHand, ContinueFresh, Stays DEF StillRunning, Inspecting, tables
<1>5. CASE StopToKill
  BY <1>5, MonitorHand, WithinFresh, Stays DEF StopToKill, Goto, HandledPCs, tables
<1>6. CASE KillTask
  <2>1. /\ Current \in Task /\ InTable(task, Current) /\ task[Current].status = "running"
        /\ ~ task[Current].ready
        /\ pc \notin ListPCs
    BY <1>6, MonitorHand DEF KillTask, HandledPCs
  <2>2. /\ Alone(Current)
        /\ RowIs(task'[Current], "failed", task[Current].inst, task[Current].cont, FALSE)
    BY <1>1, <1>2, <1>6, <2>1, Effects DEF KillTask, Write, CompleteTask, TaskStatus, TaskTable, Row
  <2>3. RowOK(task'[Current]) /\ OneMoves
    BY <2>1, <2>2 DEF RowOK, RowIs, OneMoves, MayMove
  <2> QED
    BY <1>6, <2>1, <2>2, <2>3, WithinFresh DEF KillTask, Goto, RowIs, HandledAs, HandledPCs
<1> QED
  BY <1>3, <1>4, <1>5, <1>6 DEF MonitorRunning

LEMMA DispatchFresh ==
  ASSUME IInv, FreshInv, UNCHANGED storeFaults, DispatchPending
  PROVE  FreshInv' /\ OneMoves
<1> USE DEF At
<1>1. LoopOK /\ task \in TaskTable /\ storeFaults \in Nat /\ ctr \in Seq(Container)
  BY IInvParts DEF RestOK
<1>2. ~ StoreFails
  BY <1>1
<1>3. CASE ListPending
  <2>1. CASE EnterPhase(NextPhase["dispatch"])
    BY <1>3, <2>1, EnterFresh, Stays DEF ListPending, tables
  <2>2. CASE ListInto(OldestFirst(WithStatus(task, "pending"), MaxConcurrent - running))
    <3>1. OldestFirst(WithStatus(task, "pending"), MaxConcurrent - running) \in SUBSET Task
          /\ \A t \in OldestFirst(WithStatus(task, "pending"), MaxConcurrent - running) :
               task[t].status \in ListedAs[phase]
      BY <1>3 DEF ListPending, OldestFirst, WithStatus, ListedAs, Phases
    <3> QED
      BY <1>3, <2>2, <3>1, ListIntoFresh, Stays DEF ListPending, TaskPhases, tables
  <2> QED
    BY <1>3, <2>1, <2>2 DEF ListPending
<1>4. ASSUME phase = "dispatch", pc \notin ListPCs
      PROVE  /\ Current \in Task /\ InTable(task, Current) /\ ~ task[Current].ready
             /\ phase \in TaskPhases /\ RowOK(task[Current])
             /\ task[Current].cont = NoContainer
             /\ task[Current].status \in {"pending", "provisioning"}
             /\ pc = "next" => task[Current].status = "pending"
             /\ pc \in {"run", "start", "fail"} =>
                  task[Current].status = "provisioning" /\ task[Current].inst = chosen
  <2>1. pc \in {"next", "run", "start", "fail"}
    BY <1>1, <1>4 DEF LoopOK, LoopShape, Labels, Phases
  <2> QED
    BY <1>4, <2>1, HandFresh DEF HandledPCs, HandledAs, ListedAs, Phases, TaskPhases, RowOK
<1>5. ASSUME phase = "dispatch", pc \notin ListPCs, Continue,
             task' = UpdateTaskStatus(task, Current, "failed")
      PROVE  FreshInv' /\ OneMoves
  <2>1. /\ Alone(Current)
        /\ RowIs(task'[Current], "failed", task[Current].inst, task[Current].cont,
                 task[Current].ready)
    BY <1>1, <1>4, <1>5, Effects DEF TaskStatus
  <2>2. RowOK(task'[Current]) /\ OneMoves
    BY <1>4, <1>5, <2>1 DEF RowOK, RowIs, OneMoves, MayMove
  <2> QED
    BY <1>4, <1>5, <2>1, <2>2, ContinueFresh
<1>6. CASE RejectRead \/ FailDispatch
  BY <1>2, <1>5, <1>6 DEF RejectRead, FailDispatch, Write
<1>7. CASE NoCapacity
  BY <1>4, <1>7, ContinueFresh, Stays DEF NoCapacity
<1>8. CASE Assign
  <2> DEFINE i == Min(AvailableInstances)
  <2>1. /\ task' = AssignTask(task, Current, i) /\ chosen' = i /\ pc' = "run"
        /\ UNCHANGED <<phase, todo, snap>>
        /\ phase = "dispatch" /\ pc = "next"
    BY <1>2, <1>8 DEF Assign
  <2> HIDE DEF i
  <2>2. /\ Alone(Current)
        /\ RowIs(task'[Current], "provisioning", i, task[Current].cont, task[Current].ready)
    BY <1>1, <1>4, <2>1, Effects
  <2>3. /\ RowOK(task'[Current]) /\ OneMoves /\ ~ task'[Current].ready
        /\ task'[Current].status = "provisioning" /\ task'[Current].inst = chosen'
    BY <1>4, <2>1, <2>2 DEF RowOK, RowIs, OneMoves, MayMove
  <2> QED
    BY <2>1, <2>2, <2>3, WithinFresh DEF HandledAs, HandledPCs
<1>9. CASE RunAgent
  <2>1. /\ phase = "dispatch" /\ pc = "run" /\ UNCHANGED <<task, phase, todo, snap, chosen>>
        /\ pc' \in {"start", "fail"}
    BY <1>9 DEF RunAgent, Goto, tables
  <2>2. HandledAs["start"] = "provisioning" /\ HandledAs["fail"] = "provisioning"
    BY DEF HandledAs, HandledPCs
  <2> QED
    BY <1>4, <2>1, <2>2, WithinFresh, Stays DEF HandledPCs
<1>10. CASE Start
  <2>1. /\ task' = StartTask(task, Current, Newest(Current)) /\ Continue
        /\ phase = "dispatch" /\ pc = "start"
    BY <1>2, <1>10 DEF Start
  <2>2. /\ Alone(Current)
        /\ RowIs(task'[Current], "running", task[Current].inst, Newest(Current),
                 task[Current].ready)
    BY <1>1, <1>4, <2>1, Effects
  <2>3. RowOK(task'[Current]) /\ OneMoves
    BY <1>4, <2>1, <2>2 DEF RowOK, RowIs, OneMoves, MayMove
  <2> QED
    BY <1>4, <2>1, <2>2, <2>3, ContinueFresh
<1> QED
  BY <1>3, <1>6, <1>7, <1>8, <1>9, <1>10 DEF DispatchPending

LEMMA SharedFresh ==
  ASSUME IInv, FreshInv, UNCHANGED storeFaults, Shared
  PROVE  FreshInv' /\ OneMoves
<1>1. LoopOK /\ task \in TaskTable /\ storeFaults \in Nat
  BY IInvParts DEF RestOK
<1>2. ~ StoreFails
  BY <1>1
<1>3. CASE ListFails
  BY <1>2, <1>3 DEF ListFails
<1>4. CASE CompleteExited
  <2>1. /\ Current \in Task /\ InTable(task, Current) /\ ~ task[Current].ready
        /\ task[Current].status \in {"running", "recovering"} /\ pc \notin ListPCs
    BY <1>4, MonitorHand DEF CompleteExited, Inspecting, HandledPCs
  <2>2. PICK result \in {"completed", "failed"} :
          /\ task' = UpdateTaskStatus(task, Current, result)
          /\ Goto(IF result = "completed" THEN "releaseCompleted" ELSE "release")
    BY <1>2, <1>4 DEF CompleteExited, CompleteTask, Write
  <2>3. /\ Alone(Current)
        /\ RowIs(task'[Current], result, task[Current].inst, task[Current].cont,
                 task[Current].ready)
    BY <1>1, <2>1, <2>2, Effects DEF TaskStatus
  <2>4. RowOK(task'[Current]) /\ OneMoves /\ ~ task'[Current].ready /\ task'[Current].status = result
    BY <2>1, <2>2, <2>3 DEF RowOK, RowIs, OneMoves, MayMove
  <2> QED
    BY <2>1, <2>2, <2>3, <2>4, WithinFresh DEF Goto, HandledAs, HandledPCs
<1>5. CASE ReleaseSlot
  <2>1. pc \notin ListPCs /\ UNCHANGED task
    BY <1>5 DEF ReleaseSlot
  <2>2. phase \in {"recovering", "running"}
    BY <1>1, <1>5, <2>1, HandFresh, LabelPhase DEF ReleaseSlot
  <2>3. CASE Continue
    BY <2>1, <2>2, <2>3, MonitorHand, ContinueFresh, Stays
  <2>4. CASE Goto("ready") /\ pc = "release"
    <3>1. task[Current].status = "failed" /\ HandledAs["ready"] = "failed"
      BY <2>4, HandFresh DEF HandledAs, HandledPCs
    <3> QED
      BY <2>1, <2>2, <2>4, <3>1, MonitorHand, WithinFresh, Stays DEF Goto, HandledPCs
  <2> QED
    BY <1>5, <2>2, <2>3, <2>4 DEF ReleaseSlot
<1>6. CASE MarkRetryReady
  <2>1. pc = "ready" /\ task' = MarkReadyForRetry(task, Current) /\ Continue
    BY <1>2, <1>6 DEF MarkRetryReady, Write
  <2>2. /\ Current \in Task /\ InTable(task, Current) /\ task[Current].status = "failed"
        /\ phase \in {"recovering", "running"} /\ phase \in TaskPhases
    BY <1>1, <2>1, HandFresh, LabelPhase DEF HandledAs, HandledPCs, TaskPhases
  <2>3. /\ Alone(Current)
        /\ RowIs(task'[Current], "failed", task[Current].inst, task[Current].cont, TRUE)
    BY <1>1, <2>1, <2>2, Effects
  <2>4. RowOK(task'[Current]) /\ OneMoves
    BY <2>2, <2>3 DEF RowOK, RowIs, OneMoves, MayMove
  <2> QED
    BY <2>1, <2>2, <2>3, <2>4, ContinueFresh
<1>7. CASE GiveUpInstance
  BY <1>7, MonitorHand, WithinFresh, Stays DEF GiveUpInstance, Inspecting, Goto, HandledPCs
<1>8. CASE CountInspectFailure
  BY <1>8, MonitorHand, ContinueFresh, Stays DEF CountInspectFailure, Inspecting, tables
<1>9. CASE Requeue
  <2>1. pc = "requeue" /\ task' = RequeueTask(task, Current) /\ Continue
    BY <1>2, <1>9 DEF Requeue, Write
  <2>2. /\ Current \in Task /\ InTable(task, Current) /\ task[Current].status \in {"running", "recovering"}
        /\ phase \in TaskPhases
    BY <1>1, <2>1, MonitorHand, LabelPhase DEF HandledPCs
  <2>3. Alone(Current) /\ RowIs(task'[Current], "pending", NoInstance, NoContainer, FALSE)
    BY <1>1, <2>1, <2>2, Effects
  <2>4. RowOK(task'[Current]) /\ OneMoves
    BY <2>2, <2>3 DEF RowOK, RowIs, OneMoves, MayMove
  <2> QED
    BY <2>1, <2>2, <2>3, <2>4, ContinueFresh
<1> QED
  BY <1>3, <1>4, <1>5, <1>6, <1>7, <1>8, <1>9 DEF Shared

\* A retry waits for the flag, which no task of a list has.
LEMMA ApiFresh ==
  ASSUME Ops \subseteq {"retry"}, IInv, FreshInv, ApiStep
  PROVE  FreshInv' /\ OneMoves
<1> USE DEF loop
<1>1. LoopOK /\ RestOK
  BY IInvParts
<1>2. ASSUME UNCHANGED loop, NEW u \in Task, Alone(u), RowOK(task'[u]), ~ task'[u].ready, u \notin todo
      PROVE  FreshInv'
  <2>1. Current' = Current
    BY <1>2 DEF Current
  <2> QED
    BY <1>2, <2>1 DEF FreshInv, FreshRow, Alone, RowOK, Untouched
<1>3. ASSUME UNCHANGED <<task, loop>>
      PROVE  FreshInv' /\ OneMoves
  <2>1. Current' = Current
    BY <1>3 DEF Current
  <2> QED
    BY <1>3, <2>1, Stays DEF FreshInv, FreshRow, Untouched
<1>4. ASSUME NEW u \in Task, Create(u)
      PROVE  FreshInv' /\ OneMoves
  <2>1. /\ UNCHANGED loop /\ task[u].status = "new" /\ Alone(u)
        /\ task'[u] = [EmptyRow EXCEPT !.status = "pending"]
    BY <1>1, <1>4 DEF Create, CreateTask, RestOK, TaskTable, Alone
  <2>2. RowIs(task'[u], "pending", NoInstance, NoContainer, FALSE)
    BY <2>1 DEF RowIs, EmptyRow
  <2>3. u \notin todo
    <3>1. FreshRow(u)
      BY DEF FreshInv
    <3> QED
      BY <1>1, <2>1, <3>1 DEF FreshRow, Untouched, ListedAs, HandledAs, HandledPCs, LoopOK
  <2> QED
    BY <1>2, <2>1, <2>2, <2>3 DEF RowOK, RowIs, OneMoves, MayMove
<1>5. ASSUME NEW r \in Requests, FinishCancel(r) \/ FinishDelete(r)
      PROVE  FALSE
  <2>1. req[r].op \in {"none", "retry"}
    BY <1>1 DEF RestOK
  <2> QED
    BY <1>5, <2>1 DEF FinishCancel, FinishDelete, Finish
<1>6. ASSUME NEW r \in Requests, FinishRetry(r)
      PROVE  FreshInv' /\ OneMoves
  <2> DEFINE u == req[r].task
             row == [task[u] EXCEPT !.status = "pending", !.inst = NoInstance,
                                    !.cont = NoContainer, !.started = FALSE,
                                    !.ready = FALSE, !.uretry = @ + 1]
  <2>1. u \in Task /\ UNCHANGED loop
    BY <1>1, <1>6 DEF FinishRetry, Finish, RestOK, RequestShape, NoRequest
  <2>2. RowIs(row, "pending", NoInstance, NoContainer, FALSE)
    BY <1>1, <2>1 DEF RowIs, RestOK, TaskTable, Row
  <2>3. task' = task \/ (RetryAllowed(task[u]) /\ task' = UpdateRow(task, u, row))
    BY <1>6, Zenon DEF FinishRetry, Finish, RetryTask
  <2> HIDE DEF row, u
  <2>4. CASE task' # task
    <3>1. Alone(u) /\ task'[u] = row
      BY <1>1, <2>1, <2>3, <2>4 DEF UpdateRow, Alone, RestOK, TaskTable
    <3>2. FreshRow(u) /\ task[u].ready
      BY <2>1, <2>3, <2>4 DEF FreshInv, RetryAllowed
    <3>3. task[u].status = "failed" /\ u \notin todo
      BY <3>2 DEF FreshRow
    <3> QED
      BY <1>2, <2>1, <2>2, <3>1, <3>3 DEF RowOK, RowIs, OneMoves, MayMove
  <2> QED
    BY <1>3, <2>1, <2>4
<1>7. ASSUME NEW r \in Requests, NEW u \in Task,
             BeginCancel(r, u) \/ BeginDelete(r, u) \/ BeginRetry(r, u)
      PROVE  FreshInv' /\ OneMoves
  BY <1>3, <1>7 DEF BeginCancel, BeginDelete, BeginRetry, Admit, tables
<1> QED
  BY <1>4, <1>5, <1>6, <1>7 DEF ApiStep

LEMMA WorldFresh ==
  ASSUME FreshInv, WorldStep
  PROVE  FreshInv' /\ OneMoves
<1> USE DEF loop, tables
<1>1. CASE Crash \/ Restart
  BY <1>1, EnterFresh, Stays DEF Crash, Restart
<1>2. CASE ~ (Crash \/ Restart)
  <2>1. UNCHANGED <<task, loop>>
    BY <1>2 DEF WorldStep, Exit, Reclaim, HostDies, Expire
  <2>2. Current' = Current
    BY <2>1 DEF Current
  <2> QED
    BY <2>1, <2>2, Stays DEF FreshInv, FreshRow, Untouched
<1> QED
  BY <1>1, <1>2

\* A statement fails, or it does not.
LEMMA StoreFaultsStep ==
  ASSUME Next
  PROVE  \/ UNCHANGED storeFaults
         \/ storeFaults < MaxStoreFaults /\ storeFaults' = storeFaults + 1
<1>1. CASE OrchestratorStep
  <2>1. CASE Recover
    BY <2>1 DEF Recover, ListOrphansRunning, ListOrphansProvisioning, Collect, ListOrphansRecovering,
         MarkRecovering, ClearProvisioned, RebuildCounters, Write
  <2>2. CASE CheckInterruptions
    BY <2>2 DEF CheckInterruptions, DrainInstance, ListInterrupted, RequeueInterrupted,
              NoMoreInterruptions, Write, WriteInstance
  <2>3. CASE MonitorCancelled \/ MonitorRecovering \/ MonitorRunning
    BY <2>3 DEF MonitorCancelled, ListCancelled, CancelledWithoutContainer, StopCancelled,
         ClearCancelled, MonitorRecovering, ListRecovering, RequeueProvisioned, PromoteRecovered,
         MonitorRunning, ListRunning, StillRunning, StopToKill, KillTask, Write
  <2>4. CASE DispatchPending
    BY <2>4 DEF DispatchPending, ListPending, RejectRead, NoCapacity, Assign, RunAgent, Start,
         FailDispatch, Write
  <2>5. CASE Shared
    BY <2>5 DEF Shared, ListFails, CompleteExited, ReleaseSlot, MarkRetryReady,
                GiveUpInstance, CountInspectFailure, Requeue, Write, WriteInstance
  <2>6. CASE Evaluate
    BY <2>6 DEF Evaluate
  <2> QED
    BY <1>1, <2>1, <2>2, <2>3, <2>4, <2>5, <2>6 DEF OrchestratorStep
<1>2. CASE ApiStep
  BY <1>2 DEF ApiStep, Create, BeginCancel, BeginDelete, BeginRetry, Admit,
              FinishCancel, FinishDelete, FinishRetry, Finish
<1>3. CASE WorldStep
  BY <1>3 DEF WorldStep, Exit, Reclaim, HostDies, Expire, Crash, Restart
<1> QED
  BY <1>1, <1>2, <1>3 DEF Next

LEMMA FreshNext ==
  ASSUME Ops \subseteq {"retry"}, IInv, FreshInv, UNCHANGED storeFaults, Next
  PROVE  FreshInv' /\ OneMoves
<1>1. CASE Evaluate
  BY <1>1, EnterFresh, Stays DEF Evaluate
<1> QED
  BY <1>1, RecoverFresh, SpotFresh, CancelledFresh, RecoveringFresh, RunningFresh, DispatchFresh,
     SharedFresh, ApiFresh, WorldFresh DEF Next, OrchestratorStep

FreshOK == storeFaults = 0 => FreshInv

LEMMA FreshInit == ASSUME Init PROVE FreshOK
BY DEF Init, FreshOK, FreshInv, FreshRow, EmptyRow

LEMMA FreshOKNext ==
  ASSUME Ops \subseteq {"retry"}, IInv, FreshOK, [Next]_vars
  PROVE  FreshOK'
<1>1. storeFaults \in Nat
  BY DEF IInv, TypeOK
<1>2. CASE Next
  <2> SUFFICES ASSUME storeFaults' = 0 PROVE FreshInv'
    BY DEF FreshOK
  <2>1. UNCHANGED storeFaults
    BY <1>1, <1>2, StoreFaultsStep
  <2> QED
    BY <1>2, <2>1, FreshNext DEF FreshOK
<1>3. CASE UNCHANGED vars
  <2>1. Current' = Current
    BY <1>3 DEF vars, Current
  <2> QED
    BY <1>3, <2>1 DEF vars, FreshOK, FreshInv, FreshRow, Untouched
<1> QED
  BY <1>2, <1>3

-----------------------------------------------------------------------------
(* The life of a task.                                                      *)

Statuses == [t \in Task |-> task[t].status]

LEMMA MoveRefines ==
  ASSUME OneMoves PROVE [Lifecycle!Next]_Statuses
<1>1. CASE UNCHANGED task
  BY <1>1 DEF Statuses
<1>2. ASSUME NEW u \in Task, Alone(u), MayMove(task[u].status, task'[u].status)
      PROVE  [Lifecycle!Next]_Statuses
  <2> DEFINE a == task[u].status
             b == task'[u].status
  <2>1. Statuses' = [Statuses EXCEPT ![u] = b] /\ Statuses[u] = a
    BY <1>2 DEF Statuses, Alone
  <2>2. MayMove(a, b)
    BY <1>2
  <2>3. \A from, to : Lifecycle!Move(u, from, to) <=>
          Statuses[u] \in from /\ \E s \in to : Statuses' = [Statuses EXCEPT ![u] = s]
    BY DEF Lifecycle!Move, Statuses
  <2> HIDE DEF a, b
  <2>4. \A from, to : a \in from /\ b \in to => Lifecycle!Move(u, from, to)
    BY <2>1, <2>3
  <2>5. CASE a = b
    <3>1. Statuses' = Statuses
      BY <2>1, <2>5 DEF Statuses
    <3> QED
      BY <3>1
  <2>6. CASE a = "new" /\ b = "pending"
    BY <2>4, <2>6 DEF Lifecycle!Create, Lifecycle!Next
  <2>7. CASE \/ a = "pending" /\ b \in {"provisioning", "failed"}
             \/ a = "provisioning" /\ b \in {"running", "failed"}
    BY <2>4, <2>7 DEF Lifecycle!Dispatch, Lifecycle!Next
  <2>8. CASE a \in {"provisioning", "running"} /\ b = "recovering"
    BY <2>4, <2>8 DEF Lifecycle!Orphan, Lifecycle!Next
  <2>9. CASE a \in {"running", "recovering"} /\ b \in {"completed", "failed"}
    BY <2>4, <2>9 DEF Lifecycle!End, Lifecycle!Next
  <2>10. CASE a \in {"running", "recovering"} /\ b = "pending"
    BY <2>4, <2>10 DEF Lifecycle!Requeue, Lifecycle!Next
  <2>11. CASE a = "recovering" /\ b = "running"
    BY <2>4, <2>11 DEF Lifecycle!Promote, Lifecycle!Next
  <2>12. CASE a = "failed" /\ b = "pending"
    BY <2>4, <2>12 DEF Lifecycle!Retry, Lifecycle!Next
  <2> QED
    BY <2>2, <2>5, <2>6, <2>7, <2>8, <2>9, <2>10, <2>11, <2>12 DEF MayMove
<1> QED
  BY <1>1, <1>2 DEF OneMoves

\* While nobody cancels or deletes, and no statement fails, a task moves along
\* TaskLifecycle, one statement at a time, whichever calls to its container
\* fail, however often the server crashes, and whatever is lost: a task that
\* has completed stays completed, and only a failed one is started over.
THEOREM LifecycleFollowed ==
  ASSUME Ops \subseteq {"retry"}, MaxStoreFaults = 0
  PROVE  Spec => FollowsLifecycle
<1> DEFINE NoFault == storeFaults = 0
<1>1. Init => NoFault /\ FreshOK /\ Lifecycle!Init
  <2>1. Init => Lifecycle!Init
    BY DEF Init, Lifecycle!Init, EmptyRow
  <2> QED
    BY <2>1, FreshInit DEF Init
<1>2. IInv /\ FreshOK /\ [Next]_vars => FreshOK'
  BY FreshOKNext
<1>3. IInv /\ NoFault /\ [Next]_vars => NoFault'
  <2> SUFFICES ASSUME IInv, NoFault, [Next]_vars PROVE NoFault'
    OBVIOUS
  <2>1. CASE Next
    BY <2>1, StoreFaultsStep
  <2> QED
    BY <2>1 DEF vars
<1>4. IInv /\ NoFault /\ NoFault' /\ FreshOK /\ [Next]_vars
        => [Lifecycle!Next]_[t \in Task |-> task[t].status]
  <2> SUFFICES ASSUME IInv, NoFault, NoFault', FreshOK, [Next]_vars
               PROVE  [Lifecycle!Next]_Statuses
    BY DEF Statuses
  <2>1. CASE Next
    BY <2>1, FreshNext, MoveRefines DEF FreshOK
  <2>2. CASE UNCHANGED vars
    BY <2>2 DEF vars, Statuses
  <2> QED
    BY <2>1, <2>2
<1> HIDE DEF NoFault
<1> QED
  BY <1>1, <1>2, <1>3, <1>4, Invariance, PTL DEF Spec, FollowsLifecycle, Lifecycle!Spec

-----------------------------------------------------------------------------
(* Agents, when moreover no call to a container fails.                       *)

\* A container is stopped, or its host gone, before its task is given up.
StoppedFirst ==
  /\ phase = "spot" /\ pc = "listInterrupted" => chosen \in dead
  /\ phase = "spot" => \A t \in todo : snap[t].cont \notin LiveContainers
  /\ pc \in {"kill", "requeue"} => snap[Current].cont \notin LiveContainers

\* A task whose container works holds the slot of the container's host.
OnItsHost(t) ==
  /\ task[t].cont \in {NoContainer} \cup DOMAIN ctr
  /\ task[t].cont \in LiveContainers =>
       /\ task[t].status \in {"running", "recovering"}
       /\ ctr[task[t].cont].inst = task[t].inst

Starting(c) == pc = "start" /\ ctr[c].task = Current /\ c = Newest(Current)

\* Before the first crash nothing is recovered, and every container at work is
\* the one its running task names, or is about to be.
BeforeCrash ==
  /\ phase # "down"
  /\ phase = "recover" => \A t \in Task : task[t].status \in {"new", "pending"}
  /\ \A t \in Task : task[t].status # "recovering"
  /\ \A c \in LiveContainers :
       LET t == ctr[c].task
       IN  Starting(c) \/ (task[t].cont = c /\ task[t].status = "running")

AgentInv ==
  /\ \A c \in LiveContainers : ctr[c].inst \notin dead
  /\ StoppedFirst
  /\ \A t \in Task : OnItsHost(t)
  /\ pc = "start" => /\ Newest(Current) \in DOMAIN ctr
                     /\ Newest(Current) \in LiveContainers => ctr[Newest(Current)].inst = chosen
  /\ crashes = 0 => BeforeCrash

NoneLaunched == ContainersKept /\ LiveContainers' \subseteq LiveContainers

LEMMA SameNoneLaunched == ASSUME UNCHANGED ctr PROVE NoneLaunched /\ LiveContainers' = LiveContainers
BY SameContainersKept DEF NoneLaunched, LiveContainers

LEMMA StateNoneLaunched ==
  ASSUME ctr \in Seq(Container), NEW c \in LiveContainers \cup Stoppable, NEW st \in ContainerState \ {"live"},
         ctr' = [ctr EXCEPT ![c].st = st]
  PROVE  NoneLaunched /\ LiveContainers' = LiveContainers \ {c}
<1>1. ContainersKept /\ DOMAIN ctr' = DOMAIN ctr
  BY StateKeepsContainers DEF ContainersKept
<1>2. c \in DOMAIN ctr /\ ctr'[c] = [ctr[c] EXCEPT !.st = st] /\ ctr[c] \in Container
  BY DEF LiveContainers, Stoppable
<1>3. ctr'[c].st = st
  BY <1>2 DEF Container
<1>4. \A d \in DOMAIN ctr : d # c => ctr'[d] = ctr[d]
  OBVIOUS
<1> QED
  BY <1>1, <1>3, <1>4 DEF NoneLaunched, LiveContainers

\* Without glitches a container that StopContainer was called for has stopped.
LEMMA StopNoneLaunched ==
  ASSUME ~ Glitches, ctr \in Seq(Container), NEW c, ctr' \in Stopped(c)
  PROVE  NoneLaunched /\ c \notin LiveContainers'
<1>1. CASE c \in Stoppable
  <2>1. ctr' = [ctr EXCEPT ![c].st = "stopped"]
    BY <1>1 DEF Stopped
  <2> QED
    BY <1>1, <2>1, StateNoneLaunched DEF ContainerState, Stoppable
<1>2. CASE c \notin Stoppable
  BY <1>2, SameNoneLaunched DEF Stopped, Stoppable, LiveContainers
<1> QED
  BY <1>1, <1>2

LEMMA HostsNoneLaunched ==
  ASSUME ctr \in Seq(Container), NEW S, ctr' = WithoutHosts(S)
  PROVE  /\ NoneLaunched
         /\ \A c \in LiveContainers' : ctr[c].inst \notin S
         /\ \A c \in LiveContainers : ctr[c].inst \notin S => c \in LiveContainers'
<1>1. DOMAIN ctr' = DOMAIN ctr
  BY DEF WithoutHosts
<1>2. \A c \in DOMAIN ctr :
        ctr'[c] = IF ctr[c].inst \in S THEN [ctr[c] EXCEPT !.st = "lost"] ELSE ctr[c]
  BY DEF WithoutHosts
<1>3. \A c \in DOMAIN ctr : ctr[c] \in Container
  OBVIOUS
<1>4. \A c \in DOMAIN ctr :
        /\ ctr'[c].task = ctr[c].task /\ ctr'[c].inst = ctr[c].inst
        /\ ctr'[c].st = IF ctr[c].inst \in S THEN "lost" ELSE ctr[c].st
  BY <1>2, <1>3 DEF Container
<1> QED
  BY <1>1, <1>4 DEF NoneLaunched, ContainersKept, LiveContainers, Lost

\* What InspectContainer says of a container at work.
LEMMA Inspections ==
  ASSUME ~ Glitches, NEW c
  PROVE  /\ "live" \in Inspected(c) => c \in LiveContainers
         /\ \A seen \in Inspected(c) : seen # "live" => c \notin LiveContainers
<1>1. CASE c \notin DOMAIN ctr
  BY <1>1 DEF Inspected, LiveContainers
<1>2. CASE c \in DOMAIN ctr /\ ctr[c].st = "live"
  BY <1>2 DEF Inspected, LiveContainers
<1>3. CASE c \in DOMAIN ctr /\ ctr[c].st # "live"
  BY <1>3 DEF Inspected, LiveContainers
<1> QED
  BY <1>1, <1>2, <1>3

\* What a step may do to the row of the task in hand: give up a container that
\* does not work, or recover a task with the container it has.
RowGoesOn ==
  /\ Alone(Current)
  /\ \/ task'[Current] = task[Current]
     \/ /\ task[Current].cont \notin LiveContainers'
        /\ task'[Current].cont \in {task[Current].cont, NoContainer}
        /\ task'[Current].status = "recovering" => crashes # 0
     \/ /\ task'[Current].cont = task[Current].cont /\ task'[Current].inst = task[Current].inst
        /\ \/ task'[Current].status = "recovering" /\ crashes # 0
           \/ task'[Current].status = "running" /\ task[Current].status = "recovering"

LEMMA AgentsKept ==
  ASSUME IInv, AgentInv, NoneLaunched, UNCHANGED <<dead, crashes>>, RowGoesOn,
         pc # "start", pc' # "start", phase' # "down",
         phase' = "recover" => crashes # 0 \/ (phase = "recover" /\ UNCHANGED task),
         StoppedFirst'
  PROVE  AgentInv'
<1>1. /\ LiveContainers' \subseteq LiveContainers /\ LiveContainers \subseteq DOMAIN ctr
      /\ DOMAIN ctr' = DOMAIN ctr
      /\ \A c \in DOMAIN ctr : ctr'[c].task = ctr[c].task /\ ctr'[c].inst = ctr[c].inst
      /\ NoContainer \notin LiveContainers
  BY ContainersFinite DEF NoneLaunched, ContainersKept, LiveContainers, IInv, TypeOK
<1>2. \A t \in Task \ {Current} : task'[t] = task[t]
  BY DEF RowGoesOn, Alone
<1>3. \A c \in LiveContainers' : ctr'[c].inst \notin dead'
  BY <1>1 DEF AgentInv
<1>4. ASSUME NEW t \in Task PROVE OnItsHost(t)'
  <2>1. OnItsHost(t)
    BY DEF AgentInv
  <2>2. CASE task'[t] = task[t]
    BY <1>1, <2>1, <2>2 DEF OnItsHost
  <2>3. CASE task'[t] # task[t]
    BY <1>1, <1>2, <2>1, <2>3 DEF OnItsHost, RowGoesOn
  <2> QED
    BY <2>2, <2>3
<1>5. ASSUME crashes = 0 PROVE BeforeCrash'
  <2>1. BeforeCrash
    BY <1>5 DEF AgentInv
  <2>2. \A t \in Task : task'[t].status # "recovering"
    BY <1>2, <1>5, <2>1 DEF BeforeCrash, RowGoesOn
  <2>3. phase' = "recover" => \A t \in Task : task'[t].status \in {"new", "pending"}
    BY <1>5, <2>1 DEF BeforeCrash
  <2>4. ASSUME NEW c \in LiveContainers'
        PROVE  task'[ctr'[c].task].cont = c /\ task'[ctr'[c].task].status = "running"
    <3> DEFINE t == ctr[c].task
    <3>1. c \in LiveContainers /\ ctr'[c].task = t /\ t \in Task
      <4>1. ctr \in Seq(Container)
        BY DEF IInv, TypeOK
      <4>2. \A d \in DOMAIN ctr : ctr[d] \in Container
        BY <4>1
      <4> QED
        BY <1>1, <2>4, <4>2 DEF Container
    <3>2. task[t].cont = c /\ task[t].status = "running"
      BY <2>1, <3>1 DEF BeforeCrash, Starting
    <3> HIDE DEF t
    <3>3. task'[t].cont = c /\ task'[t].status = "running"
      BY <1>2, <1>5, <2>4, <3>1, <3>2 DEF RowGoesOn
    <3> QED
      BY <3>1, <3>3
  <2> QED
    BY <2>2, <2>3, <2>4 DEF BeforeCrash
<1> QED
  BY <1>3, <1>4, <1>5 DEF AgentInv

\* The loops: a step to another label or task needs nothing more stopped.
LEMMA StoppedKept ==
  ASSUME AgentInv, NoneLaunched, UNCHANGED dead, LoopOK, NEW p, NEW S, NEW label,
         \/ EnterPhase(p)
         \/ Continue /\ todo # {}
         \/ ListInto(S) /\ phase # "spot"
         \/ Goto(label) /\ label \notin {"kill", "requeue", "listInterrupted"} /\ phase # "spot"
         \/ NextOrphan /\ phase = "recover"
  PROVE  StoppedFirst'
<1>1. /\ LiveContainers' \subseteq LiveContainers
      /\ phase = "spot" => \A t \in todo : snap[t].cont \notin LiveContainers
  BY DEF NoneLaunched, AgentInv, StoppedFirst
<1>2. ASSUME NEW q, EnterPhase(q) PROVE StoppedFirst'
  BY <1>2 DEF EnterPhase, StoppedFirst
<1>3. CASE Continue /\ todo # {}
  <2>1. CASE todo = {Current}
    BY <1>2, <1>3, <2>1 DEF Continue
  <2>2. CASE todo # {Current}
    <3>1. /\ phase' = phase /\ pc' = "next" /\ todo' = todo \ {Current}
          /\ snap' = [snap EXCEPT ![Current] = EmptyRow]
      BY <1>3, <2>2 DEF Continue
    <3>2. \A t \in todo' : t \in todo /\ snap'[t] = snap[t]
      BY <3>1 DEF LoopOK
    <3> QED
      BY <1>1, <3>1, <3>2 DEF StoppedFirst
  <2> QED
    BY <2>1, <2>2
<1>4. CASE ListInto(S) /\ phase # "spot"
  BY <1>2, <1>4 DEF ListInto, StoppedFirst
<1>5. CASE Goto(label) /\ label \notin {"kill", "requeue", "listInterrupted"} /\ phase # "spot"
  BY <1>5 DEF Goto, StoppedFirst
<1>6. CASE NextOrphan /\ phase = "recover"
  BY <1>6 DEF NextOrphan, StoppedFirst
<1> QED
  BY <1>2, <1>3, <1>4, <1>5, <1>6

\* No loop comes near recovery again.
LEMMA LoopStaysUp ==
  ASSUME LoopOK, phase \in TaskPhases, NEW p \in Phases \ {"down", "recover"}, NEW S, NEW label,
         label # "start",
         EnterPhase(p) \/ Continue \/ ListInto(S) \/ Goto(label)
  PROVE  phase' \notin {"down", "recover"} /\ pc' # "start"
BY NextPhaseType DEF Continue, ListInto, Goto, EnterPhase, TaskPhases, LoopOK, Phases

LEMMA ContinueStopped ==
  ASSUME AgentInv, LoopOK, NoneLaunched, UNCHANGED dead, phase \in TaskPhases, todo # {}, Continue
  PROVE  StoppedFirst' /\ pc' # "start" /\ phase' \notin {"down", "recover"}
<1>1. FirstPhase \in Phases \ {"down", "recover"}
  BY NextPhaseType DEF Phases
<1> QED
  BY <1>1, StoppedKept, LoopStaysUp

LEMMA GotoStopped ==
  ASSUME AgentInv, LoopOK, NoneLaunched, UNCHANGED dead, phase \in TaskPhases, phase # "spot",
         NEW label, Goto(label), label \notin {"start", "kill", "requeue", "listInterrupted"}
  PROVE  StoppedFirst' /\ pc' # "start" /\ phase' \notin {"down", "recover"}
<1>1. FirstPhase \in Phases \ {"down", "recover"}
  BY NextPhaseType DEF Phases
<1> QED
  BY <1>1, StoppedKept, LoopStaysUp

LEMMA ListIntoStopped ==
  ASSUME AgentInv, LoopOK, NoneLaunched, UNCHANGED dead, phase \in TaskPhases, phase # "spot",
         NEW S, ListInto(S)
  PROVE  StoppedFirst' /\ pc' # "start" /\ phase' \notin {"down", "recover"}
<1>1. FirstPhase \in Phases \ {"down", "recover"}
  BY NextPhaseType DEF Phases
<1> QED
  BY <1>1, StoppedKept, LoopStaysUp

LEMMA EnterStopped ==
  ASSUME NEW p \in Phases \ {"down", "recover"}, EnterPhase(p)
  PROVE  StoppedFirst' /\ pc' # "start" /\ phase' \notin {"down", "recover"}
BY DEF EnterPhase, StoppedFirst

LEMMA RecoverAgents ==
  ASSUME IInv, FreshInv, AgentInv, UNCHANGED storeFaults, Recover
  PROVE  AgentInv'
<1> USE DEF At, tables, world, budget
<1>1. LoopOK /\ task \in TaskTable /\ storeFaults \in Nat
  BY IInvParts DEF RestOK
<1>2. ~ StoreFails
  BY <1>1
<1>3. phase = "recover" /\ UNCHANGED <<ctr, dead, crashes>>
  BY DEF Recover, ListOrphansRunning, ListOrphansProvisioning, Collect,
         ListOrphansRecovering, MarkRecovering, ClearProvisioned, RebuildCounters
<1>4. NoneLaunched /\ pc # "start"
  BY <1>1, <1>3, SameNoneLaunched DEF LoopOK, LoopShape, Labels, Phases
<1>5. CASE ListOrphansRunning \/ ListOrphansProvisioning
  <2>1. /\ UNCHANGED <<task, phase>> /\ pc' \in {"listProvisioning", "listRecovering"}
    BY <1>5 DEF ListOrphansRunning, ListOrphansProvisioning, Collect
  <2> QED
    BY <1>3, <1>4, <2>1, Stays, AgentsKept DEF RowGoesOn, StoppedFirst
<1>6. CASE ListOrphansRecovering \/ RebuildCounters
  <2>1. /\ UNCHANGED task /\ pc' \in {"list", "next", "finish"} /\ phase' \in {"recover", FirstPhase}
        /\ phase' = "spot" => todo' = {}
    BY <1>3, <1>6 DEF ListOrphansRecovering, RebuildCounters, EnterPhase
  <2>2. StoppedFirst' /\ phase' # "down"
    BY <2>1, NextPhaseType DEF StoppedFirst
  <2> QED
    BY <1>3, <1>4, <2>1, <2>2, Stays, AgentsKept DEF RowGoesOn
<1>7. CASE MarkRecovering \/ ClearProvisioned
  <2>1. pc \notin ListPCs
    BY <1>7 DEF MarkRecovering, ClearProvisioned
  <2>2. /\ Current \in Task /\ InTable(task, Current)
        /\ pc = "clear" => task[Current].status = "recovering" /\ task[Current].cont = NoContainer
        /\ pc = "next" => task[Current].status \in {"running", "provisioning"}
    BY <1>3, <2>1, HandFresh DEF HandledPCs, HandledAs, ListedAs, Phases
  <2>3. crashes # 0
    BY <1>3, <1>7, <2>2 DEF AgentInv, BeforeCrash, MarkRecovering, ClearProvisioned
  <2>4. pc' # "start" /\ phase' = "recover" /\ StoppedFirst'
    BY <1>1, <1>3, <1>4, <1>7, StoppedKept DEF MarkRecovering, ClearProvisioned, NextOrphan, Goto
  <2>5. NoContainer \notin LiveContainers'
    BY <1>3, ContainersFinite DEF IInv, TypeOK, LiveContainers
  <2>6. CASE MarkRecovering
    <3>1. /\ Alone(Current)
          /\ RowIs(task'[Current], "recovering", task[Current].inst, task[Current].cont,
                   task[Current].ready)
      BY <1>1, <1>2, <2>2, <2>6, Effects DEF MarkRecovering, Write, TaskStatus
    <3> QED
      BY <1>3, <1>4, <2>3, <2>4, <3>1, AgentsKept DEF RowGoesOn, RowIs
  <2>7. CASE ClearProvisioned
    <3>1. /\ Alone(Current)
          /\ RowIs(task'[Current], "recovering", NoInstance, NoContainer, task[Current].ready)
      BY <1>1, <1>2, <2>2, <2>7, Effects DEF ClearProvisioned, Write
    <3>2. RowGoesOn
      BY <2>2, <2>3, <2>5, <2>7, <3>1 DEF RowGoesOn, RowIs, ClearProvisioned
    <3> QED
      BY <1>3, <1>4, <2>3, <2>4, <3>2, AgentsKept
  <2> QED
    BY <1>7, <2>6, <2>7
<1> QED
  BY <1>5, <1>6, <1>7 DEF Recover

LEMMA SpotAgents ==
  ASSUME IInv, FreshInv, AgentInv, UNCHANGED storeFaults, CheckInterruptions
  PROVE  AgentInv'
<1> USE DEF At, tables, world, budget
<1>1. LoopOK /\ task \in TaskTable /\ storeFaults \in Nat /\ FirstPhase \in Phases
  BY IInvParts, NextPhaseType DEF RestOK, Phases
<1>2. ~ StoreFails
  BY <1>1
<1>3. phase = "spot" /\ UNCHANGED <<ctr, dead, crashes>>
  BY DEF CheckInterruptions, DrainInstance, ListInterrupted, RequeueInterrupted, NoMoreInterruptions
<1>4. NoneLaunched /\ LiveContainers' = LiveContainers /\ pc # "start" /\ phase \in TaskPhases
  BY <1>1, <1>3, SameNoneLaunched DEF LoopOK, LoopShape, Labels, Phases, TaskPhases
<1>5. /\ \A t \in todo : snap[t].cont \notin LiveContainers
      /\ pc = "listInterrupted" => chosen \in dead
  BY <1>3 DEF AgentInv, StoppedFirst
<1>6. CASE DrainInstance
  <2>1. /\ UNCHANGED <<task, phase, todo, snap>> /\ pc' = "listInterrupted" /\ chosen' \in dead
    BY <1>6 DEF DrainInstance
  <2> QED
    BY <1>3, <1>4, <1>5, <2>1, Stays, AgentsKept DEF RowGoesOn, StoppedFirst
<1>7. CASE ListInterrupted
  <2>1. UNCHANGED task /\ pc = "listInterrupted"
    BY <1>7 DEF ListInterrupted
  <2>2. CASE Interrupted # {} /\ ListInto(Interrupted)
    <3>1. /\ phase' = phase /\ pc' = "next" /\ todo' = Interrupted
          /\ snap' = [t \in Task |-> IF t \in Interrupted THEN task[t] ELSE EmptyRow]
      BY <2>2 DEF ListInto
    <3>2. ASSUME NEW t \in Interrupted PROVE snap'[t].cont \notin LiveContainers
      <4>1. t \in Task /\ task[t].inst = chosen /\ snap'[t] = task[t]
        BY <3>1 DEF Interrupted, WithStatus
      <4>2. chosen \in dead /\ OnItsHost(t) /\ \A c \in LiveContainers : ctr[c].inst \notin dead
        BY <1>5, <2>1, <4>1 DEF AgentInv
      <4> QED
        BY <4>1, <4>2 DEF OnItsHost
    <3>3. StoppedFirst'
      BY <1>4, <3>1, <3>2 DEF StoppedFirst
    <3> QED
      BY <1>3, <1>4, <2>1, <3>1, <3>3, Stays, AgentsKept DEF RowGoesOn
  <2>3. CASE EnterPhase("spot")
    <3>1. StoppedFirst' /\ pc' # "start" /\ phase' \notin {"down", "recover"}
      BY <2>3 DEF EnterPhase, StoppedFirst
    <3> QED
      BY <1>3, <1>4, <2>1, <3>1, Stays, AgentsKept DEF RowGoesOn
  <2> QED
    BY <1>7, <2>2, <2>3 DEF ListInterrupted
<1>8. CASE RequeueInterrupted
  <2>1. /\ Current \in Task /\ Current \in todo /\ todo # {} /\ InTable(task, Current)
        /\ task[Current] = snap[Current] /\ pc \notin ListPCs /\ Continue
    BY <1>8, HandFresh DEF RequeueInterrupted, HandledPCs
  <2>2. Alone(Current) /\ RowIs(task'[Current], "pending", NoInstance, NoContainer, FALSE)
    BY <1>1, <1>2, <1>8, <2>1, Effects DEF RequeueInterrupted, Write
  <2>3. StoppedFirst' /\ pc' # "start" /\ phase' \notin {"down", "recover"}
    BY <1>1, <1>3, <1>4, <2>1, StoppedKept, LoopStaysUp, NextPhaseType
  <2>4. RowGoesOn
    BY <1>4, <1>5, <2>1, <2>2 DEF RowGoesOn, RowIs
  <2> QED
    BY <1>3, <1>4, <2>3, <2>4, AgentsKept
<1>9. CASE NoMoreInterruptions
  <2>1. StoppedFirst' /\ pc' # "start" /\ phase' \notin {"down", "recover"}
    BY <1>9 DEF NoMoreInterruptions, EnterPhase, StoppedFirst
  <2> QED
    BY <1>3, <1>4, <1>9, <2>1, Stays, AgentsKept DEF RowGoesOn, NoMoreInterruptions
<1> QED
  BY <1>6, <1>7, <1>8, <1>9 DEF CheckInterruptions

LEMMA MonitorAgents ==
  ASSUME ~ Glitches, IInv, FreshInv, AgentInv, UNCHANGED storeFaults,
         MonitorCancelled \/ MonitorRecovering \/ MonitorRunning
  PROVE  AgentInv'
<1> USE DEF At, tables, world, budget
<1>1. LoopOK /\ task \in TaskTable /\ storeFaults \in Nat /\ ctr \in Seq(Container)
  BY IInvParts DEF RestOK
<1>2. ~ StoreFails
  BY <1>1
<1>3. phase \in {"cancelled", "recovering", "running"} /\ pc # "start" /\ UNCHANGED <<dead, crashes>>
  BY <1>1 DEF MonitorCancelled, MonitorRecovering, MonitorRunning, ListCancelled,
     CancelledWithoutContainer, StopCancelled, ClearCancelled, ListRecovering, RequeueProvisioned,
     PromoteRecovered, ListRunning, StillRunning, StopToKill, KillTask, LoopOK, LoopShape, Labels,
     Phases
<1>4. CASE ListCancelled \/ ListRecovering \/ ListRunning
  <2>1. UNCHANGED <<task, ctr>> /\ \E S : ListInto(S)
    BY <1>4 DEF ListCancelled, ListRecovering, ListRunning
  <2>2. StoppedFirst' /\ pc' # "start" /\ phase' \notin {"down", "recover"} /\ NoneLaunched
    BY <1>1, <1>3, <2>1, SameNoneLaunched, ListIntoStopped DEF TaskPhases
  <2> QED
    BY <1>3, <2>1, <2>2, Stays, AgentsKept DEF RowGoesOn
<1>5. CASE CancelledWithoutContainer \/ StopCancelled \/ ClearCancelled
  BY <1>5, HandFresh DEF CancelledWithoutContainer, StopCancelled, ClearCancelled
<1>6. CASE StillRunning
  <2>1. UNCHANGED <<task, ctr>> /\ Continue /\ todo # {}
    BY <1>1, <1>6, InHand DEF StillRunning, Inspecting
  <2>2. StoppedFirst' /\ pc' # "start" /\ phase' \notin {"down", "recover"} /\ NoneLaunched
    BY <1>1, <1>3, <2>1, SameNoneLaunched, ContinueStopped DEF TaskPhases
  <2> QED
    BY <1>3, <2>1, <2>2, Stays, AgentsKept DEF RowGoesOn
<1>7. CASE RequeueProvisioned \/ StopToKill
  <2>1. /\ UNCHANGED <<task, phase, todo, snap>> /\ pc' \in {"requeue", "kill"}
    BY <1>7 DEF RequeueProvisioned, StopToKill, Goto
  <2>2. NoneLaunched /\ snap[Current].cont \notin LiveContainers'
    <3>1. CASE RequeueProvisioned
      BY <1>1, <3>1, SameNoneLaunched, ContainersFinite DEF RequeueProvisioned, LiveContainers
    <3>2. CASE StopToKill
      BY <1>1, <3>2, StopNoneLaunched DEF StopToKill
    <3> QED
      BY <1>7, <3>1, <3>2
  <2>3. Current' = Current
    BY <2>1 DEF Current
  <2>4. StoppedFirst'
    BY <1>3, <2>1, <2>2, <2>3 DEF StoppedFirst
  <2> QED
    BY <1>3, <2>1, <2>2, <2>4, Stays, AgentsKept DEF RowGoesOn
<1>8. CASE PromoteRecovered
  <2>1. /\ Current \in Task /\ InTable(task, Current) /\ task[Current].status = "recovering"
        /\ pc \notin ListPCs /\ Continue /\ UNCHANGED ctr /\ todo # {}
    BY <1>1, <1>8, MonitorHand, InHand DEF PromoteRecovered, Inspecting, HandledPCs
  <2>2. /\ Alone(Current)
        /\ RowIs(task'[Current], "running", task[Current].inst, task[Current].cont,
                 task[Current].ready)
    BY <1>1, <1>2, <1>8, <2>1, Effects DEF PromoteRecovered, Write, TaskStatus
  <2>3. StoppedFirst' /\ pc' # "start" /\ phase' \notin {"down", "recover"} /\ NoneLaunched
    BY <1>1, <1>3, <2>1, SameNoneLaunched, ContinueStopped DEF TaskPhases
  <2> QED
    BY <1>3, <2>1, <2>2, <2>3, AgentsKept DEF RowGoesOn, RowIs
<1>9. CASE KillTask
  <2>1. /\ Current \in Task /\ InTable(task, Current) /\ task[Current] = snap[Current]
        /\ pc \notin ListPCs /\ Goto("release") /\ UNCHANGED ctr
    BY <1>9, MonitorHand DEF KillTask, HandledPCs
  <2>2. /\ Alone(Current)
        /\ RowIs(task'[Current], "failed", task[Current].inst, task[Current].cont,
                 task[Current].ready)
    BY <1>1, <1>2, <1>9, <2>1, Effects DEF KillTask, CompleteTask, Write, TaskStatus
  <2>3. StoppedFirst' /\ pc' # "start" /\ phase' \notin {"down", "recover"} /\ NoneLaunched
    BY <1>1, <1>3, <2>1, SameNoneLaunched, GotoStopped DEF TaskPhases
  <2>4. task[Current].cont \notin LiveContainers'
    BY <1>9, <2>1, <2>3 DEF KillTask, AgentInv, StoppedFirst, NoneLaunched
  <2> QED
    BY <1>3, <2>1, <2>2, <2>3, <2>4, AgentsKept DEF RowGoesOn, RowIs
<1> QED
  BY <1>4, <1>5, <1>6, <1>7, <1>8, <1>9 DEF MonitorCancelled, MonitorRecovering, MonitorRunning

LEMMA SharedAgents ==
  ASSUME ~ Glitches, IInv, FreshInv, AgentInv, UNCHANGED storeFaults, Shared
  PROVE  AgentInv'
<1> USE DEF tables, world, budget
<1>1. LoopOK /\ task \in TaskTable /\ storeFaults \in Nat /\ ctr \in Seq(Container)
  BY IInvParts DEF RestOK
<1>2. ~ StoreFails
  BY <1>1
<1>3. CASE ListFails
  BY <1>2, <1>3 DEF ListFails
<1>4. CASE Shared /\ ~ ListFails
  <2>1. /\ phase \in {"recovering", "running"} /\ pc # "start" /\ pc \notin ListPCs
        /\ UNCHANGED <<ctr, dead, crashes>>
    <3>1. pc \notin ListPCs /\ UNCHANGED <<ctr, dead, crashes>>
      BY <1>4 DEF Shared, CompleteExited, ReleaseSlot, MarkRetryReady, GiveUpInstance,
                  CountInspectFailure, Requeue, Inspecting
    <3>2. phase # "cancelled"
      BY <3>1, HandFresh
    <3> QED
      BY <1>1, <1>4, <3>1, <3>2, LabelPhase
         DEF Shared, CompleteExited, ReleaseSlot, MarkRetryReady, GiveUpInstance,
             CountInspectFailure, Requeue, Inspecting
  <2>2. /\ NoneLaunched /\ Current \in Task /\ InTable(task, Current) /\ phase \in TaskPhases
        /\ todo # {}
        /\ pc \notin HandledPCs => task[Current] = snap[Current]
        /\ NoContainer \notin LiveContainers
        /\ LiveContainers' = LiveContainers
    BY <1>1, <2>1, SameNoneLaunched, MonitorHand, InHand, ContainersFinite DEF LiveContainers
  <2>3. ASSUME Continue \/ Goto("release") \/ Goto("releaseCompleted") \/ Goto("ready"), RowGoesOn
        PROVE  AgentInv'
    <3>1. StoppedFirst' /\ pc' # "start" /\ phase' \notin {"down", "recover"}
      BY <1>1, <2>1, <2>2, <2>3, ContinueStopped, GotoStopped
    <3> QED
      BY <2>1, <2>2, <2>3, <3>1, AgentsKept
  <2>4. CASE CompleteExited
    <3>1. PICK result \in {"completed", "failed"} :
            /\ task' = UpdateTaskStatus(task, Current, result)
            /\ Goto(IF result = "completed" THEN "releaseCompleted" ELSE "release")
      BY <1>2, <2>4 DEF CompleteExited, CompleteTask, Write
    <3>2. pc = "next" /\ \E seen \in Inspected(snap[Current].cont) : seen # "live"
      BY <2>4 DEF CompleteExited, Inspecting
    <3>3. task[Current].cont \notin LiveContainers'
      BY <2>2, <3>2, Inspections DEF HandledPCs
    <3>4. /\ Alone(Current)
          /\ RowIs(task'[Current], result, task[Current].inst, task[Current].cont,
                   task[Current].ready)
      BY <1>1, <2>2, <3>1, Effects DEF TaskStatus
    <3> QED
      BY <2>3, <3>1, <3>3, <3>4 DEF RowGoesOn, RowIs
  <2>5. CASE ReleaseSlot \/ CountInspectFailure
    <3>1. UNCHANGED task /\ (Continue \/ Goto("ready"))
      BY <2>1, <2>5 DEF ReleaseSlot, CountInspectFailure
    <3> QED
      BY <2>3, <3>1, Stays DEF RowGoesOn
  <2>6. CASE MarkRetryReady
    <3>1. pc = "ready" /\ task' = MarkReadyForRetry(task, Current) /\ Continue
      BY <1>2, <2>6 DEF MarkRetryReady, Write
    <3>2. /\ Alone(Current)
          /\ RowIs(task'[Current], task[Current].status, task[Current].inst, task[Current].cont, TRUE)
      BY <1>1, <2>2, <3>1, Effects
    <3>3. task[Current].status = "failed"
      BY <2>1, <3>1, HandFresh DEF HandledAs, HandledPCs
    <3>4. task[Current].cont \notin LiveContainers
      BY <2>2, <3>3 DEF AgentInv, OnItsHost
    <3> QED
      BY <2>2, <2>3, <3>1, <3>2, <3>3, <3>4 DEF RowGoesOn, RowIs
  <2>7. CASE GiveUpInstance
    <3>1. /\ UNCHANGED <<task, phase, todo, snap>> /\ pc' = "requeue"
          /\ \E seen \in Inspected(snap[Current].cont) : seen # "live"
      BY <2>7 DEF GiveUpInstance, Goto
    <3>2. Current' = Current
      BY <3>1 DEF Current
    <3>3. StoppedFirst'
      BY <2>1, <2>2, <3>1, <3>2, Inspections DEF StoppedFirst
    <3> QED
      BY <2>1, <2>2, <3>1, <3>3, Stays, AgentsKept DEF RowGoesOn
  <2>8. CASE Requeue
    <3>1. pc = "requeue" /\ task' = RequeueTask(task, Current) /\ Continue
      BY <1>2, <2>8 DEF Requeue, Write
    <3>2. Alone(Current) /\ RowIs(task'[Current], "pending", NoInstance, NoContainer, FALSE)
      BY <1>1, <2>2, <3>1, Effects
    <3>3. task[Current].cont \notin LiveContainers
      BY <2>2, <3>1 DEF HandledPCs, AgentInv, StoppedFirst
    <3> QED
      BY <2>2, <2>3, <3>1, <3>2, <3>3 DEF RowGoesOn, RowIs
  <2> QED
    BY <1>4, <2>4, <2>5, <2>6, <2>7, <2>8 DEF Shared
<1> QED
  BY <1>3, <1>4

\* Of a task about to be launched no container works yet, and the one that is
\* launched is the one that its row will name.
LEMMA RunAgents ==
  ASSUME ~ Glitches, IInv, IInv', FreshInv, AgentInv, RunAgent
  PROVE  AgentInv'
<1> USE DEF At, tables
<1>1. LoopOK /\ ctr \in Seq(Container) /\ ctr' \in Seq(Container)
  BY IInvParts DEF RestOK, IInv, TypeOK
<1>2. /\ phase = "dispatch" /\ pc = "run" /\ pc' \in {"start", "fail"}
      /\ UNCHANGED <<task, dead, crashes, phase, todo, snap, chosen>>
      /\ \/ Launched /\ pc' = "start"
         \/ Relaunched /\ pc' = "start"
         \/ UNCHANGED ctr /\ pc' = "fail"
  BY <1>1 DEF RunAgent, Goto, Launched, budget, world
<1>3. Current' = Current
  BY <1>2 DEF Current
<1>4. Current \in Task /\ task[Current].status = "provisioning" /\ task[Current].cont = NoContainer
      /\ task[Current].inst = chosen
  BY <1>2, HandFresh DEF HandledAs, HandledPCs, RowOK
<1>5. StoppedFirst'
  BY <1>2 DEF StoppedFirst
<1>6. NoContainer \notin LiveContainers /\ NoContainer \notin LiveContainers'
  BY <1>1, ContainersFinite DEF LiveContainers
<1>7. ASSUME UNCHANGED ctr
      PROVE  AgentInv'
  <2>1. LiveContainers' = LiveContainers /\ \A t : Newest(t)' = Newest(t)
    BY <1>7, SameNoneLaunched, SameContainersKept, KeptLaunches
  <2>2. \A t \in Task : OnItsHost(t)'
    BY <1>2, <1>7, <2>1 DEF AgentInv, OnItsHost
  <2>3. pc' = "start" => Newest(Current) \in DOMAIN ctr
    BY <1>1, <1>2, <1>7, NewestIs DEF Relaunched, Launches, Launched
  <2>4. pc' = "start" /\ Newest(Current) \in LiveContainers => ctr[Newest(Current)].inst = chosen
    <3> SUFFICES ASSUME pc' = "start", Newest(Current) \in LiveContainers
                 PROVE  ctr[Newest(Current)].inst = chosen
      OBVIOUS
    <3>1. Mode = "fargate"
      <4>1. ~ Launched
        <5>1. Len(ctr) \in Nat /\ Len(Append(ctr, [task |-> Current, inst |-> chosen, st |-> "live"])) = Len(ctr) + 1
          BY <1>1
        <5> QED
          BY <1>7, <5>1 DEF Launched
      <4> QED
        BY <1>2, <4>1 DEF Relaunched
    <3>2. Instance = {1} /\ chosen \in Instance
      BY <1>1, <1>2, <3>1, OrchestratorAssumption DEF Instance, LoopOK, LoopShape
    <3>3. ctr[Newest(Current)] \in Container
      BY <1>1, <2>3
    <3> QED
      BY <3>2, <3>3 DEF Container
  <2>5. ASSUME crashes = 0 PROVE BeforeCrash'
    <3>1. BeforeCrash
      BY <1>5, <2>5 DEF AgentInv
    <3>2. \A c \in LiveContainers : LET t == ctr[c].task IN task[t].cont = c /\ task[t].status = "running"
      BY <1>2, <3>1 DEF BeforeCrash, Starting
    <3> QED
      BY <1>2, <1>7, <2>1, <3>1, <3>2 DEF BeforeCrash
  <2> QED
    BY <1>2, <1>3, <1>5, <1>7, <2>1, <2>2, <2>3, <2>4, <2>5 DEF AgentInv
<1>8. CASE Launched /\ pc' = "start"
  <2> DEFINE n == Len(ctr) + 1
             agent == [task |-> Current, inst |-> chosen, st |-> "live"]
  <2>1. /\ Len(ctr) \in Nat /\ DOMAIN ctr = 1..Len(ctr) /\ DOMAIN ctr' = 1..n
        /\ ctr'[n] = agent /\ \A c \in DOMAIN ctr : ctr'[c] = ctr[c]
    BY <1>1, <1>8 DEF Launched
  <2>0. n # NoContainer
    BY <2>1 DEF NoContainer
  <2>2. DOMAIN ctr' = DOMAIN ctr \cup {n} /\ n \notin DOMAIN ctr
    BY <2>1
  <2>3. agent.task = Current /\ agent.st = "live" /\ agent.inst = chosen /\ chosen \notin dead
    BY <1>8 DEF Launched
  <2>4. Newest(Current)' = n
    <3>1. /\ Launches(Current)' = Launches(Current) \cup {n}
          /\ \A c \in Launches(Current) : c # Newest(Current)'
          /\ Newest(Current)' # NoContainer
      <4>1. PICK u \in Task : u = Current
        BY <1>4
      <4>2. /\ Launches(u)' = Launches(u) \cup {n}
            /\ \A c \in Launches(u) : c # Newest(u)'
            /\ Newest(u)' # NoContainer
        BY <1>1, <1>8, <4>1, LaunchAdds DEF Launched
      <4> HIDE DEF n
      <4> QED
        BY <1>3, <4>1, <4>2
    <3>2. ASSUME NEW u PROVE Newest(u)' \in {NoContainer} \cup Launches(u)'
      <4>1. Launches(u)' \in SUBSET DOMAIN ctr' /\ Newest(u)' = Max({NoContainer} \cup Launches(u)')
        BY DEF Launches, Newest
      <4>2. Max({NoContainer} \cup Launches(u)') \in {NoContainer} \cup Launches(u)'
        BY <1>1, <4>1, GreatestContainer
      <4> QED
        BY <4>1, <4>2
    <3>3. Newest(Current)' \in {NoContainer} \cup Launches(Current)'
      BY <3>2, <1>3
    <3> HIDE DEF n
    <3> QED
      BY <3>1, <3>3
  <2> HIDE DEF n, agent
  <2>5. /\ LiveContainers' = LiveContainers \cup {n}
        /\ LiveContainers \subseteq DOMAIN ctr
    BY <2>1, <2>2, <2>3 DEF LiveContainers
  <2>6. \A c \in LiveContainers' : ctr'[c].inst \notin dead'
    BY <1>2, <2>1, <2>3, <2>5 DEF AgentInv
  <2>7. ASSUME NEW t \in Task PROVE OnItsHost(t)'
    <3>1. OnItsHost(t)
      BY DEF AgentInv
    <3>2. n # NoContainer
      BY <2>0
    <3> QED
      BY <1>2, <1>6, <2>1, <2>2, <2>5, <3>1, <3>2 DEF OnItsHost
  <2>8. ASSUME crashes = 0 PROVE BeforeCrash'
    <3>1. BeforeCrash
      BY <2>8 DEF AgentInv
    <3>2. ASSUME NEW c \in LiveContainers'
          PROVE  \/ pc' = "start" /\ ctr'[c].task = Current' /\ c = Newest(Current)'
                 \/ task'[ctr'[c].task].cont = c /\ task'[ctr'[c].task].status = "running"
      <4>1. CASE c = n
        BY <1>3, <1>8, <2>1, <2>3, <2>4, <4>1 DEF Starting
      <4>2. CASE c # n
        BY <1>2, <2>1, <2>5, <3>1, <3>2, <4>2 DEF BeforeCrash, Starting
      <4> QED
        BY <4>1, <4>2
    <3> QED
      BY <1>2, <3>1, <3>2 DEF BeforeCrash, Starting
  <2>9. /\ Newest(Current)' \in DOMAIN ctr'
        /\ ctr'[Newest(Current)'].inst = chosen'
    BY <1>2, <2>1, <2>2, <2>3, <2>4
  <2> QED
    BY <1>2, <1>3, <1>5, <2>6, <2>7, <2>8, <2>9 DEF AgentInv
<1> QED
  BY <1>2, <1>7, <1>8 DEF Relaunched

LEMMA StartAgents ==
  ASSUME IInv, FreshInv, AgentInv, UNCHANGED storeFaults, Start
  PROVE  AgentInv'
<1> USE DEF At
<1>1. LoopOK /\ task \in TaskTable /\ storeFaults \in Nat /\ ctr \in Seq(Container)
  BY IInvParts DEF RestOK
<1>2. /\ task' = StartTask(task, Current, Newest(Current)) /\ Continue
      /\ phase = "dispatch" /\ pc = "start" /\ UNCHANGED <<ctr, dead, crashes>>
  BY <1>1 DEF Start, budget
<1>3. /\ Current \in Task /\ todo # {} /\ InTable(task, Current) /\ task[Current].inst = chosen
      /\ task[Current].status = "provisioning"
  BY <1>2, HandFresh DEF HandledAs, HandledPCs
<1>4. /\ Alone(Current)
      /\ RowIs(task'[Current], "running", chosen, Newest(Current), task[Current].ready)
  BY <1>1, <1>2, <1>3, Effects
<1>5. NoneLaunched /\ LiveContainers' = LiveContainers /\ LiveContainers \subseteq DOMAIN ctr
  BY <1>2, SameNoneLaunched DEF LiveContainers
<1>6. StoppedFirst' /\ pc' # "start" /\ phase' \notin {"down", "recover"}
  BY <1>1, <1>2, <1>3, <1>5, ContinueStopped DEF TaskPhases
<1>7. /\ Newest(Current) \in DOMAIN ctr
      /\ Newest(Current) \in LiveContainers => ctr[Newest(Current)].inst = chosen
  BY <1>2 DEF AgentInv
<1>8. \A c \in LiveContainers' : ctr'[c].inst \notin dead'
  BY <1>2, <1>5 DEF AgentInv
<1>9. ASSUME NEW t \in Task PROVE OnItsHost(t)'
  <2>1. CASE t = Current
    BY <1>2, <1>4, <1>5, <1>7, <2>1 DEF OnItsHost, RowIs
  <2>2. CASE t # Current
    BY <1>2, <1>4, <1>5, <2>2 DEF AgentInv, OnItsHost, Alone
  <2> QED
    BY <2>1, <2>2
<1>10. ASSUME crashes = 0 PROVE BeforeCrash'
  <2>1. BeforeCrash
    BY <1>10 DEF AgentInv
  <2>2. \A t \in Task : task'[t].status # "recovering"
    BY <1>4, <2>1 DEF BeforeCrash, Alone, RowIs
  <2>3. ASSUME NEW c \in LiveContainers'
        PROVE  task'[ctr'[c].task].cont = c /\ task'[ctr'[c].task].status = "running"
    <3> DEFINE t == ctr[c].task
    <3>0. \A d \in DOMAIN ctr : ctr[d] \in Container
      BY <1>1
    <3>1. c \in LiveContainers /\ ctr[c].task = t /\ ctr'[c].task = t /\ t \in Task
      BY <1>2, <1>5, <2>3, <3>0 DEF Container
    <3>2. Starting(c) \/ (task[t].cont = c /\ task[t].status = "running")
      BY <2>1, <3>1 DEF BeforeCrash
    <3> HIDE DEF t
    <3> QED
      BY <1>3, <1>4, <3>1, <3>2 DEF Starting, Alone, RowIs
  <2> QED
    BY <1>6, <2>2, <2>3 DEF BeforeCrash
<1> QED
  BY <1>2, <1>6, <1>8, <1>9, <1>10 DEF AgentInv

LEMMA DispatchAgents ==
  ASSUME ~ Glitches, IInv, IInv', FreshInv, AgentInv, UNCHANGED storeFaults, DispatchPending
  PROVE  AgentInv'
<1> USE DEF At, tables, world, budget
<1>1. LoopOK /\ task \in TaskTable /\ storeFaults \in Nat /\ ctr \in Seq(Container)
  BY IInvParts DEF RestOK
<1>2. ~ StoreFails
  BY <1>1
<1>3. NoContainer \notin LiveContainers
  BY <1>1, ContainersFinite DEF LiveContainers
<1>4. CASE ListPending
  <2>1. phase = "dispatch" /\ pc = "list" /\ UNCHANGED <<task, ctr, dead, crashes>>
    BY <1>4 DEF ListPending
  <2>2. NoneLaunched
    BY <2>1, SameNoneLaunched
  <2>3. StoppedFirst' /\ pc' # "start" /\ phase' \notin {"down", "recover"}
    <3>1. EnterPhase(NextPhase["dispatch"]) \/ \E S : ListInto(S)
      BY <1>4 DEF ListPending
    <3> QED
      BY <1>1, <2>1, <2>2, <3>1, ListIntoStopped, EnterStopped, NextPhaseType DEF TaskPhases, Phases
  <2> QED
    BY <2>1, <2>2, <2>3, Stays, AgentsKept DEF RowGoesOn
<1>5. CASE RejectRead \/ NoCapacity \/ Assign \/ FailDispatch
  <2>1. phase = "dispatch" /\ pc \in {"next", "fail"} /\ UNCHANGED <<ctr, dead, crashes>>
    BY <1>5 DEF RejectRead, NoCapacity, Assign, FailDispatch
  <2>2. /\ NoneLaunched /\ NoContainer \notin LiveContainers'
        /\ Current \in Task /\ todo # {} /\ InTable(task, Current) /\ task[Current].cont = NoContainer
    BY <1>3, <2>1, SameNoneLaunched, HandFresh
       DEF RowOK, HandledAs, HandledPCs, ListedAs, Phases
  <2>3. ASSUME Continue, RowGoesOn PROVE AgentInv'
    <3>1. StoppedFirst' /\ pc' # "start" /\ phase' \notin {"down", "recover"}
      BY <1>1, <2>1, <2>2, <2>3, ContinueStopped DEF TaskPhases
    <3> QED
      BY <2>1, <2>2, <2>3, <3>1, AgentsKept
  <2>4. CASE RejectRead \/ FailDispatch
    <3>1. task' = UpdateTaskStatus(task, Current, "failed") /\ Continue
      BY <1>2, <2>4 DEF RejectRead, FailDispatch, Write
    <3>2. /\ Alone(Current)
          /\ RowIs(task'[Current], "failed", task[Current].inst, task[Current].cont,
                   task[Current].ready)
      BY <1>1, <2>2, <3>1, Effects DEF TaskStatus
    <3> QED
      BY <2>2, <2>3, <3>1, <3>2 DEF RowGoesOn, RowIs
  <2>5. CASE NoCapacity
    BY <2>3, <2>5, Stays DEF NoCapacity, RowGoesOn
  <2>6. CASE Assign
    <3> DEFINE i == Min(AvailableInstances)
    <3>1. task' = AssignTask(task, Current, i) /\ pc' = "run" /\ UNCHANGED <<phase, todo, snap>>
      BY <1>2, <2>6 DEF Assign
    <3> HIDE DEF i
    <3>2. /\ Alone(Current)
          /\ RowIs(task'[Current], "provisioning", i, task[Current].cont, task[Current].ready)
      BY <1>1, <2>2, <3>1, Effects
    <3>3. StoppedFirst' /\ RowGoesOn
      BY <2>1, <2>2, <3>1, <3>2 DEF StoppedFirst, RowGoesOn, RowIs
    <3> QED
      BY <2>1, <2>2, <3>1, <3>3, AgentsKept
  <2> QED
    BY <1>5, <2>4, <2>5, <2>6
<1> QED
  BY <1>4, <1>5, RunAgents, StartAgents DEF DispatchPending

\* Hosts go, and their containers with them.
LEMMA HostsAgents ==
  ASSUME IInv, AgentInv, NEW S, ctr' = WithoutHosts(S), dead' = dead \cup S,
         UNCHANGED <<task, crashes>>, NEW p \in Phases \ {"down", "recover"},
         UNCHANGED loop \/ (EnterPhase(p) /\ pc # "start")
  PROVE  AgentInv'
<1>1. /\ NoneLaunched /\ ctr \in Seq(Container)
      /\ \A c \in LiveContainers' : ctr[c].inst \notin S
  BY HostsNoneLaunched DEF IInv, TypeOK
<1>2. /\ LiveContainers' \subseteq LiveContainers /\ LiveContainers \subseteq DOMAIN ctr
      /\ DOMAIN ctr' = DOMAIN ctr
      /\ \A c \in DOMAIN ctr : ctr'[c].task = ctr[c].task /\ ctr'[c].inst = ctr[c].inst
      /\ \A t : Newest(t)' = Newest(t)
  BY <1>1, KeptLaunches DEF NoneLaunched, ContainersKept, LiveContainers
<1>3. \A c \in LiveContainers' : ctr'[c].inst \notin dead'
  BY <1>1, <1>2 DEF AgentInv
<1>4. \A t \in Task : OnItsHost(t)'
  BY <1>2 DEF AgentInv, OnItsHost
<1>5. CASE UNCHANGED loop
  <2>1. Current' = Current /\ phase' = phase /\ pc' = pc /\ UNCHANGED <<todo, snap, chosen>>
    BY <1>5 DEF Current, loop
  <2>2. StoppedFirst'
    BY <1>2, <2>1 DEF AgentInv, StoppedFirst
  <2>3. pc' = "start" =>
          /\ Newest(Current)' \in DOMAIN ctr'
          /\ Newest(Current)' \in LiveContainers' => ctr'[Newest(Current)'].inst = chosen'
    <3>1. Newest(Current)' = Newest(Current)
      BY <1>2, <2>1
    <3> QED
      BY <1>2, <2>1, <3>1 DEF AgentInv
  <2>4. ASSUME crashes = 0 PROVE BeforeCrash'
    <3>0. Newest(Current)' = Newest(Current)
      BY <1>2, <2>1
    <3>1. BeforeCrash
      BY <2>4 DEF AgentInv
    <3>2. ASSUME NEW c \in LiveContainers'
          PROVE  \/ Starting(c)'
                 \/ task'[ctr'[c].task].cont = c /\ task'[ctr'[c].task].status = "running"
      BY <1>2, <2>1, <3>0, <3>1 DEF BeforeCrash, Starting
    <3> QED
      BY <2>1, <3>1, <3>2 DEF BeforeCrash
  <2> QED
    BY <1>3, <1>4, <2>2, <2>3, <2>4 DEF AgentInv
<1>6. CASE EnterPhase(p) /\ pc # "start"
  <2>1. StoppedFirst' /\ pc' # "start" /\ phase' \notin {"down", "recover"}
    BY <1>6, EnterStopped
  <2>2. ASSUME crashes = 0 PROVE BeforeCrash'
    <3>1. BeforeCrash
      BY <2>2 DEF AgentInv
    <3>2. \A c \in LiveContainers' :
            task'[ctr'[c].task].cont = c /\ task'[ctr'[c].task].status = "running"
      BY <1>2, <1>6, <3>1 DEF BeforeCrash, Starting
    <3> QED
      BY <2>1, <3>1, <3>2 DEF BeforeCrash
  <2> QED
    BY <1>3, <1>4, <2>1, <2>2 DEF AgentInv
<1> QED
  BY <1>5, <1>6

\* A step beside the loops: a container ends, or a task that has none is queued.
LEMMA BesideAgents ==
  ASSUME IInv, AgentInv, NoneLaunched, UNCHANGED <<loop, dead, crashes>>,
         \A t \in Task : \/ task'[t] = task[t]
                         \/ /\ task[t].status \in {"new", "failed"}
                            /\ task'[t].status = "pending" /\ task'[t].cont = NoContainer
  PROVE  AgentInv'
<1>1. ctr \in Seq(Container)
  BY DEF IInv, TypeOK
<1>2. /\ LiveContainers' \subseteq LiveContainers /\ LiveContainers \subseteq DOMAIN ctr
      /\ DOMAIN ctr' = DOMAIN ctr /\ NoContainer \notin LiveContainers
      /\ \A c \in DOMAIN ctr : ctr'[c].task = ctr[c].task /\ ctr'[c].inst = ctr[c].inst
      /\ \A t : Newest(t)' = Newest(t)
  BY <1>1, KeptLaunches, ContainersFinite DEF NoneLaunched, ContainersKept, LiveContainers
<1>3. \A c \in LiveContainers' : ctr'[c].inst \notin dead'
  BY <1>2 DEF AgentInv
<1>4. ASSUME NEW t \in Task PROVE OnItsHost(t)'
  BY <1>2 DEF AgentInv, OnItsHost
<1>5. Current' = Current /\ phase' = phase /\ pc' = pc /\ UNCHANGED <<todo, snap, chosen>>
  BY DEF Current, loop
<1>6. StoppedFirst'
  BY <1>2, <1>5 DEF AgentInv, StoppedFirst
<1>7. pc' = "start" =>
        /\ Newest(Current)' \in DOMAIN ctr'
        /\ Newest(Current)' \in LiveContainers' => ctr'[Newest(Current)'].inst = chosen'
  <2>1. Newest(Current)' = Newest(Current)
    BY <1>2, <1>5
  <2> QED
    BY <1>2, <1>5, <2>1 DEF AgentInv
<1>8. ASSUME crashes = 0 PROVE BeforeCrash'
  <2>1. BeforeCrash
    BY <1>8 DEF AgentInv
  <2>3. Newest(Current)' = Newest(Current)
    BY <1>2, <1>5
  <2>2. ASSUME NEW c \in LiveContainers'
        PROVE  \/ Starting(c)'
               \/ task'[ctr'[c].task].cont = c /\ task'[ctr'[c].task].status = "running"
    <3> DEFINE t == ctr[c].task
    <3>0. \A d \in DOMAIN ctr : ctr[d] \in Container
      BY <1>1
    <3>1. c \in LiveContainers /\ ctr[c].task = t /\ ctr'[c].task = t /\ t \in Task
      BY <1>2, <2>2, <3>0 DEF Container
    <3>2. Starting(c) \/ (task[t].cont = c /\ task[t].status = "running")
      BY <2>1, <3>1 DEF BeforeCrash
    <3> HIDE DEF t
    <3>3. Starting(c) \/ (task'[t].cont = c /\ task'[t].status = "running")
      BY <3>1, <3>2
    <3> QED
      BY <1>5, <2>3, <3>1, <3>3 DEF Starting
  <2>4. \A t \in Task : task'[t].status # "recovering"
    BY <2>1 DEF BeforeCrash
  <2>5. phase' = "recover" => \A t \in Task : task'[t].status \in {"new", "pending"}
    BY <1>5, <2>1 DEF BeforeCrash
  <2> QED
    BY <1>5, <2>1, <2>2, <2>4, <2>5 DEF BeforeCrash
<1> QED
  BY <1>3, <1>4, <1>6, <1>7, <1>8 DEF AgentInv

LEMMA ApiAgents ==
  ASSUME Ops \subseteq {"retry"}, IInv, FreshInv, AgentInv, ApiStep
  PROVE  AgentInv'
<1> USE DEF world, budget
<1>1. RestOK
  BY IInvParts
<1>2. UNCHANGED <<ctr, dead, loop, crashes>>
  BY DEF ApiStep, Create, BeginCancel, BeginDelete, BeginRetry, Admit,
         FinishCancel, FinishDelete, FinishRetry, Finish
<1>3. NoneLaunched
  BY <1>2, SameNoneLaunched
<1>4. ASSUME NEW u \in Task, task[u].status \in {"new", "failed"}, Alone(u),
             task'[u].status = "pending", task'[u].cont = NoContainer
      PROVE  AgentInv'
  BY <1>2, <1>3, <1>4, BesideAgents DEF Alone
<1>5. ASSUME UNCHANGED task PROVE AgentInv'
  BY <1>2, <1>3, <1>5, BesideAgents
<1>6. ASSUME NEW u \in Task, Create(u) PROVE AgentInv'
  <2>1. task[u].status = "new" /\ Alone(u) /\ task'[u] = [EmptyRow EXCEPT !.status = "pending"]
    BY <1>1, <1>6 DEF Create, CreateTask, RestOK, TaskTable, Alone
  <2>2. task'[u].status = "pending" /\ task'[u].cont = NoContainer
    BY <2>1 DEF EmptyRow
  <2> QED
    BY <1>4, <2>1, <2>2
<1>7. ASSUME NEW r \in Requests, FinishCancel(r) \/ FinishDelete(r) PROVE FALSE
  <2>1. req[r].op \in {"none", "retry"}
    BY <1>1 DEF RestOK
  <2> QED
    BY <1>7, <2>1 DEF FinishCancel, FinishDelete, Finish
<1>8. ASSUME NEW r \in Requests, FinishRetry(r) PROVE AgentInv'
  <2> DEFINE u == req[r].task
             row == [task[u] EXCEPT !.status = "pending", !.inst = NoInstance,
                                    !.cont = NoContainer, !.started = FALSE,
                                    !.ready = FALSE, !.uretry = @ + 1]
  <2>1. u \in Task
    BY <1>1, <1>8 DEF FinishRetry, Finish, RestOK, RequestShape, NoRequest
  <2>2. row.status = "pending" /\ row.cont = NoContainer
    BY <1>1, <2>1 DEF RestOK, TaskTable, Row
  <2>3. task' = task \/ (RetryAllowed(task[u]) /\ task' = UpdateRow(task, u, row))
    BY <1>8, Zenon DEF FinishRetry, Finish, RetryTask
  <2> HIDE DEF row, u
  <2>4. CASE task' # task
    <3>1. Alone(u) /\ task'[u] = row
      BY <1>1, <2>1, <2>3, <2>4 DEF UpdateRow, Alone, RestOK, TaskTable
    <3>2. FreshRow(u) /\ task[u].ready
      BY <2>1, <2>3, <2>4 DEF FreshInv, RetryAllowed
    <3> QED
      BY <1>4, <2>1, <2>2, <3>1, <3>2 DEF FreshRow
  <2> QED
    BY <1>5, <2>4
<1>9. ASSUME NEW r \in Requests, NEW u \in Task,
             BeginCancel(r, u) \/ BeginDelete(r, u) \/ BeginRetry(r, u)
      PROVE  AgentInv'
  BY <1>5, <1>9 DEF BeginCancel, BeginDelete, BeginRetry, Admit, tables
<1> QED
  BY <1>6, <1>7, <1>8, <1>9 DEF ApiStep

LEMMA WorldAgents ==
  ASSUME IInv, AgentInv, WorldStep
  PROVE  AgentInv'
<1> USE DEF tables, world, budget
<1>1. ctr \in Seq(Container) /\ FirstPhase \in Phases \ {"down", "recover"} /\ crashes \in Nat
  BY NextPhaseType DEF IInv, TypeOK, Phases
<1>2. ASSUME NEW c \in DOMAIN ctr, Exit(c) \/ Reclaim(c) PROVE AgentInv'
  <2>1. /\ c \in LiveContainers /\ UNCHANGED <<task, loop, dead, crashes>>
        /\ \E st \in ContainerState \ {"live"} : ctr' = [ctr EXCEPT ![c].st = st]
    BY <1>2 DEF Exit, Reclaim, ContainerState
  <2>2. NoneLaunched
    BY <1>1, <2>1, StateNoneLaunched
  <2> QED
    BY <2>1, <2>2, BesideAgents
<1>3. ASSUME NEW i \in Instance, HostDies(i) PROVE AgentInv'
  BY <1>1, <1>3, HostsAgents DEF HostDies
<1>4. ASSUME NEW t \in Task, Expire(t) PROVE AgentInv'
  BY <1>4, SameNoneLaunched, BesideAgents DEF Expire
<1>5. CASE Crash \/ Restart
  <2>1. UNCHANGED <<task, ctr, dead>> /\ (EnterPhase("down") \/ EnterPhase("recover"))
    BY <1>5 DEF Crash, Restart
  <2>2. crashes' # 0
    <3>1. CASE Crash
      BY <1>1, <3>1 DEF Crash
    <3>2. CASE Restart
      BY <3>2 DEF Restart, AgentInv, BeforeCrash
    <3> QED
      BY <1>5, <3>1, <3>2
  <2>3. LiveContainers' = LiveContainers
    BY <2>1, SameNoneLaunched
  <2>4. StoppedFirst' /\ pc' = "list"
    BY <2>1 DEF EnterPhase, StoppedFirst
  <2> QED
    BY <2>1, <2>2, <2>3, <2>4 DEF AgentInv, OnItsHost
<1> QED
  BY <1>2, <1>3, <1>4, <1>5 DEF WorldStep

LEMMA AgentNext ==
  ASSUME Ops \subseteq {"retry"}, ~ Glitches, IInv, IInv', FreshInv, AgentInv,
         UNCHANGED storeFaults, Next
  PROVE  AgentInv'
<1>1. CASE Evaluate
  <2>1. PICK idle : dead' = dead \cup idle /\ ctr' = WithoutHosts(idle)
    BY <1>1 DEF Evaluate
  <2>2. NextPhase["evaluate"] \in Phases \ {"down", "recover"}
    BY NextPhaseType DEF Phases
  <2>3. /\ EnterPhase(NextPhase["evaluate"]) /\ pc # "start" /\ UNCHANGED <<task, crashes>>
    BY <1>1 DEF Evaluate, At, budget
  <2> QED
    BY <2>1, <2>2, <2>3, HostsAgents
<1> QED
  BY <1>1, RecoverAgents, SpotAgents, MonitorAgents, SharedAgents, DispatchAgents, ApiAgents,
     WorldAgents DEF Next, OrchestratorStep

AgentOK == storeFaults = 0 => AgentInv

LEMMA AgentInit == ASSUME Init PROVE AgentOK
<1>1. DOMAIN ctr = {} /\ LiveContainers = {}
  BY DEF Init, LiveContainers
<1> QED
  BY <1>1 DEF Init, AgentOK, AgentInv, StoppedFirst, OnItsHost, BeforeCrash, EmptyRow

LEMMA AgentOKNext ==
  ASSUME Ops \subseteq {"retry"}, ~ Glitches, IInv, IInv', FreshOK, AgentOK, [Next]_vars
  PROVE  AgentOK'
<1>1. storeFaults \in Nat
  BY DEF IInv, TypeOK
<1>2. CASE Next
  <2> SUFFICES ASSUME storeFaults' = 0 PROVE AgentInv'
    BY DEF AgentOK
  <2>1. UNCHANGED storeFaults
    BY <1>1, <1>2, StoreFaultsStep
  <2> QED
    BY <1>2, <2>1, AgentNext DEF FreshOK, AgentOK
<1>3. CASE UNCHANGED vars
  <2>1. UNCHANGED <<task, loop, ctr, dead, crashes, storeFaults>>
    BY <1>3 DEF vars, loop
  <2> QED
    BY <2>1, SameNoneLaunched, BesideAgents DEF AgentOK
<1> QED
  BY <1>2, <1>3

LEMMA AgentInvImplies ==
  ASSUME IInv, FreshOK, AgentOK PROVE OneAgentPerTask
<1> SUFFICES ASSUME LaunchesRecorded
             PROVE  /\ \A t \in Task : Cardinality(Launches(t) \cap LiveContainers) <= 1
                    /\ AtRest => \A c \in LiveContainers : task[ctr[c].task].cont = c
  BY DEF OneAgentPerTask
<1>1. FreshInv /\ AgentInv /\ BeforeCrash
  BY DEF LaunchesRecorded, FreshOK, AgentOK, AgentInv
<1>2. ASSUME AtRest, NEW c \in LiveContainers PROVE task[ctr[c].task].cont = c
  BY <1>1, <1>2 DEF BeforeCrash, Starting, AtRest
<1>3. ASSUME NEW t \in Task PROVE Cardinality(Launches(t) \cap LiveContainers) <= 1
  <2> DEFINE S == Launches(t) \cap LiveContainers
             x == IF pc = "start" /\ t = Current THEN Newest(Current) ELSE task[t].cont
  <2>1. pc = "start" => task[Current].status = "provisioning"
    BY <1>1, HandFresh DEF HandledAs, HandledPCs
  <2>2. ASSUME NEW c \in S PROVE c = x
    <3>1. ctr[c].task = t /\ c \in LiveContainers
      BY <2>2 DEF Launches
    <3> QED
      BY <1>1, <2>1, <3>1 DEF BeforeCrash, Starting
  <2> HIDE DEF x
  <2>3. S \subseteq {x}
    BY <2>2
  <2>4. IsFiniteSet({x}) /\ Cardinality({x}) = 1
    BY FS_Singleton
  <2> HIDE DEF S
  <2>5. Cardinality(S) <= Cardinality({x})
    BY <2>3, <2>4, FS_Subset
  <2>6. Cardinality(S) <= 1
    BY <2>4, <2>5
  <2> QED
    BY <2>6 DEF S
<1> QED
  BY <1>2, <1>3

\* Until the server crashes or a statement fails, and while nobody cancels or
\* deletes and the calls to containers do what they report, a task never has two
\* agents at work, and between ticks every agent at work is the one its task
\* names: a requeued task has no container left when it is launched again.
THEOREM AgentsAlone ==
  ASSUME Ops \subseteq {"retry"}, ~ Glitches
  PROVE  Spec => []OneAgentPerTask
<1>1. Init => FreshOK /\ AgentOK
  BY FreshInit, AgentInit
<1>2. IInv /\ FreshOK /\ [Next]_vars => FreshOK'
  BY FreshOKNext
<1>3. IInv /\ IInv' /\ FreshOK /\ AgentOK /\ [Next]_vars => AgentOK'
  BY AgentOKNext
<1>4. IInv /\ FreshOK /\ AgentOK => OneAgentPerTask
  BY AgentInvImplies
<1> QED
  BY <1>1, <1>2, <1>3, <1>4, Invariance, PTL DEF Spec

-----------------------------------------------------------------------------
(* Slots of instances, up to the second crash.                               *)

\* The slot that the task in hand has lost in its row but not on its instance.
Owes(i) ==
  IF pc \in {"release", "releaseCompleted"} /\ snap[Current].inst = i THEN 1 ELSE 0

CoveredOn(i) ==
  inst[i].status # "terminated" => inst[i].count >= Cardinality(HeldOn(i)) + Owes(i)

\* A first recovery finds no task recovering, and has listed every task that
\* holds a slot before it moves one: the counters are rebuilt from that list.
ListedToRecover ==
  /\ phase = "down" \/ (phase = "recover" /\ pc \in {"list", "listProvisioning", "listRecovering"})
       => \A t \in Task : task[t].status # "recovering"
  /\ phase = "recover" /\ pc # "list" =>
       \A t \in Holding : snap[t].status = "running" /\ snap[t].inst = task[t].inst
  /\ phase = "recover" /\ pc \in {"listProvisioning", "listRecovering"} => Holding \subseteq todo

NeverCrashed ==
  /\ phase # "down"
  /\ phase = "recover" => \A t \in Task : task[t].status \in {"new", "pending"}
  /\ \A t \in Task : task[t].status # "recovering"

SlotInv ==
  /\ phase \notin {"down", "recover"} => \A i \in Instance : CoveredOn(i)
  /\ \A i \in Instance : inst[i].status = "none" => HeldOn(i) = {}
  /\ pc \in {"run", "start", "fail"} => chosen \in Instance /\ inst[chosen].status = "running"
  /\ pc = "start" => Newest(Current) # NoContainer
  /\ \A t \in Task : task[t].status = "running" => task[t].cont # NoContainer
  /\ ListedToRecover
  /\ crashes = 0 => NeverCrashed

\* Fewer tasks, no greater number of them.
LEMMA FewerTasks ==
  ASSUME NEW S \in SUBSET Task, NEW R \in SUBSET S
  PROVE  Cardinality(R) \in Nat /\ Cardinality(S) \in Nat /\ Cardinality(R) <= Cardinality(S)
<1>1. IsFiniteSet(S)
  BY TasksFinite
<1> QED
  BY <1>1, FS_Subset, FS_CardinalityType

\* What a step may do to the row of the task in hand without taking a slot.
KeepsNoSlot ==
  /\ Alone(Current)
  /\ \/ task'[Current] = task[Current]
     \/ task'[Current].status \notin {"running", "recovering", "cancelled"}
     \/ /\ crashes # 0
        /\ task'[Current].status = "recovering" /\ task'[Current].cont = NoContainer
     \/ /\ crashes # 0 \/ task'[Current].status = "running"
        /\ task[Current].status \in {"running", "recovering"}
        /\ task'[Current].status \in {"running", "recovering"}
        /\ task[Current].cont # NoContainer
        /\ task'[Current].cont = task[Current].cont /\ task'[Current].inst = task[Current].inst

LEMMA NoSlotTaken ==
  ASSUME KeepsNoSlot
  PROVE  /\ Holding' \subseteq Holding
         /\ \A t \in Holding' : task'[t].inst = task[t].inst
         /\ \A i : HeldOn(i)' \subseteq HeldOn(i)
<1>1. ASSUME NEW t \in Holding' PROVE t \in Holding /\ task'[t].inst = task[t].inst
  <2>1. /\ t \in Task /\ task'[t].cont # NoContainer
        /\ task'[t].status \in {"running", "recovering", "cancelled"}
    BY <1>1 DEF Holding
  <2>2. CASE t = Current
    BY <2>1, <2>2 DEF KeepsNoSlot, Holding
  <2>3. CASE t # Current
    BY <2>1, <2>3 DEF KeepsNoSlot, Alone, Holding
  <2> QED
    BY <2>2, <2>3
<1>2. ASSUME NEW i PROVE HeldOn(i)' \subseteq HeldOn(i)
  BY <1>1 DEF HeldOn
<1> QED
  BY <1>1, <1>2

\* An instance keeps its count, comes into service with no task on it, or is
\* terminated.
InstancesGoOn ==
  \A i \in Instance :
    \/ inst'[i].status = "terminated"
    \/ inst[i].status = "none" /\ inst'[i].status # "none"
    \/ /\ inst[i].status # "terminated" /\ inst'[i].count = inst[i].count
       /\ inst'[i].status = "none" => inst[i].status = "none"

LEMMA SameInstances == ASSUME inst \in InstanceTable, UNCHANGED inst PROVE InstancesGoOn
BY DEF InstancesGoOn

LEMMA SlotsKept ==
  ASSUME IInv, IInv', SlotInv, KeepsNoSlot, InstancesGoOn, UNCHANGED crashes,
         phase \notin {"down", "recover"}, phase' \notin {"down", "recover"},
         pc' \notin {"start", "release", "releaseCompleted"},
         pc' \in {"run", "fail"} => chosen' \in Instance /\ inst'[chosen'].status = "running"
  PROVE  SlotInv'
<1>1. inst \in InstanceTable /\ inst' \in InstanceTable
  BY DEF IInv, TypeOK
<1>2. ASSUME NEW i \in Instance
      PROVE  CoveredOn(i)' /\ (inst'[i].status = "none" => HeldOn(i)' = {})
  <2>1. /\ inst[i].count \in Nat /\ inst'[i].count \in Nat
        /\ Owes(i) \in {0, 1} /\ Owes(i)' = 0
    BY <1>1 DEF InstanceTable, InstanceRow, Owes
  <2>2. HeldOn(i)' \subseteq HeldOn(i) /\ HeldOn(i) \in SUBSET Task
    BY NoSlotTaken DEF HeldOn, Holding
  <2>3. /\ Cardinality(HeldOn(i)) \in Nat /\ Cardinality(HeldOn(i)') \in Nat
        /\ Cardinality(HeldOn(i)') <= Cardinality(HeldOn(i))
    BY <2>2, FewerTasks
  <2>4. CoveredOn(i) /\ (inst[i].status = "none" => HeldOn(i) = {})
    BY DEF SlotInv
  <2>5. HeldOn(i)' = {} => Cardinality(HeldOn(i)') = 0
    BY FS_EmptySet
  <2>6. CoveredOn(i)'
    <3> SUFFICES ASSUME inst'[i].status # "terminated"
                 PROVE  inst'[i].count >= Cardinality(HeldOn(i)') + Owes(i)'
      BY DEF CoveredOn
    <3>1. CASE inst[i].status = "none"
      BY <2>1, <2>2, <2>4, <2>5, <3>1
    <3>2. CASE inst[i].status # "terminated" /\ inst'[i].count = inst[i].count
      <4>1. inst[i].count >= Cardinality(HeldOn(i)) + Owes(i)
        BY <2>4, <3>2 DEF CoveredOn
      <4> QED
        BY <2>1, <2>3, <3>2, <4>1
    <3> QED
      BY <3>1, <3>2 DEF InstancesGoOn
  <2> QED
    BY <2>2, <2>4, <2>6 DEF InstancesGoOn
<1>3. ASSUME NEW t \in Task
      PROVE  /\ task'[t].status = "running" => task'[t].cont # NoContainer
             /\ crashes = 0 => task'[t].status # "recovering"
  <2>1. /\ task[t].status = "running" => task[t].cont # NoContainer
        /\ crashes = 0 => task[t].status # "recovering"
    BY DEF SlotInv, NeverCrashed
  <2> QED
    BY <2>1 DEF KeepsNoSlot, Alone
<1>4. ListedToRecover' /\ (crashes' = 0 => NeverCrashed')
  BY <1>3 DEF ListedToRecover, NeverCrashed
<1> QED
  BY <1>2, <1>3, <1>4 DEF SlotInv

\* A step beside the loops.
LEMMA BesideSlots ==
  ASSUME IInv, SlotInv, ContainersKept, UNCHANGED <<loop, inst, crashes>>,
         \A t \in Task : \/ task'[t] = task[t]
                         \/ task'[t].status = "pending" /\ task'[t].cont = NoContainer
  PROVE  SlotInv'
<1>1. inst \in InstanceTable /\ UNCHANGED <<phase, pc, todo, snap, chosen>> /\ Current' = Current
  BY DEF IInv, TypeOK, loop, Current
<1>2. \A t \in Holding' : t \in Holding /\ task'[t] = task[t]
  BY DEF Holding
<1>3. ASSUME NEW i \in Instance
      PROVE  /\ CoveredOn(i) => CoveredOn(i)'
             /\ inst'[i].status = "none" => HeldOn(i)' = {}
  <2>1. HeldOn(i)' \subseteq HeldOn(i) /\ HeldOn(i) \in SUBSET Task
    BY <1>2 DEF HeldOn, Holding
  <2>2. /\ Cardinality(HeldOn(i)) \in Nat /\ Cardinality(HeldOn(i)') \in Nat
        /\ Cardinality(HeldOn(i)') <= Cardinality(HeldOn(i))
    BY <2>1, FewerTasks
  <2>3. inst[i].count \in Nat /\ Owes(i) \in {0, 1} /\ Owes(i)' = Owes(i)
    BY <1>1 DEF InstanceTable, InstanceRow, Owes
  <2> QED
    BY <2>1, <2>2, <2>3 DEF CoveredOn, SlotInv
<1>4. pc' = "start" => Newest(Current)' # NoContainer
  <2>1. \A t : Newest(t)' = Newest(t)
    BY KeptLaunches
  <2>2. Newest(Current)' = Newest(Current)
    BY <1>1, <2>1
  <2> QED
    BY <1>1, <2>2 DEF SlotInv
<1>5. ListedToRecover'
  <2>1. ListedToRecover
    BY DEF SlotInv
  <2> QED
    BY <1>1, <1>2, <2>1 DEF ListedToRecover
<1>6. crashes' = 0 => NeverCrashed'
  BY <1>1 DEF SlotInv, NeverCrashed
<1> QED
  BY <1>1, <1>3, <1>4, <1>5, <1>6 DEF SlotInv

LEMMA ContinueUp ==
  ASSUME LoopOK, phase \in TaskPhases, todo # {}, Continue
  PROVE  pc' \in {"next", "list"} /\ phase' \notin {"down", "recover"}
BY ContinueOK DEF LoopOK, TaskPhases, Phases

LEMMA ListIntoUp ==
  ASSUME LoopOK, phase \in TaskPhases, NEW S, ListInto(S)
  PROVE  pc' \in {"next", "list"} /\ phase' \notin {"down", "recover"}
BY NextPhaseType DEF ListInto, EnterPhase, LoopOK, TaskPhases, Phases

\* Where the row, or the instances, change and the loop goes on.
LEMMA GoesOnSlots ==
  ASSUME IInv, IInv', SlotInv, KeepsNoSlot, InstancesGoOn, UNCHANGED crashes,
         phase \in TaskPhases,
         \/ Continue /\ todo # {}
         \/ \E S : ListInto(S)
         \/ \E label \in {"ready", "kill", "requeue"} : Goto(label)
         \/ \E p \in Phases \ {"down", "recover"} : EnterPhase(p)
  PROVE  SlotInv'
<1>1. LoopOK /\ phase \notin {"down", "recover"}
  BY IInvParts DEF TaskPhases
<1>2. /\ phase' \notin {"down", "recover"}
      /\ pc' \notin {"run", "start", "fail", "release", "releaseCompleted"}
  <2>1. CASE Continue /\ todo # {}
    BY <1>1, <2>1, ContinueUp
  <2>2. CASE \E S : ListInto(S)
    BY <1>1, <2>2, ListIntoUp
  <2>3. CASE \E label \in {"ready", "kill", "requeue"} : Goto(label)
    BY <1>1, <2>3 DEF Goto
  <2>4. CASE \E p \in Phases \ {"down", "recover"} : EnterPhase(p)
    BY <2>4 DEF EnterPhase
  <2> QED
    BY <2>1, <2>2, <2>3, <2>4
<1> QED
  BY <1>1, <1>2, SlotsKept

LEMMA ScaledUpGoesOn ==
  ASSUME inst \in InstanceTable, inst' \in ScaledUp(inst)
  PROVE  InstancesGoOn
<1> DEFINE fresh == InstancesWith(inst, "none")
           i == Min(fresh)
<1>1. CASE inst' = inst
  BY <1>1, SameInstances
<1>2. CASE fresh # {} /\ inst' = [inst EXCEPT ![i] = [status |-> "pending", count |-> 0]]
  <2>1. fresh \in SUBSET Nat
    BY DEF InstancesWith, Instance
  <2>2. i \in fresh
    <3> HIDE DEF fresh
    <3> QED
      BY <1>2, <2>1, MinInSet
  <2>3. i \in Instance /\ inst[i].status = "none"
    BY <2>2 DEF InstancesWith
  <2> HIDE DEF i
  <2>4. inst'[i].status = "pending" /\ \A j \in Instance \ {i} : inst'[j] = inst[j]
    BY <1>2, <2>3 DEF InstanceTable
  <2> QED
    BY <2>3, <2>4 DEF InstancesGoOn
<1> QED
  BY <1>1, <1>2 DEF ScaledUp

\* A status that is set keeps the count, unless it is "terminated".
LEMMA StatusGoesOn ==
  ASSUME inst \in InstanceTable, NEW i \in Instance, NEW s,
         inst' = UpdateInstanceStatus(inst, i, s),
         s = "terminated" \/ (s = "draining" /\ inst[i].status = "running")
  PROVE  InstancesGoOn
<1>1. inst'[i].status = s /\ (s # "terminated" => inst'[i].count = inst[i].count)
  BY DEF UpdateInstanceStatus, InstanceTable
<1>2. \A j \in Instance \ {i} : inst'[j] = inst[j]
  BY DEF UpdateInstanceStatus, InstanceTable
<1> QED
  BY <1>1, <1>2 DEF InstancesGoOn

\* A first recovery.
LEMMA RecoveryKept ==
  ASSUME IInv, SlotInv, KeepsNoSlot, UNCHANGED <<inst, crashes>>, phase' = "recover",
         pc' \notin {"run", "start", "fail"}, crashes # 0 \/ UNCHANGED task, phase = "recover",
         ListedToRecover'
  PROVE  SlotInv'
<1>1. \A i \in Instance : inst'[i].status = "none" => HeldOn(i)' = {}
  BY NoSlotTaken DEF SlotInv
<1>2. \A t \in Task : task'[t].status = "running" => task'[t].cont # NoContainer
  BY DEF SlotInv, KeepsNoSlot, Alone
<1>3. crashes' = 0 => NeverCrashed'
  BY DEF SlotInv, NeverCrashed
<1> QED
  BY <1>1, <1>2, <1>3 DEF SlotInv

LEMMA RecoverSlots ==
  ASSUME IInv, IInv', FreshInv, SlotInv, UNCHANGED storeFaults, Recover
  PROVE  SlotInv'
<1> USE DEF At, tables, world, budget
<1>1. LoopOK /\ task \in TaskTable /\ storeFaults \in Nat /\ inst \in InstanceTable
  BY IInvParts DEF RestOK, IInv, TypeOK
<1>2. ~ StoreFails
  BY <1>1
<1>3. /\ phase = "recover" /\ UNCHANGED crashes /\ ListedToRecover
      /\ crashes = 0 => \A t \in Task : task[t].status \in {"new", "pending"}
  BY DEF Recover, ListOrphansRunning, ListOrphansProvisioning, Collect, SlotInv, NeverCrashed,
         ListOrphansRecovering, MarkRecovering, ClearProvisioned, RebuildCounters
<1>4. \A t \in Holding : /\ t \in Task /\ task[t].cont # NoContainer
                         /\ task[t].status \in {"running", "recovering"}
  BY DEF Holding, FreshInv, FreshRow
<1>5. CASE ListOrphansRunning
  <2>1. /\ pc = "list" /\ pc' = "listProvisioning" /\ UNCHANGED <<task, inst, phase>>
        /\ snap' = [t \in Task |-> IF task[t].status = "running" THEN task[t] ELSE snap[t]]
        /\ todo' = todo \cup WithStatus(task, "running")
    BY <1>2, <1>5 DEF ListOrphansRunning, Collect
  <2>2. Holding' = Holding /\ \A t \in Holding : task[t].status = "running"
    BY <1>3, <1>4, <2>1 DEF Holding, ListedToRecover
  <2>3. ListedToRecover'
    BY <1>3, <1>4, <2>1, <2>2 DEF ListedToRecover, WithStatus
  <2> QED
    BY <1>3, <2>1, <2>3, Stays, RecoveryKept DEF KeepsNoSlot
<1>6. CASE ListOrphansProvisioning
  <2>1. /\ pc = "listProvisioning" /\ pc' = "listRecovering" /\ UNCHANGED <<task, inst, phase>>
        /\ snap' = [t \in Task |-> IF task[t].status = "provisioning" THEN task[t] ELSE snap[t]]
        /\ todo' = todo \cup WithStatus(task, "provisioning")
    BY <1>2, <1>6 DEF ListOrphansProvisioning, Collect
  <2>2. Holding' = Holding /\ \A t \in Holding : task[t].status # "provisioning"
    BY <1>4, <2>1 DEF Holding
  <2>3. ListedToRecover'
    BY <1>3, <1>4, <2>1, <2>2 DEF ListedToRecover
  <2> QED
    BY <1>3, <2>1, <2>3, Stays, RecoveryKept DEF KeepsNoSlot
<1>7. CASE ListOrphansRecovering
  <2>1. pc = "listRecovering" /\ UNCHANGED <<task, inst>> /\ RecoveringContainers = {}
    BY <1>3, <1>7 DEF ListOrphansRecovering, RecoveringContainers, WithStatus, ListedToRecover
  <2>2. CASE todo = {} /\ EnterPhase(FirstPhase)
    <3>1. Holding' = {}
      BY <1>3, <2>1, <2>2 DEF ListedToRecover, Holding
    <3>2. phase' = FirstPhase /\ pc' = "list" /\ FirstPhase \notin {"down", "recover"}
      BY <2>2, NextPhaseType DEF EnterPhase
    <3>3. ASSUME NEW i \in Instance PROVE CoveredOn(i)' /\ HeldOn(i)' = {}
      <4>1. HeldOn(i)' = {} /\ Owes(i)' = 0 /\ inst'[i].count \in Nat
        BY <1>1, <2>1, <3>1, <3>2 DEF HeldOn, Owes, InstanceTable, InstanceRow
      <4> QED
        BY <4>1, FS_EmptySet DEF CoveredOn
    <3>4. ListedToRecover' /\ (crashes' = 0 => NeverCrashed')
      BY <1>3, <2>1, <3>2 DEF ListedToRecover, SlotInv, NeverCrashed
    <3> QED
      BY <1>3, <2>1, <3>2, <3>3, <3>4 DEF SlotInv
  <2>3. CASE snap' = [t \in Task |-> IF t \in {} THEN task[t] ELSE snap[t]]
             /\ pc' \in {"finish", "next"} /\ UNCHANGED <<phase, todo>>
    <3>1. snap' = snap
      BY <1>1, <2>3 DEF LoopOK
    <3>2. Holding' = Holding
      BY <2>1 DEF Holding
    <3>3. ListedToRecover'
      BY <1>3, <2>1, <2>3, <3>1, <3>2 DEF ListedToRecover
    <3> QED
      BY <1>3, <2>1, <2>3, <3>3, Stays, RecoveryKept DEF KeepsNoSlot
  <2> QED
    BY <1>7, <2>1, <2>2, <2>3 DEF ListOrphansRecovering
<1>8. CASE MarkRecovering \/ ClearProvisioned
  <2>1. pc \in {"next", "clear"} /\ pc' \in {"clear", "next", "finish"} /\ pc \notin ListPCs
        /\ UNCHANGED <<inst, snap, phase>>
    BY <1>8 DEF MarkRecovering, ClearProvisioned, Goto, NextOrphan
  <2>2. /\ Current \in Task /\ InTable(task, Current)
        /\ pc = "clear" => task[Current].status = "recovering"
        /\ pc = "next" => task[Current].status \in {"running", "provisioning"}
        /\ task[Current].status = "provisioning" => task[Current].cont = NoContainer
        /\ task[Current].status = "running" => task[Current].cont # NoContainer
    BY <1>3, <2>1, HandFresh DEF HandledPCs, HandledAs, ListedAs, Phases, RowOK, SlotInv
  <2>3. crashes # 0
    BY <1>3, <2>1, <2>2
  <2>4. KeepsNoSlot
    <3>1. CASE MarkRecovering
      <4>1. /\ Alone(Current)
            /\ RowIs(task'[Current], "recovering", task[Current].inst, task[Current].cont,
                     task[Current].ready)
        BY <1>1, <1>2, <2>2, <3>1, Effects DEF MarkRecovering, Write, TaskStatus
      <4> QED
        BY <2>2, <2>3, <3>1, <4>1 DEF KeepsNoSlot, RowIs, MarkRecovering
    <3>2. CASE ClearProvisioned
      <4>1. /\ Alone(Current)
            /\ RowIs(task'[Current], task[Current].status, NoInstance, NoContainer,
                     task[Current].ready)
        BY <1>1, <1>2, <2>2, <3>2, Effects DEF ClearProvisioned, Write
      <4> QED
        BY <2>2, <2>3, <3>2, <4>1 DEF KeepsNoSlot, RowIs, ClearProvisioned
    <3> QED
      BY <1>8, <3>1, <3>2
  <2>5. ListedToRecover'
    BY <1>3, <2>1, <2>4, NoSlotTaken DEF ListedToRecover
  <2> QED
    BY <1>3, <2>1, <2>3, <2>4, <2>5, RecoveryKept
<1>9. CASE RebuildCounters
  <2> DEFINE Here(i) == {t \in WereRunning : snap[t].inst = i}
  <2>1. /\ pc = "finish" /\ phase' = FirstPhase /\ pc' = "list" /\ UNCHANGED task
        /\ inst' = [i \in Instance |->
                      IF Here(i) = {} THEN inst[i]
                                      ELSE [inst[i] EXCEPT !.count = Cardinality(Here(i))]]
    BY <1>9 DEF RebuildCounters, EnterPhase
  <2>2. phase' \notin {"down", "recover"} /\ Holding' = Holding
    BY <2>1, NextPhaseType DEF Holding
  <2>3. ASSUME NEW i \in Instance
        PROVE  CoveredOn(i)' /\ (inst'[i].status = "none" => HeldOn(i)' = {})
    <3>1. Here(i) \in SUBSET Task /\ HeldOn(i)' = HeldOn(i) /\ HeldOn(i) \subseteq Here(i)
      BY <1>3, <1>4, <2>1, <2>2 DEF HeldOn, WereRunning, ListedToRecover
    <3>2. Owes(i)' = 0 /\ inst[i] \in InstanceRow
      BY <1>1, <2>1 DEF Owes, InstanceTable
    <3>3. inst'[i] = IF Here(i) = {} THEN inst[i]
                                     ELSE [inst[i] EXCEPT !.count = Cardinality(Here(i))]
      BY <2>1
    <3> HIDE DEF Here
    <3>4. Cardinality(HeldOn(i)) \in Nat /\ Cardinality(Here(i)) \in Nat
          /\ Cardinality(HeldOn(i)) <= Cardinality(Here(i))
      BY <3>1, FewerTasks
    <3>5. /\ inst'[i].status = inst[i].status
          /\ Here(i) # {} => inst'[i].count = Cardinality(Here(i))
          /\ Here(i) = {} => HeldOn(i) = {} /\ inst'[i].count \in Nat
      BY <3>1, <3>2, <3>3 DEF InstanceRow
    <3>6. HeldOn(i) = {} => Cardinality(HeldOn(i)) = 0
      BY FS_EmptySet
    <3> QED
      BY <3>1, <3>2, <3>4, <3>5, <3>6 DEF CoveredOn, SlotInv
  <2>4. ListedToRecover' /\ (crashes' = 0 => NeverCrashed')
    BY <1>3, <2>1, <2>2 DEF ListedToRecover, SlotInv, NeverCrashed
  <2>5. \A t \in Task : task'[t].status = "running" => task'[t].cont # NoContainer
    BY <2>1 DEF SlotInv
  <2> HIDE DEF Here
  <2> QED
    BY <2>1, <2>2, <2>3, <2>4, <2>5 DEF SlotInv
<1> QED
  BY <1>5, <1>6, <1>7, <1>8, <1>9 DEF Recover

LEMMA SpotSlots ==
  ASSUME IInv, IInv', FreshInv, SlotInv, UNCHANGED storeFaults, CheckInterruptions
  PROVE  SlotInv'
<1> USE DEF At, tables, world, budget
<1>1. LoopOK /\ task \in TaskTable /\ storeFaults \in Nat /\ inst \in InstanceTable
  BY IInvParts DEF RestOK, IInv, TypeOK
<1>2. ~ StoreFails
  BY <1>1
<1>3. phase = "spot" /\ phase \in TaskPhases /\ UNCHANGED crashes
  BY DEF CheckInterruptions, DrainInstance, ListInterrupted, RequeueInterrupted,
         NoMoreInterruptions, TaskPhases
<1>4. CASE DrainInstance
  <2>1. /\ UNCHANGED <<task, phase>> /\ pc' = "listInterrupted"
        /\ \E i \in InstancesWith(inst, "running") :
             inst' = UpdateInstanceStatus(inst, i, "draining")
    BY <1>2, <1>4 DEF DrainInstance, WriteInstance
  <2>2. InstancesGoOn
    BY <1>1, <2>1, StatusGoesOn DEF InstancesWith
  <2> QED
    BY <1>3, <2>1, <2>2, Stays, SlotsKept DEF KeepsNoSlot
<1>5. CASE ListInterrupted \/ NoMoreInterruptions
  <2>1. /\ UNCHANGED <<task, inst>>
        /\ \/ \E S : ListInto(S)
           \/ \E p \in Phases \ {"down", "recover"} : EnterPhase(p)
    BY <1>5 DEF ListInterrupted, NoMoreInterruptions, Phases
  <2> QED
    BY <1>1, <1>3, <2>1, Stays, SameInstances, GoesOnSlots DEF KeepsNoSlot
<1>6. CASE RequeueInterrupted
  <2>1. /\ Current \in Task /\ todo # {} /\ InTable(task, Current) /\ Continue /\ UNCHANGED inst
    BY <1>6, HandFresh DEF RequeueInterrupted
  <2>2. Alone(Current) /\ RowIs(task'[Current], "pending", NoInstance, NoContainer, FALSE)
    BY <1>1, <1>2, <1>6, <2>1, Effects DEF RequeueInterrupted, Write
  <2> QED
    BY <1>1, <1>3, <2>1, <2>2, SameInstances, GoesOnSlots DEF KeepsNoSlot, RowIs
<1> QED
  BY <1>4, <1>5, <1>6 DEF CheckInterruptions

\* A container that ends leaves its slot to be released.
LEMMA EndSlots ==
  ASSUME IInv, IInv', FreshInv, SlotInv, UNCHANGED <<inst, crashes>>, phase \in TaskPhases,
         Current \in Task, Alone(Current), task[Current] = snap[Current],
         task[Current].status \in {"running", "recovering"}, task[Current].cont # NoContainer,
         task'[Current].status \in {"completed", "failed"},
         pc \notin {"release", "releaseCompleted"},
         NEW label \in {"release", "releaseCompleted"}, Goto(label)
  PROVE  SlotInv'
<1>1. inst \in InstanceTable
  BY DEF IInv, TypeOK
<1>2. /\ UNCHANGED <<phase, todo, snap, chosen>> /\ pc' = label /\ Current' = Current
      /\ phase \notin {"down", "recover"}
  BY DEF Goto, Current, TaskPhases
<1>3. KeepsNoSlot
  BY DEF KeepsNoSlot
<1>4. ASSUME NEW i \in Instance
      PROVE  CoveredOn(i)' /\ (inst'[i].status = "none" => HeldOn(i)' = {})
  <2>1. HeldOn(i)' \subseteq HeldOn(i) /\ HeldOn(i) \in SUBSET Task /\ IsFiniteSet(HeldOn(i))
    BY <1>3, NoSlotTaken, TasksFinite DEF HeldOn, Holding
  <2>2. CoveredOn(i) /\ (inst[i].status = "none" => HeldOn(i) = {})
    BY <1>2 DEF SlotInv
  <2>3. inst[i].count \in Nat /\ Owes(i) = 0
        /\ Owes(i)' = (IF snap[Current].inst = i THEN 1 ELSE 0)
    BY <1>1, <1>2 DEF InstanceTable, InstanceRow, Owes
  <2>4. CASE snap[Current].inst = i
    <3>1. Current \in HeldOn(i)
      BY <2>4 DEF HeldOn, Holding
    <3>2. Current \notin HeldOn(i)'
      BY DEF HeldOn, Holding
    <3>3. Cardinality(HeldOn(i) \ {Current}) = Cardinality(HeldOn(i)) - 1
      BY <2>1, <3>1, FS_RemoveElement
    <3>4. HeldOn(i)' \in SUBSET (HeldOn(i) \ {Current}) /\ HeldOn(i) \ {Current} \in SUBSET Task
      BY <2>1, <3>2
    <3>5. /\ Cardinality(HeldOn(i)') \in Nat /\ Cardinality(HeldOn(i)) \in Nat
          /\ Cardinality(HeldOn(i)') <= Cardinality(HeldOn(i) \ {Current})
      BY <2>1, <3>4, FewerTasks
    <3>6. Cardinality(HeldOn(i)') + 1 <= Cardinality(HeldOn(i))
      BY <3>3, <3>5
    <3> QED
      BY <2>1, <2>2, <2>3, <2>4, <3>5, <3>6 DEF CoveredOn
  <2>5. CASE snap[Current].inst # i
    <3>1. /\ Cardinality(HeldOn(i)') \in Nat /\ Cardinality(HeldOn(i)) \in Nat
          /\ Cardinality(HeldOn(i)') <= Cardinality(HeldOn(i))
      BY <2>1, FewerTasks
    <3> QED
      BY <2>1, <2>2, <2>3, <2>5, <3>1 DEF CoveredOn
  <2> QED
    BY <2>4, <2>5
<1>5. ASSUME NEW t \in Task
      PROVE  /\ task'[t].status = "running" => task'[t].cont # NoContainer
             /\ crashes = 0 => task'[t].status # "recovering"
  BY DEF SlotInv, NeverCrashed, Alone
<1>6. ListedToRecover' /\ (crashes' = 0 => NeverCrashed')
  BY <1>2, <1>5 DEF ListedToRecover, NeverCrashed
<1> QED
  BY <1>2, <1>4, <1>5, <1>6 DEF SlotInv

\* The slot is released.
LEMMA ReleaseSlots ==
  ASSUME IInv, IInv', FreshInv, SlotInv, UNCHANGED storeFaults, ReleaseSlot
  PROVE  SlotInv'
<1>1. LoopOK /\ inst \in InstanceTable /\ storeFaults \in Nat
  BY IInvParts DEF RestOK, IInv, TypeOK
<1>2. /\ pc \in {"release", "releaseCompleted"} /\ UNCHANGED <<task, crashes>>
      /\ inst' = DecrementRunningContainers(inst, snap[Current].inst)
      /\ phase \in TaskPhases /\ Current \in Task /\ todo # {}
  BY <1>1, HandFresh, LabelPhase DEF ReleaseSlot, WriteInstance, TaskPhases, budget
<1>3. Continue \/ Goto("ready")
  BY HandFresh, <1>2 DEF ReleaseSlot
<1>4. /\ phase' \notin {"down", "recover"}
      /\ pc' \notin {"run", "start", "fail", "release", "releaseCompleted"}
  BY <1>1, <1>2, <1>3, ContinueUp DEF Goto, TaskPhases
<1>5. ASSUME NEW i \in Instance
      PROVE  CoveredOn(i)' /\ (inst'[i].status = "none" => HeldOn(i)' = {})
  <2>1. HeldOn(i)' = HeldOn(i) /\ HeldOn(i) \in SUBSET Task
    BY <1>2 DEF HeldOn, Holding
  <2>2. CoveredOn(i) /\ (inst[i].status = "none" => HeldOn(i) = {})
    BY <1>2 DEF SlotInv, TaskPhases
  <2>3. Cardinality(HeldOn(i)) \in Nat
    BY <2>1, FewerTasks
  <2>4. /\ inst[i].count \in Nat /\ Owes(i)' = 0
        /\ Owes(i) = (IF snap[Current].inst = i THEN 1 ELSE 0)
    BY <1>1, <1>2, <1>4 DEF InstanceTable, InstanceRow, Owes
  <2>5. /\ inst'[i].status = inst[i].status
        /\ snap[Current].inst # i => inst'[i].count = inst[i].count
        /\ snap[Current].inst = i =>
             inst'[i].count = (IF inst[i].count = 0 THEN 0 ELSE inst[i].count - 1)
    <3>1. inst[i] \in InstanceRow /\ NoInstance # i
      BY <1>1 DEF InstanceTable, Instance, NoInstance
    <3> QED
      BY <1>1, <1>2, <3>1 DEF DecrementRunningContainers, InstanceTable, InstanceRow
  <2> QED
    BY <2>1, <2>2, <2>3, <2>4, <2>5 DEF CoveredOn
<1>6. \A t \in Task : /\ task'[t].status = "running" => task'[t].cont # NoContainer
                      /\ crashes = 0 => task'[t].status # "recovering"
  BY <1>2 DEF SlotInv, NeverCrashed
<1>7. ListedToRecover' /\ (crashes' = 0 => NeverCrashed')
  BY <1>2, <1>4, <1>6 DEF ListedToRecover, NeverCrashed
<1> QED
  BY <1>4, <1>5, <1>6, <1>7 DEF SlotInv

LEMMA MonitorSlots ==
  ASSUME IInv, IInv', FreshInv, SlotInv, UNCHANGED storeFaults,
         MonitorCancelled \/ MonitorRecovering \/ MonitorRunning
  PROVE  SlotInv'
<1> USE DEF At, tables, world, budget
<1>1. LoopOK /\ task \in TaskTable /\ storeFaults \in Nat /\ inst \in InstanceTable
  BY IInvParts DEF RestOK, IInv, TypeOK
<1>2. ~ StoreFails
  BY <1>1
<1>3. phase \in {"cancelled", "recovering", "running"} /\ phase \in TaskPhases
      /\ UNCHANGED <<inst, crashes>> /\ InstancesGoOn
  BY <1>1, SameInstances DEF MonitorCancelled, MonitorRecovering, MonitorRunning, ListCancelled,
     CancelledWithoutContainer, StopCancelled, ClearCancelled, ListRecovering, RequeueProvisioned,
     PromoteRecovered, ListRunning, StillRunning, StopToKill, KillTask, TaskPhases
<1>4. CASE ListCancelled \/ ListRecovering \/ ListRunning
  BY <1>3, <1>4, Stays, GoesOnSlots DEF KeepsNoSlot, ListCancelled, ListRecovering, ListRunning
<1>5. CASE CancelledWithoutContainer \/ StopCancelled \/ ClearCancelled
  BY <1>5, HandFresh DEF CancelledWithoutContainer, StopCancelled, ClearCancelled
<1>6. CASE StillRunning \/ RequeueProvisioned \/ StopToKill
  <2>1. UNCHANGED task /\ todo # {}
        /\ (Continue \/ \E label \in {"ready", "kill", "requeue"} : Goto(label))
    BY <1>1, <1>6, InHand DEF StillRunning, RequeueProvisioned, StopToKill, Inspecting
  <2> QED
    BY <1>3, <2>1, Stays, GoesOnSlots DEF KeepsNoSlot
<1>7. CASE PromoteRecovered
  <2>1. /\ Current \in Task /\ InTable(task, Current) /\ task[Current].status = "recovering"
        /\ Continue /\ todo # {} /\ task[Current].cont # NoContainer
    BY <1>1, <1>7, MonitorHand, InHand DEF PromoteRecovered, Inspecting, HandledPCs
  <2>2. /\ Alone(Current)
        /\ RowIs(task'[Current], "running", task[Current].inst, task[Current].cont,
                 task[Current].ready)
    BY <1>1, <1>2, <1>7, <2>1, Effects DEF PromoteRecovered, Write, TaskStatus
  <2> QED
    BY <1>3, <2>1, <2>2, GoesOnSlots DEF KeepsNoSlot, RowIs
<1>8. CASE KillTask
  <2>1. /\ Current \in Task /\ InTable(task, Current) /\ task[Current] = snap[Current]
        /\ task[Current].status = "running" /\ task[Current].cont # NoContainer
        /\ pc = "kill" /\ Goto("release")
    BY <1>8, HandFresh DEF KillTask, HandledPCs, ListedAs, Phases, SlotInv
  <2>2. /\ Alone(Current)
        /\ RowIs(task'[Current], "failed", task[Current].inst, task[Current].cont,
                 task[Current].ready)
    BY <1>1, <1>2, <1>8, <2>1, Effects DEF KillTask, CompleteTask, Write, TaskStatus
  <2> QED
    BY <1>3, <2>1, <2>2, EndSlots DEF RowIs
<1> QED
  BY <1>4, <1>5, <1>6, <1>7, <1>8 DEF MonitorCancelled, MonitorRecovering, MonitorRunning

LEMMA SharedSlots ==
  ASSUME IInv, IInv', FreshInv, SlotInv, UNCHANGED storeFaults, Shared
  PROVE  SlotInv'
<1> USE DEF tables, world, budget
<1>1. LoopOK /\ task \in TaskTable /\ storeFaults \in Nat /\ inst \in InstanceTable
  BY IInvParts DEF RestOK, IInv, TypeOK
<1>2. ~ StoreFails
  BY <1>1
<1>3. CASE ListFails
  BY <1>2, <1>3 DEF ListFails
<1>4. CASE ReleaseSlot
  BY <1>4, ReleaseSlots
<1>5. CASE Shared /\ ~ ListFails /\ ~ ReleaseSlot
  <2>1. pc \notin ListPCs /\ UNCHANGED crashes
    BY <1>5 DEF Shared, CompleteExited, MarkRetryReady, GiveUpInstance, CountInspectFailure,
                Requeue, Inspecting
  <2>2. phase \in {"recovering", "running"} /\ phase \in TaskPhases
    <3>1. phase # "cancelled"
      BY <2>1, HandFresh
    <3> QED
      BY <1>1, <1>5, <3>1, LabelPhase DEF Shared, CompleteExited, MarkRetryReady, GiveUpInstance,
         CountInspectFailure, Requeue, Inspecting, TaskPhases
  <2>3. Current \in Task /\ InTable(task, Current) /\ todo # {}
    BY <2>1, HandFresh
  <2>4. CASE CompleteExited
    <3>1. PICK result \in {"completed", "failed"} :
            /\ task' = UpdateTaskStatus(task, Current, result)
            /\ Goto(IF result = "completed" THEN "releaseCompleted" ELSE "release")
      BY <1>2, <2>4 DEF CompleteExited, CompleteTask, Write
    <3>2. pc = "next" /\ UNCHANGED inst /\ (phase = "recovering" => snap[Current].cont # NoContainer)
      BY <2>4 DEF CompleteExited, Inspecting
    <3>3. task[Current] = snap[Current] /\ task[Current].status \in {"running", "recovering"}
          /\ (task[Current].status = "recovering" => phase = "recovering")
      BY <2>1, <2>2, <3>2, HandFresh DEF HandledPCs, ListedAs, Phases
    <3>4. task[Current].cont # NoContainer
      BY <2>3, <3>2, <3>3 DEF SlotInv
    <3>5. /\ Alone(Current)
          /\ RowIs(task'[Current], result, task[Current].inst, task[Current].cont,
                   task[Current].ready)
      BY <1>1, <2>3, <3>1, Effects DEF TaskStatus
    <3> QED
      BY <2>1, <2>2, <2>3, <3>1, <3>2, <3>3, <3>4, <3>5, EndSlots DEF RowIs
  <2>5. CASE MarkRetryReady
    <3>1. pc = "ready" /\ task' = MarkReadyForRetry(task, Current) /\ Continue /\ UNCHANGED inst
      BY <1>2, <2>5 DEF MarkRetryReady, Write
    <3>2. /\ Alone(Current)
          /\ RowIs(task'[Current], task[Current].status, task[Current].inst, task[Current].cont, TRUE)
      BY <1>1, <2>3, <3>1, Effects
    <3>3. task[Current].status = "failed"
      BY <2>1, <3>1, HandFresh DEF HandledAs, HandledPCs
    <3> QED
      BY <1>1, <2>1, <2>2, <2>3, <3>1, <3>2, <3>3, SameInstances, GoesOnSlots DEF KeepsNoSlot, RowIs
  <2>6. CASE GiveUpInstance
    <3>1. UNCHANGED task /\ Goto("requeue")
          /\ \/ UNCHANGED inst
             \/ /\ snap[Current].inst # NoInstance
                /\ inst' = UpdateInstanceStatus(inst, snap[Current].inst, "terminated")
      BY <1>2, <2>6 DEF GiveUpInstance, WriteInstance
    <3>2. snap[Current].inst \in Instance \cup {NoInstance}
      BY <1>1, <2>3 DEF LoopOK, Row
    <3>3. InstancesGoOn
      BY <1>1, <3>1, <3>2, SameInstances, StatusGoesOn
    <3> QED
      BY <2>1, <2>2, <3>1, <3>3, Stays, GoesOnSlots DEF KeepsNoSlot
  <2>7. CASE CountInspectFailure
    BY <1>1, <2>1, <2>2, <2>3, <2>7, SameInstances, Stays, GoesOnSlots
       DEF CountInspectFailure, KeepsNoSlot
  <2>8. CASE Requeue
    <3>1. task' = RequeueTask(task, Current) /\ Continue /\ inst' \in ScaledUp(inst)
      BY <1>2, <2>8 DEF Requeue, Write
    <3>2. Alone(Current) /\ RowIs(task'[Current], "pending", NoInstance, NoContainer, FALSE)
      BY <1>1, <2>3, <3>1, Effects
    <3>3. InstancesGoOn
      BY <1>1, <3>1, ScaledUpGoesOn
    <3> QED
      BY <2>1, <2>2, <2>3, <3>1, <3>2, <3>3, GoesOnSlots DEF KeepsNoSlot, RowIs
  <2> QED
    BY <1>5, <2>4, <2>5, <2>6, <2>7, <2>8 DEF Shared
<1> QED
  BY <1>3, <1>4, <1>5

\* A launch takes no slot yet, and Start takes the one it launched on.
LEMMA RunSlots ==
  ASSUME IInv, IInv', FreshInv, SlotInv, RunAgent
  PROVE  SlotInv'
<1> USE DEF At, tables, world, budget
<1>1. LoopOK /\ ctr \in Seq(Container) /\ ctr' \in Seq(Container)
  BY IInvParts DEF RestOK, IInv, TypeOK
<1>2. /\ phase = "dispatch" /\ pc = "run" /\ pc' \in {"start", "fail"}
      /\ UNCHANGED <<task, inst, crashes, phase, todo, snap, chosen>>
      /\ pc' = "start" => Launched \/ Relaunched
  BY DEF RunAgent, Goto
<1>3. PICK u \in Task : u = Current /\ u = Current'
  BY <1>2, HandFresh DEF Current
<1>4. pc' = "start" => Newest(Current)' # NoContainer
  <2>1. CASE Launched
    <3>1. Newest(u)' # NoContainer
      BY <1>1, <1>3, <2>1, LaunchAdds DEF Launched
    <3> QED
      BY <1>3, <3>1
  <2>2. CASE Relaunched
    <3>1. ContainersKept
      BY <2>2, SameContainersKept DEF Relaunched
    <3>2. Newest(u)' = Newest(u)
      BY <3>1, KeptLaunches
    <3> QED
      BY <1>3, <2>2, <3>2 DEF Relaunched
  <2> QED
    BY <1>2, <2>1, <2>2
<1>5. ASSUME NEW i \in Instance
      PROVE  CoveredOn(i)' /\ (inst'[i].status = "none" => HeldOn(i)' = {})
  <2>1. HeldOn(i)' = HeldOn(i) /\ Owes(i) = 0 /\ Owes(i)' = 0
    BY <1>2 DEF HeldOn, Holding, Owes
  <2> QED
    BY <1>2, <2>1 DEF SlotInv, CoveredOn
<1>6. ListedToRecover' /\ (crashes' = 0 => NeverCrashed')
  BY <1>2 DEF ListedToRecover, SlotInv, NeverCrashed
<1> QED
  BY <1>2, <1>4, <1>5, <1>6 DEF SlotInv

LEMMA StartSlots ==
  ASSUME IInv, IInv', FreshInv, SlotInv, UNCHANGED storeFaults, Start
  PROVE  SlotInv'
<1> USE DEF At, tables, world, budget
<1>1. LoopOK /\ task \in TaskTable /\ storeFaults \in Nat /\ inst \in InstanceTable
  BY IInvParts DEF RestOK, IInv, TypeOK
<1>2. /\ task' = StartTask(task, Current, Newest(Current)) /\ Continue
      /\ inst' = IncrementRunningContainers(inst, chosen)
      /\ phase = "dispatch" /\ pc = "start" /\ UNCHANGED crashes
  BY <1>1 DEF Start
<1>3. /\ Current \in Task /\ todo # {} /\ InTable(task, Current) /\ task[Current].inst = chosen
      /\ task[Current].status = "provisioning"
  BY <1>2, HandFresh DEF HandledAs, HandledPCs
<1>4. /\ Alone(Current)
      /\ RowIs(task'[Current], "running", chosen, Newest(Current), task[Current].ready)
  BY <1>1, <1>2, <1>3, Effects
<1>5. Newest(Current) # NoContainer /\ chosen \in Instance /\ inst[chosen].status = "running"
  BY <1>2 DEF SlotInv
<1>6. phase' \notin {"down", "recover"} /\ pc' \in {"next", "list"}
  BY <1>1, <1>2, <1>3, ContinueUp DEF TaskPhases
<1>7. ASSUME NEW i \in Instance
      PROVE  CoveredOn(i)' /\ (inst'[i].status = "none" => HeldOn(i)' = {})
  <2>1. CoveredOn(i) /\ (inst[i].status = "none" => HeldOn(i) = {}) /\ Owes(i) = 0 /\ Owes(i)' = 0
    BY <1>2, <1>6 DEF SlotInv, Owes
  <2>2. HeldOn(i) \in SUBSET Task /\ IsFiniteSet(HeldOn(i)) /\ Cardinality(HeldOn(i)) \in Nat
    BY TasksFinite, FS_CardinalityType DEF HeldOn, Holding
  <2>3. /\ inst[i].count \in Nat /\ inst'[i].status = inst[i].status
        /\ inst'[i].count = (IF i = chosen THEN inst[i].count + 1 ELSE inst[i].count)
    <3>1. inst[i] \in InstanceRow /\ inst[chosen] \in InstanceRow
      BY <1>1, <1>5 DEF InstanceTable
    <3> QED
      BY <1>1, <1>2, <1>5, <3>1 DEF IncrementRunningContainers, InstanceTable, InstanceRow
  <2>4. CASE i = chosen
    <3>1. HeldOn(i)' \subseteq HeldOn(i) \cup {Current}
      BY <1>4 DEF HeldOn, Holding, Alone
    <3>2. /\ IsFiniteSet(HeldOn(i) \cup {Current})
          /\ Cardinality(HeldOn(i) \cup {Current})
               \in {Cardinality(HeldOn(i)), Cardinality(HeldOn(i)) + 1}
      BY <2>2, FS_AddElement
    <3>3. HeldOn(i)' \in SUBSET (HeldOn(i) \cup {Current}) /\ HeldOn(i) \cup {Current} \in SUBSET Task
      BY <1>3, <2>2, <3>1
    <3>4. /\ Cardinality(HeldOn(i)') \in Nat
          /\ Cardinality(HeldOn(i)') <= Cardinality(HeldOn(i) \cup {Current})
      BY <3>3, FewerTasks
    <3> QED
      BY <1>5, <2>1, <2>2, <2>3, <2>4, <3>2, <3>4 DEF CoveredOn
  <2>5. CASE i # chosen
    <3>1. HeldOn(i)' \in SUBSET HeldOn(i)
      BY <1>4, <2>5 DEF HeldOn, Holding, Alone, RowIs
    <3>2. /\ Cardinality(HeldOn(i)') \in Nat
          /\ Cardinality(HeldOn(i)') <= Cardinality(HeldOn(i))
      BY <2>2, <3>1, FewerTasks
    <3> QED
      BY <2>1, <2>2, <2>3, <2>5, <3>1, <3>2 DEF CoveredOn
  <2> QED
    BY <2>4, <2>5
<1>8. ASSUME NEW t \in Task
      PROVE  /\ task'[t].status = "running" => task'[t].cont # NoContainer
             /\ crashes = 0 => task'[t].status # "recovering"
  BY <1>4, <1>5 DEF SlotInv, NeverCrashed, Alone, RowIs
<1>9. ListedToRecover' /\ (crashes' = 0 => NeverCrashed')
  BY <1>2, <1>6, <1>8 DEF ListedToRecover, NeverCrashed
<1> QED
  BY <1>6, <1>7, <1>8, <1>9 DEF SlotInv

LEMMA DispatchSlots ==
  ASSUME IInv, IInv', FreshInv, SlotInv, UNCHANGED storeFaults, DispatchPending
  PROVE  SlotInv'
<1> USE DEF At, tables, world, budget
<1>1. LoopOK /\ task \in TaskTable /\ storeFaults \in Nat /\ inst \in InstanceTable
  BY IInvParts DEF RestOK, IInv, TypeOK
<1>2. ~ StoreFails
  BY <1>1
<1>3. CASE ListPending
  <2>1. /\ phase \in TaskPhases /\ UNCHANGED <<task, inst, crashes>>
        /\ \/ \E S : ListInto(S)
           \/ EnterPhase(NextPhase["dispatch"])
    BY <1>3 DEF ListPending, TaskPhases
  <2>2. NextPhase["dispatch"] \in Phases \ {"down", "recover"}
    BY NextPhaseType DEF Phases
  <2> QED
    BY <1>1, <2>1, <2>2, Stays, SameInstances, GoesOnSlots DEF KeepsNoSlot
<1>4. CASE RejectRead \/ NoCapacity \/ Assign \/ FailDispatch
  <2>1. phase = "dispatch" /\ phase \in TaskPhases /\ pc \in {"next", "fail"} /\ UNCHANGED crashes
    BY <1>4 DEF RejectRead, NoCapacity, Assign, FailDispatch, TaskPhases
  <2>2. Current \in Task /\ todo # {} /\ InTable(task, Current)
    BY <2>1, HandFresh
  <2>3. CASE RejectRead \/ FailDispatch
    <3>1. task' = UpdateTaskStatus(task, Current, "failed") /\ Continue /\ UNCHANGED inst
      BY <1>2, <2>3 DEF RejectRead, FailDispatch, Write
    <3>2. /\ Alone(Current)
          /\ RowIs(task'[Current], "failed", task[Current].inst, task[Current].cont,
                   task[Current].ready)
      BY <1>1, <2>2, <3>1, Effects DEF TaskStatus
    <3> QED
      BY <1>1, <2>1, <2>2, <3>1, <3>2, SameInstances, GoesOnSlots DEF KeepsNoSlot, RowIs
  <2>4. CASE NoCapacity
    BY <1>1, <2>1, <2>2, <2>4, ScaledUpGoesOn, Stays, GoesOnSlots DEF NoCapacity, KeepsNoSlot
  <2>5. CASE Assign
    <3> DEFINE i == Min(AvailableInstances)
    <3>1. /\ task' = AssignTask(task, Current, i) /\ pc' = "run" /\ chosen' = i
          /\ UNCHANGED <<phase, inst>> /\ AvailableInstances # {}
      BY <1>2, <2>5 DEF Assign
    <3>2. i \in AvailableInstances
      <4>1. AvailableInstances \in SUBSET Nat
        BY DEF AvailableInstances, InstancesWith, Instance
      <4> QED
        BY <3>1, <4>1, MinInSet
    <3> HIDE DEF i
    <3>3. chosen' \in Instance /\ inst'[chosen'].status = "running"
      BY <3>1, <3>2 DEF AvailableInstances, InstancesWith
    <3>4. /\ Alone(Current)
          /\ RowIs(task'[Current], "provisioning", i, task[Current].cont, task[Current].ready)
      BY <1>1, <2>2, <3>1, Effects
    <3> QED
      BY <1>1, <2>1, <3>1, <3>3, <3>4, SameInstances, SlotsKept DEF KeepsNoSlot, RowIs
  <2> QED
    BY <1>4, <2>3, <2>4, <2>5
<1> QED
  BY <1>3, <1>4, RunSlots, StartSlots DEF DispatchPending

LEMMA EvaluateSlots ==
  ASSUME IInv, IInv', SlotInv, Evaluate
  PROVE  SlotInv'
<1> USE DEF At, budget
<1>1. phase = "evaluate" /\ UNCHANGED <<task, crashes>> /\ EnterPhase(NextPhase["evaluate"])
  BY DEF Evaluate
<1>2. phase' \notin {"down", "recover"} /\ pc' = "list"
  BY <1>1, NextPhaseType DEF EnterPhase, Phases
<1>3. InstancesGoOn
  <2>1. PICK up \in SUBSET (InstancesWith(inst, "pending") \ dead),
             down \in SUBSET (InstancesWith(inst, "pending") \cup
                              InstancesWith(inst, "running")),
             idle \in SUBSET IdleInstances :
          /\ InstancesWith(inst, "running") \cap dead \subseteq down
          /\ down \ dead # {} => Glitches
          /\ up \cap down = {} /\ idle \cap down = {}
          /\ inst' = [i \in Instance |->
                        CASE i \in up          -> [inst[i] EXCEPT !.status = "running"]
                          [] i \in down \cup idle -> [status |-> "terminated", count |-> 0]
                          [] OTHER             -> inst[i]]
          /\ dead' = dead \cup idle
          /\ ctr' = WithoutHosts(idle)
    BY Zenon DEF Evaluate
  <2> SUFFICES ASSUME NEW i \in Instance
               PROVE  \/ inst'[i].status = "terminated"
                      \/ inst[i].status = "none" /\ inst'[i].status # "none"
                      \/ /\ inst[i].status # "terminated" /\ inst'[i].count = inst[i].count
                         /\ inst'[i].status = "none" => inst[i].status = "none"
    BY DEF InstancesGoOn
  <2>2. inst[i] \in InstanceRow
    BY DEF IInv, TypeOK, InstanceTable
  <2>3. CASE i \in up
    <3>1. inst[i].status = "pending"
      BY <2>1, <2>3 DEF InstancesWith
    <3>2. i \notin down \cup idle
      BY <2>1, <2>3, <3>1 DEF IdleInstances, InstancesWith
    <3>3. inst'[i] = [inst[i] EXCEPT !.status = "running"]
      BY <2>1, <2>3, <3>2
    <3>4. inst'[i].status = "running" /\ inst'[i].count = inst[i].count
      BY <3>3, <2>2 DEF InstanceRow
    <3> QED
      BY <3>1, <3>4
  <2>4. CASE i \notin up
    <3>1. inst'[i] = inst[i] \/ inst'[i] = [status |-> "terminated", count |-> 0]
      BY <2>1, <2>4
    <3> QED
      BY <2>2, <3>1
  <2> QED
    BY <2>3, <2>4
<1> QED
  BY <1>1, <1>2, <1>3, Stays, SlotsKept DEF KeepsNoSlot

LEMMA ApiSlots ==
  ASSUME Ops \subseteq {"retry"}, IInv, SlotInv, ApiStep
  PROVE  SlotInv'
<1>1. RestOK
  BY IInvParts
<1>2. UNCHANGED <<ctr, loop, inst, crashes>> /\ ContainersKept
  BY SameContainersKept DEF ApiStep, Create, BeginCancel, BeginDelete, BeginRetry, Admit,
     FinishCancel, FinishDelete, FinishRetry, Finish, world, tables, budget
<1>3. ASSUME NEW u \in Task, NEW row, row.status = "pending", row.cont = NoContainer,
             task' = [task EXCEPT ![u] = row] \/ UNCHANGED task
      PROVE  SlotInv'
  <2>1. \A t \in Task : task'[t] = task[t] \/ task'[t] = row
    BY <1>1, <1>3 DEF RestOK, TaskTable
  <2> QED
    BY <1>2, <1>3, <2>1, BesideSlots
<1>4. ASSUME UNCHANGED task PROVE SlotInv'
  BY <1>2, <1>4, BesideSlots
<1>5. ASSUME NEW u \in Task, Create(u) PROVE SlotInv'
  <2> DEFINE row == [EmptyRow EXCEPT !.status = "pending"]
  <2>1. row.status = "pending" /\ row.cont = NoContainer
    BY DEF EmptyRow
  <2>2. task' = [task EXCEPT ![u] = row]
    BY <1>5 DEF Create, CreateTask
  <2> HIDE DEF row
  <2> QED
    BY <1>3, <2>1, <2>2
<1>6. ASSUME NEW r \in Requests, FinishCancel(r) \/ FinishDelete(r) PROVE FALSE
  <2>1. req[r].op \in {"none", "retry"}
    BY <1>1 DEF RestOK
  <2> QED
    BY <1>6, <2>1 DEF FinishCancel, FinishDelete, Finish
<1>7. ASSUME NEW r \in Requests, FinishRetry(r) PROVE SlotInv'
  <2> DEFINE u == req[r].task
             row == [task[u] EXCEPT !.status = "pending", !.inst = NoInstance,
                                    !.cont = NoContainer, !.started = FALSE,
                                    !.ready = FALSE, !.uretry = @ + 1]
  <2>1. u \in Task
    BY <1>1, <1>7 DEF FinishRetry, Finish, RestOK, RequestShape, NoRequest
  <2>2. row.status = "pending" /\ row.cont = NoContainer
    BY <1>1, <2>1 DEF RestOK, TaskTable, Row
  <2>3. task' = task \/ task' = UpdateRow(task, u, row)
    BY <1>7, Zenon DEF FinishRetry, Finish, RetryTask
  <2> HIDE DEF row, u
  <2> QED
    BY <1>3, <2>1, <2>2, <2>3 DEF UpdateRow
<1>8. ASSUME NEW r \in Requests, NEW u \in Task,
             BeginCancel(r, u) \/ BeginDelete(r, u) \/ BeginRetry(r, u)
      PROVE  SlotInv'
  BY <1>4, <1>8 DEF BeginCancel, BeginDelete, BeginRetry, Admit, tables
<1> QED
  BY <1>5, <1>6, <1>7, <1>8 DEF ApiStep

LEMMA WorldSlots ==
  ASSUME IInv, SlotInv, WorldStep, crashes' <= 1
  PROVE  SlotInv'
<1> USE DEF tables, world, budget
<1>1. ctr \in Seq(Container) /\ crashes \in Nat /\ inst \in InstanceTable
  BY DEF IInv, TypeOK
<1>2. ASSUME NEW c \in DOMAIN ctr, Exit(c) \/ Reclaim(c) PROVE SlotInv'
  <2>1. /\ c \in LiveContainers /\ UNCHANGED <<task, loop, inst, crashes>>
        /\ \E st \in ContainerState : ctr' = [ctr EXCEPT ![c].st = st]
    BY <1>2 DEF Exit, Reclaim, ContainerState
  <2>2. ContainersKept
    BY <1>1, <2>1, StateKeepsContainers
  <2> QED
    BY <2>1, <2>2, BesideSlots
<1>3. ASSUME NEW i \in Instance, HostDies(i) PROVE SlotInv'
  <2>1. ContainersKept
    BY <1>1, <1>3, HostsNoneLaunched DEF HostDies, NoneLaunched
  <2> QED
    BY <1>3, <2>1, BesideSlots DEF HostDies
<1>4. ASSUME NEW t \in Task, Expire(t) PROVE SlotInv'
  BY <1>4, SameContainersKept, BesideSlots DEF Expire
<1>5. CASE Crash
  <2>1. phase' = "down" /\ pc' = "list" /\ UNCHANGED <<task, inst>> /\ crashes = 0 /\ crashes' # 0
    BY <1>1, <1>5 DEF Crash, EnterPhase
  <2>2. ListedToRecover'
    BY <2>1 DEF ListedToRecover, SlotInv, NeverCrashed
  <2> QED
    BY <2>1, <2>2 DEF SlotInv, HeldOn, Holding
<1>6. CASE Restart
  <2>1. phase = "down" /\ phase' = "recover" /\ pc' = "list" /\ UNCHANGED <<task, crashes>>
        /\ inst' = IF Mode = "ec2" THEN inst
                   ELSE [i \in Instance |-> [status |-> "running", count |-> 0]]
    BY <1>6 DEF Restart, EnterPhase
  <2>2. crashes' # 0 /\ ListedToRecover'
    BY <2>1 DEF ListedToRecover, SlotInv, NeverCrashed
  <2>3. \A i \in Instance : inst'[i].status = "none" => HeldOn(i)' = {}
    BY <2>1 DEF SlotInv, HeldOn, Holding
  <2> QED
    BY <2>1, <2>2, <2>3 DEF SlotInv
<1> QED
  BY <1>2, <1>3, <1>4, <1>5, <1>6 DEF WorldStep

SlotOK == storeFaults = 0 /\ crashes <= 1 => SlotInv

LEMMA SlotInit == ASSUME Init PROVE SlotOK
<1>1. Holding = {}
  BY DEF Init, Holding, EmptyRow
<1> QED
  BY <1>1 DEF Init, SlotOK, SlotInv, ListedToRecover, NeverCrashed, HeldOn, EmptyRow

LEMMA CrashesStep ==
  ASSUME Next
  PROVE  \/ UNCHANGED crashes
         \/ crashes < MaxCrashes /\ crashes' = crashes + 1
<1>1. CASE Recover
  BY <1>1 DEF Recover, ListOrphansRunning, ListOrphansProvisioning, Collect, ListOrphansRecovering,
       MarkRecovering, ClearProvisioned, RebuildCounters, budget
<1>2. CASE CheckInterruptions \/ Evaluate
  BY <1>2 DEF CheckInterruptions, DrainInstance, ListInterrupted, RequeueInterrupted,
            NoMoreInterruptions, Evaluate, budget
<1>3. CASE MonitorCancelled \/ MonitorRecovering \/ MonitorRunning
  BY <1>3 DEF MonitorCancelled, ListCancelled, CancelledWithoutContainer, StopCancelled,
       ClearCancelled, MonitorRecovering, ListRecovering, RequeueProvisioned, PromoteRecovered,
       MonitorRunning, ListRunning, StillRunning, StopToKill, KillTask, budget
<1>4. CASE DispatchPending
  BY <1>4 DEF DispatchPending, ListPending, RejectRead, NoCapacity, Assign, RunAgent, Start,
       FailDispatch, budget
<1>5. CASE Shared
  BY <1>5 DEF Shared, ListFails, CompleteExited, ReleaseSlot, MarkRetryReady,
              GiveUpInstance, CountInspectFailure, Requeue, budget
<1>6. CASE ApiStep
  BY <1>6 DEF ApiStep, Create, BeginCancel, BeginDelete, BeginRetry, Admit,
              FinishCancel, FinishDelete, FinishRetry, Finish, budget
<1>7. CASE WorldStep
  BY <1>7 DEF WorldStep, Exit, Reclaim, HostDies, Expire, Crash, Restart, budget
<1> QED
  BY <1>1, <1>2, <1>3, <1>4, <1>5, <1>6, <1>7 DEF Next, OrchestratorStep

LEMMA SlotOKNext ==
  ASSUME Ops \subseteq {"retry"}, IInv, IInv', FreshOK, SlotOK, [Next]_vars
  PROVE  SlotOK'
<1>1. storeFaults \in Nat /\ crashes \in Nat
  BY DEF IInv, TypeOK
<1>2. CASE Next
  <2> SUFFICES ASSUME storeFaults' = 0, crashes' <= 1 PROVE SlotInv'
    BY DEF SlotOK
  <2>1. UNCHANGED storeFaults /\ crashes <= 1
    BY <1>1, <1>2, StoreFaultsStep, CrashesStep
  <2>2. FreshInv /\ SlotInv
    BY <2>1 DEF FreshOK, SlotOK
  <2> QED
    BY <1>2, <2>1, <2>2, RecoverSlots, SpotSlots, MonitorSlots, SharedSlots, DispatchSlots,
       EvaluateSlots, ApiSlots, WorldSlots DEF Next, OrchestratorStep
<1>3. CASE UNCHANGED vars
  <2>1. UNCHANGED <<task, loop, ctr, inst, crashes, storeFaults>>
    BY <1>3 DEF vars, loop
  <2> QED
    BY <2>1, SameContainersKept, BesideSlots DEF SlotOK
<1> QED
  BY <1>2, <1>3

\* Until a statement fails or the server crashes a second time, and while nobody
\* cancels or deletes, running_containers covers the tasks on every instance in
\* service, whichever containers, hosts and calls to containers fail; a second
\* crash may find recovering tasks that recovery does not count.
THEOREM SlotsCovered ==
  ASSUME Ops \subseteq {"retry"}
  PROVE  Spec => [](storeFaults = 0 /\ crashes <= 1 => InstanceSlotsCovered)
<1>1. Init => FreshOK /\ SlotOK
  BY FreshInit, SlotInit
<1>2. IInv /\ FreshOK /\ [Next]_vars => FreshOK'
  BY FreshOKNext
<1>3. IInv /\ IInv' /\ FreshOK /\ SlotOK /\ [Next]_vars => SlotOK'
  BY SlotOKNext
<1>4. IInv /\ SlotOK => (storeFaults = 0 /\ crashes <= 1 => InstanceSlotsCovered)
  <2> SUFFICES ASSUME IInv, SlotInv, AtRest, NEW i \in Instance, inst[i].status = "running"
               PROVE  inst[i].count >= Cardinality(HeldOn(i))
    BY DEF SlotOK, InstanceSlotsCovered
  <2>1. phase \notin {"down", "recover"} /\ pc = "list"
    BY NextPhaseType DEF AtRest
  <2>2. CoveredOn(i) /\ Owes(i) = 0
    BY <2>1 DEF SlotInv, Owes
  <2>3. Cardinality(HeldOn(i)) \in Nat
    BY TasksFinite, FS_CardinalityType DEF HeldOn, Holding
  <2> QED
    BY <2>2, <2>3 DEF CoveredOn
<1> QED
  BY <1>1, <1>2, <1>3, <1>4, Invariance, PTL DEF Spec

-----------------------------------------------------------------------------
(* Scale-down.                                                              *)

\* Only Evaluate leads from the loop of the scaler back to the first one.
LEMMA LeavesEvaluate ==
  ASSUME IInv, [Next]_vars, phase = "evaluate", phase' = "spot"
  PROVE  Evaluate
<1>1. pc = "list" /\ phase' # phase
  BY IInvParts DEF LoopOK, LoopShape, Labels, Phases
<1>2. ~ Recover /\ ~ CheckInterruptions
  BY DEF Recover, ListOrphansRunning, ListOrphansProvisioning, Collect, ListOrphansRecovering,
         MarkRecovering, ClearProvisioned, RebuildCounters, At,
         CheckInterruptions, DrainInstance, ListInterrupted, RequeueInterrupted,
         NoMoreInterruptions
<1>3. ~ MonitorCancelled /\ ~ MonitorRecovering /\ ~ MonitorRunning /\ ~ DispatchPending
  BY DEF MonitorCancelled, ListCancelled, CancelledWithoutContainer, StopCancelled,
         ClearCancelled, MonitorRecovering, ListRecovering, RequeueProvisioned, PromoteRecovered,
         MonitorRunning, ListRunning, StillRunning, StopToKill, KillTask, DispatchPending,
         ListPending, RejectRead, NoCapacity, Assign, RunAgent, Start, FailDispatch, At
<1>4. ~ Shared
  BY <1>1 DEF Shared, ListFails, CompleteExited, ReleaseSlot, MarkRetryReady,
              GiveUpInstance, CountInspectFailure, Requeue, Inspecting
<1>5. ~ ApiStep /\ ~ WorldStep
  BY <1>1 DEF ApiStep, Create, BeginCancel, BeginDelete, BeginRetry, Admit,
              FinishCancel, FinishDelete, FinishRetry, Finish, WorldStep, Exit, Reclaim,
              HostDies, Expire, Crash, Restart, EnterPhase, loop
<1>6. Next
  BY <1>1 DEF vars
<1> QED
  BY <1>2, <1>3, <1>4, <1>5, <1>6 DEF Next, OrchestratorStep

\* Where the slots are covered, and containers are where their tasks say, an
\* instance that scale-down finds idle has no agent at work on its task.
THEOREM BusyHostsKept ==
  ASSUME Ops \subseteq {"retry"}, ~ Glitches, MaxCrashes <= 1, MaxStoreFaults = 0
  PROVE  Spec => BusyHostKept
<1> DEFINE Bounded == storeFaults = 0 /\ crashes <= 1
           Kept == (phase = "evaluate" /\ phase' = "spot")
                     => \A c \in LiveContainers :
                          task[ctr[c].task].cont = c => c \in LiveContainers'
<1>1. Init => Bounded /\ FreshOK /\ AgentOK /\ SlotOK
  BY FreshInit, AgentInit, SlotInit DEF Init
<1>2. IInv /\ FreshOK /\ [Next]_vars => FreshOK'
  BY FreshOKNext
<1>3. IInv /\ IInv' /\ FreshOK /\ AgentOK /\ [Next]_vars => AgentOK'
  BY AgentOKNext
<1>4. IInv /\ IInv' /\ FreshOK /\ SlotOK /\ [Next]_vars => SlotOK'
  BY SlotOKNext
<1>5. IInv /\ Bounded /\ [Next]_vars => Bounded'
  <2> SUFFICES ASSUME IInv, Bounded, [Next]_vars PROVE Bounded'
    OBVIOUS
  <2>1. CASE Next
    BY <2>1, StoreFaultsStep, CrashesStep, OrchestratorAssumption DEF IInv, TypeOK
  <2> QED
    BY <2>1 DEF vars
<1>6. IInv /\ Bounded /\ AgentOK /\ SlotOK /\ [Next]_vars => Kept
  <2> SUFFICES ASSUME IInv, AgentInv, SlotInv, [Next]_vars,
                      phase = "evaluate", phase' = "spot",
                      NEW c \in LiveContainers, task[ctr[c].task].cont = c
               PROVE  c \in LiveContainers'
    BY DEF AgentOK, SlotOK
  <2>1. /\ inst \in InstanceTable /\ ctr \in Seq(Container)
        /\ pc = "list" /\ c \in DOMAIN ctr
    BY IInvParts DEF IInv, TypeOK, LoopOK, LoopShape, Labels, Phases, LiveContainers
  <2>2. ctr[c].task \in Task /\ ctr[c].inst \in Instance
    <3>1. \A d \in DOMAIN ctr : ctr[d] \in Container
      BY <2>1
    <3> QED
      BY <2>1, <3>1 DEF Container
  <2> DEFINE t == ctr[c].task
             i == ctr[c].inst
  <2>3. t \in HeldOn(i)
    <3>1. OnItsHost(t) /\ c # NoContainer
      BY <2>1, <2>2, ContainersFinite DEF AgentInv, LiveContainers
    <3> QED
      BY <2>2, <3>1 DEF OnItsHost, HeldOn, Holding
  <2>4. i \notin IdleInstances
    <3>1. CoveredOn(i)
      BY <2>2 DEF SlotInv
    <3>2. IsFiniteSet(HeldOn(i)) /\ Cardinality(HeldOn(i)) \in Nat
      BY TasksFinite, FS_CardinalityType DEF HeldOn, Holding
    <3>3. Cardinality(HeldOn(i)) # 0
      BY <2>3, <3>2, FS_EmptySet
    <3>4. Owes(i) = 0 /\ inst[i].count \in Nat
      BY <2>1, <2>2 DEF Owes, InstanceTable, InstanceRow
    <3> QED
      BY <3>1, <3>2, <3>3, <3>4 DEF CoveredOn, IdleInstances, InstancesWith
  <2>5. PICK idle \in SUBSET IdleInstances : ctr' = WithoutHosts(idle)
    BY LeavesEvaluate DEF Evaluate
  <2>6. i \notin idle
    BY <2>4, <2>5
  <2> QED
    BY <2>1, <2>5, <2>6, HostsNoneLaunched
<1> HIDE DEF Bounded, Kept
<1>7. Kept => [(phase = "evaluate" /\ phase' = "spot")
                 => \A c \in LiveContainers :
                      task[ctr[c].task].cont = c => c \in LiveContainers']_vars
  BY DEF Kept
<1> QED
  BY <1>1, <1>2, <1>3, <1>4, <1>5, <1>6, <1>7, Invariance, PTL DEF Spec, BusyHostKept

-----------------------------------------------------------------------------
(* The account of o.running, while users only cancel or only retry: rows and   *)
(* lists, when a cancel or a failed statement may come between any two steps.  *)

\* What a row says of a slot.
SlotRow(row) ==
  /\ row.status # "deleted"
  /\ row.status \in {"new", "pending", "provisioning"} => row.cont = NoContainer
  /\ row.status = "running" => row.cont # NoContainer
  /\ row.cont # NoContainer => row.inst \in Instance

\* What the loops list, monitorCancelled among them.
ListedFrom(p) == IF p = "cancelled" THEN {"cancelled"} ELSE ListedAs[p]

\* A listed row is what it was, or has been cancelled, unless the loop has
\* changed it itself; nothing but a launch gives it a container.
ListedRow(t) ==
  /\ task[t].status # "new"
  /\ snap[t].status \in ListedFrom(phase)
  /\ snap[t].status = "running" => snap[t].cont # NoContainer
  /\ snap[t].cont # NoContainer => snap[t].inst \in Instance
  /\ phase = "cancelled" => task[t].status = "cancelled"
  /\ Untouched(t) => /\ task[t].status \in {snap[t].status, "cancelled"}
                     /\ task[t].cont = snap[t].cont
  /\ phase = "dispatch" \/ (phase = "recover" /\ snap[t].status = "provisioning") =>
       task[t].cont = NoContainer
  /\ t = Current /\ pc \in {"release", "releaseCompleted"} => snap[t].cont # NoContainer
  /\ t = Current /\ pc \in {"release", "releaseCompleted", "ready"} /\ storeFaults = 0 =>
       task[t].status \in {"failed", "completed", "cancelled"}

\* A task that is launched has an instance, then a container.
LaunchShape ==
  /\ pc \in {"run", "start"} => task[Current].inst \in Instance /\ chosen \in Instance
  /\ pc = "start" => Newest(Current) # NoContainer

RowInv ==
  /\ LaunchShape
  /\ \A t \in Task : SlotRow(task[t])
  /\ \A t \in todo : ListedRow(t)

\* What is known of the task in hand.
LEMMA HandRow ==
  ASSUME IInv, RowInv, pc \notin ListPCs
  PROVE  /\ Current \in todo /\ Current \in Task /\ todo # {}
         /\ InTable(task, Current) /\ SlotRow(task[Current]) /\ ListedRow(Current)
         /\ phase # "recover" => phase \in TaskPhases
         /\ pc \notin HandledPCs => Untouched(Current)
<1>1. LoopOK
  BY IInvParts
<1>2. Current \in todo /\ Current \in Task /\ todo # {} /\ (phase # "recover" => phase \in TaskPhases)
  BY <1>1, InHand
<1>3. SlotRow(task[Current]) /\ ListedRow(Current)
  BY <1>2 DEF RowInv
<1> QED
  BY <1>2, <1>3 DEF InTable, Absent, SlotRow, ListedRow, Untouched

\* A step that goes on to the next task forgets the one in hand.
LEMMA NextRow ==
  ASSUME IInv, RowInv, pc \notin ListPCs, Alone(Current), SlotRow(task'[Current]),
         (phase = "recover" /\ NextOrphan) \/ (phase \in TaskPhases /\ Continue)
  PROVE  RowInv'
<1>1. LoopOK /\ todo # {} /\ Current \in Task
  BY HandRow, IInvParts
<1>2. \/ /\ phase' = phase /\ pc' \in {"next", "finish"} /\ todo' = todo \ {Current}
         /\ \A t \in todo' : snap'[t] = snap[t]
      \/ pc' = "list" /\ todo' = {}
  BY <1>1 DEF NextOrphan, Continue, EnterPhase, LoopOK
<1>3. ASSUME NEW t \in Task PROVE SlotRow(task'[t])
  <2>1. CASE t = Current
    BY <2>1
  <2>2. CASE t # Current
    BY <2>2 DEF RowInv, SlotRow, Alone
  <2> QED
    BY <2>1, <2>2
<1>4. ASSUME NEW t \in todo' PROVE ListedRow(t)'
  <2>1. /\ phase' = phase /\ pc' \in {"next", "finish"} /\ snap'[t] = snap[t]
        /\ t # Current /\ t \in todo /\ t \in Task
    BY <1>1, <1>2 DEF LoopOK
  <2>2. task'[t] = task[t] /\ ListedRow(t) /\ Untouched(t)
    BY <2>1 DEF Alone, RowInv, Untouched
  <2> QED
    BY <2>1, <2>2 DEF ListedRow
<1>5. LaunchShape'
  BY <1>2 DEF LaunchShape
<1> QED
  BY <1>3, <1>4, <1>5 DEF RowInv

\* A step within the handling of one task.
LEMMA WithinRow ==
  ASSUME IInv, RowInv, UNCHANGED <<phase, todo, snap>>, pc \notin ListPCs,
         Alone(Current), SlotRow(task'[Current]), ListedRow(Current)', LaunchShape'
  PROVE  RowInv'
<1>1. Current' = Current /\ LoopOK
  BY IInvParts DEF Current
<1>2. ASSUME NEW t \in Task PROVE SlotRow(task'[t])
  <2>1. CASE t = Current
    BY <2>1
  <2>2. CASE t # Current
    BY <2>2 DEF RowInv, SlotRow, Alone
  <2> QED
    BY <2>1, <2>2
<1>3. ASSUME NEW t \in todo' PROVE ListedRow(t)'
  <2>1. CASE t = Current
    BY <1>1, <2>1 DEF ListedRow
  <2>2. CASE t # Current
    <3>1. task'[t] = task[t] /\ ListedRow(t) /\ Untouched(t) /\ snap' = snap /\ phase' = phase
      BY <1>1, <1>3, <2>2 DEF Alone, RowInv, Untouched, LoopOK
    <3> QED
      BY <1>1, <2>2, <3>1 DEF ListedRow
  <2> QED
    BY <2>1, <2>2
<1> QED
  BY <1>2, <1>3 DEF RowInv

\* A step that begins another loop, or takes a list into memory.
LEMMA EnterRow ==
  ASSUME RowInv, UNCHANGED task, NEW p, EnterPhase(p)
  PROVE  RowInv'
BY DEF RowInv, LaunchShape, SlotRow, EnterPhase

LEMMA ListIntoRow ==
  ASSUME IInv, RowInv, phase \in TaskPhases, UNCHANGED task, NEW S \in SUBSET Task, ListInto(S),
         \A t \in S : task[t].status \in ListedFrom(phase)
  PROVE  RowInv'
<1>1. CASE S = {}
  BY <1>1, EnterRow DEF ListInto
<1>2. CASE S # {}
  <2>1. /\ phase' = phase /\ pc' = "next" /\ todo' = S
        /\ \A t \in S : snap'[t] = task[t]
    BY <1>2 DEF ListInto
  <2>2. ASSUME NEW t \in S PROVE ListedRow(t)'
    <3>1. /\ SlotRow(task[t]) /\ task[t].status \in ListedFrom(phase) /\ snap'[t] = task[t]
          /\ "new" \notin ListedFrom(phase)
          /\ phase = "dispatch" => ListedFrom(phase) = {"pending"}
          /\ phase = "cancelled" => ListedFrom(phase) = {"cancelled"}
          /\ phase # "recover"
      BY <2>1, <2>2 DEF RowInv, ListedFrom, ListedAs, TaskPhases, Phases
    <3> QED
      BY <2>1, <3>1 DEF SlotRow, ListedRow
  <2>3. LaunchShape' /\ \A t \in Task : SlotRow(task'[t])
    BY <2>1 DEF RowInv, LaunchShape, SlotRow
  <2> QED
    BY <2>1, <2>2, <2>3 DEF RowInv
<1> QED
  BY <1>1, <1>2

-----------------------------------------------------------------------------
(* o.running between the releases and the rows.                              *)

\* The tasks whose slots are not given back: the one in hand still has its
\* slot once its row has ended, and no more of it once it is given up.
SlotTasks ==
  {t \in Task : IF t = Current /\ pc \in HandledPCs \cup {"requeue"}
                  THEN pc \in {"release", "releaseCompleted"}
                  ELSE t \in Holding}

\* A cancelled row that no list will overwrite: monitorCancelled may give its
\* slot back a second time.
Settled == {t \in WithStatus(task, "cancelled") : t \notin todo \/ phase = "cancelled"}

Quiet == storeFaults = 0 /\ Settled = {}

CountsOK ==
  /\ running <= Cardinality(SlotTasks)
  /\ Quiet => running = Cardinality(SlotTasks)

\* One slot less is counted, one more, or the same.
LEMMA CountStep ==
  ASSUME IInv, IInv', CountsOK, NEW u \in Task, Quiet' => Quiet,
         \/ running' = running /\ SlotTasks \subseteq SlotTasks' /\ (Quiet' => SlotTasks' = SlotTasks)
         \/ /\ DecrementRunning /\ SlotTasks \ {u} \subseteq SlotTasks'
            /\ Quiet' => u \in SlotTasks /\ SlotTasks' = SlotTasks \ {u}
         \/ running' = running + 1 /\ u \notin SlotTasks /\ SlotTasks' = SlotTasks \cup {u}
  PROVE  CountsOK'
<1>1. running \in Nat /\ running' \in Nat
  BY DEF IInv, TypeOK
<1> DEFINE S == SlotTasks
           R == SlotTasks'
<1>2. /\ S \in SUBSET Task /\ R \in SUBSET Task /\ S \ {u} \in SUBSET Task /\ IsFiniteSet(S)
      /\ Cardinality(S) \in Nat /\ Cardinality(R) \in Nat
  <2>1. S \in SUBSET Task /\ R \in SUBSET Task
    BY DEF SlotTasks
  <2> QED
    BY <2>1, FewerTasks, TasksFinite
<1> HIDE DEF S, R
<1>3. /\ u \in S => Cardinality(S \ {u}) = Cardinality(S) - 1
      /\ u \notin S => S \ {u} = S
      /\ u \notin S => Cardinality(S \cup {u}) = Cardinality(S) + 1
  <2>1. u \notin S => S \ {u} = S
    OBVIOUS
  <2>2. u \in S => Cardinality(S \ {u}) = Cardinality(S) - 1
    BY <1>2, FS_RemoveElement
  <2>3. u \notin S => Cardinality(S \cup {u}) = Cardinality(S) + 1
    BY <1>2, FS_AddElement
  <2> QED
    BY <2>1, <2>2, <2>3
<1>4. /\ S \subseteq R => Cardinality(S) <= Cardinality(R)
      /\ S \ {u} \subseteq R => Cardinality(S \ {u}) <= Cardinality(R)
  BY <1>2, FewerTasks
<1>5. running <= Cardinality(S) /\ (Quiet => running = Cardinality(S))
  BY DEF CountsOK, S
<1>6. running' <= Cardinality(R) /\ (Quiet' => running' = Cardinality(R))
  <2>1. CASE running' = running /\ S \subseteq R /\ (Quiet' => R = S)
    BY <1>1, <1>2, <1>4, <1>5, <2>1
  <2>2. CASE DecrementRunning /\ S \ {u} \subseteq R /\ (Quiet' => u \in S /\ R = S \ {u})
    <3>1. running' = (IF running > 0 THEN running - 1 ELSE 0)
      BY <2>2 DEF DecrementRunning
    <3>2. running' <= Cardinality(R)
      BY <1>1, <1>2, <1>3, <1>4, <1>5, <2>2, <3>1
    <3>3. ASSUME Quiet' PROVE running' = Cardinality(R)
      <4>1. running = Cardinality(S) /\ u \in S /\ Cardinality(R) = Cardinality(S) - 1
        BY <1>3, <1>5, <2>2, <3>3
      <4> QED
        BY <1>1, <1>2, <3>1, <4>1
    <3> QED
      BY <3>2, <3>3
  <2>3. CASE running' = running + 1 /\ u \notin S /\ R = S \cup {u}
    BY <1>1, <1>2, <1>3, <1>5, <2>3
  <2> QED
    BY <2>1, <2>2, <2>3 DEF S, R
<1> QED
  BY <1>6 DEF CountsOK, R

\* A list that drops no cancelled row, and a row that stays cancelled while the
\* list is of cancelled rows.
LEMMA SettledHand ==
  ASSUME IInv, Alone(Current), Current \in Task, todo # {}, phase \in TaskPhases,
         phase = "cancelled" => task'[Current].status = task[Current].status,
         Continue \/ UNCHANGED <<phase, todo>>
  PROVE  Settled \subseteq Settled'
<1>1. LoopOK /\ Current \in todo
  BY IInvParts, CurrentInTodo DEF LoopOK
<1>2. todo' \subseteq todo /\ (phase' = phase \/ todo' = {})
  BY DEF Continue, EnterPhase
<1> SUFFICES ASSUME NEW t \in Settled PROVE t \in Settled'
  OBVIOUS
<1>3. t \in Task /\ task[t].status = "cancelled" /\ (t \notin todo \/ phase = "cancelled")
  BY DEF Settled, WithStatus
<1>4. task'[t].status = "cancelled"
  <2>1. CASE t = Current
    BY <1>1, <1>3, <2>1
  <2>2. CASE t # Current
    BY <1>3, <2>2 DEF Alone
  <2> QED
    BY <2>1, <2>2
<1> QED
  BY <1>2, <1>3, <1>4 DEF Settled, WithStatus

\* A step that handles the task in hand, in terms of that task alone.
LEMMA HandCount ==
  ASSUME IInv, IInv', RowInv, CountsOK, pc \notin ListPCs, phase \in TaskPhases, Alone(Current),
         NEW u, u = Current, storeFaults' >= storeFaults,
         phase = "cancelled" => task'[u].status = task[u].status,
         Continue \/ (UNCHANGED <<phase, todo, snap>> /\ pc' \notin ListPCs),
         \/ /\ running' = running
            /\ u \in SlotTasks => u \in SlotTasks'
            /\ Quiet' /\ u \in SlotTasks' => u \in SlotTasks
         \/ /\ DecrementRunning
            /\ Quiet' => u \in SlotTasks /\ u \notin SlotTasks'
         \/ /\ running' = running + 1
            /\ u \notin SlotTasks /\ u \in SlotTasks'
  PROVE  CountsOK'
<1>1. u \in Task /\ u \in todo /\ todo # {}
  BY HandRow
<1>2. Quiet' => Quiet
  <2>1. Settled \subseteq Settled'
    BY <1>1, SettledHand
  <2>2. storeFaults \in Nat /\ storeFaults' \in Nat
    BY DEF IInv, TypeOK
  <2> QED
    BY <2>1, <2>2 DEF Quiet
<1>3. \A t \in Task : t # u => (t \in SlotTasks' <=> t \in SlotTasks)
  <2>1. \A t \in Task : t # u => (t \in Holding' <=> t \in Holding)
    BY DEF Alone, Holding
  <2>2. \A t \in Task : t # u => (t \in SlotTasks <=> t \in Holding)
    BY DEF SlotTasks
  <2>3. \/ pc' \in {"next", "list"}
        \/ Current' = u
    BY DEF Continue, EnterPhase, Current
  <2>4. \A t \in Task : t # u => (t \in SlotTasks' <=> t \in Holding')
    BY <2>3 DEF SlotTasks, HandledPCs
  <2> QED
    BY <2>1, <2>2, <2>4
<1>4. SlotTasks \in SUBSET Task /\ SlotTasks' \in SUBSET Task
  BY DEF SlotTasks
<1> QED
  BY <1>1, <1>2, <1>3, <1>4, CountStep

\* Whether the task in hand is counted after a step.
LEMMA SlotNext ==
  ASSUME NEW u \in Task, u = Current
  PROVE  /\ pc \in {"release", "releaseCompleted"} => u \in SlotTasks
         /\ pc \in (HandledPCs \cup {"requeue"}) \ {"release", "releaseCompleted"} => u \notin SlotTasks
         /\ pc \notin HandledPCs \cup {"requeue"} =>
              (u \in SlotTasks <=> u \in Holding)
         /\ Continue => (u \in SlotTasks' <=> u \in Holding')
         /\ \A label : Goto(label) =>
              /\ Current' = u
              /\ label \in {"release", "releaseCompleted"} => u \in SlotTasks'
              /\ label \in (HandledPCs \cup {"requeue"}) \ {"release", "releaseCompleted"} => u \notin SlotTasks'
              /\ label \notin HandledPCs \cup {"requeue"} =>
                   (u \in SlotTasks' <=> u \in Holding')
<1>1. Continue => pc' \in {"next", "list"}
  BY DEF Continue, EnterPhase
<1>2. ASSUME NEW label, Goto(label) PROVE pc' = label /\ Current' = u
  BY <1>2 DEF Goto, Current
<1>3. /\ pc \in {"release", "releaseCompleted"} => u \in SlotTasks
      /\ pc \in (HandledPCs \cup {"requeue"}) \ {"release", "releaseCompleted"} => u \notin SlotTasks
      /\ pc \notin HandledPCs \cup {"requeue"} =>
              (u \in SlotTasks <=> u \in Holding)
  BY DEF SlotTasks, HandledPCs
<1>4. Continue => (u \in SlotTasks' <=> u \in Holding')
  BY <1>1 DEF SlotTasks, HandledPCs
<1>5. ASSUME NEW label, Goto(label)
      PROVE  /\ label \in {"release", "releaseCompleted"} => u \in SlotTasks'
             /\ label \in (HandledPCs \cup {"requeue"}) \ {"release", "releaseCompleted"} => u \notin SlotTasks'
             /\ label \notin HandledPCs \cup {"requeue"} =>
                   (u \in SlotTasks' <=> u \in Holding')
  <2>1. pc' = label /\ Current' = u
    BY <1>2, <1>5
  <2> QED
    BY <2>1 DEF SlotTasks, HandledPCs
<1> QED
  BY <1>2, <1>3, <1>4, <1>5

\* A step that begins another loop, or takes a list into memory.
LEMMA ListCount ==
  ASSUME IInv, IInv', CountsOK, UNCHANGED <<task, running>>, storeFaults' >= storeFaults,
         pc \in ListPCs, phase \in TaskPhases, NEW S \in SUBSET Task, NEW p,
         ListInto(S) \/ EnterPhase(p),
         \A t \in S : task[t].status \in ListedFrom(phase)
  PROVE  CountsOK'
<1>1. \/ pc' = "next" /\ todo' = S /\ phase' = phase
      \/ pc' = "list" /\ todo' = {}
  BY DEF ListInto, EnterPhase
<1>2. SlotTasks' = SlotTasks
  <2>1. Holding' = Holding
    BY DEF Holding
  <2>2. SlotTasks = Holding /\ SlotTasks' = Holding'
    BY <1>1 DEF SlotTasks, Holding, ListPCs, HandledPCs
  <2> QED
    BY <2>1, <2>2
<1>3. Quiet' => Quiet
  <2>1. phase # "cancelled" => "cancelled" \notin ListedFrom(phase)
    BY DEF ListedFrom, ListedAs, TaskPhases, Phases
  <2>2. Settled \subseteq Settled'
    BY <1>1, <2>1 DEF Settled, WithStatus
  <2>3. storeFaults \in Nat /\ storeFaults' \in Nat
    BY DEF IInv, TypeOK
  <2> QED
    BY <2>2, <2>3 DEF Quiet
<1> QED
  BY <1>2, <1>3 DEF CountsOK

\* A statement on the row of u has its effect, or fails.
Wrote(u, s, i, c) ==
  /\ Alone(u) /\ storeFaults' \in Nat /\ storeFaults' >= storeFaults
  /\ \/ /\ UNCHANGED storeFaults
        /\ task'[u].status = s /\ task'[u].inst = i /\ task'[u].cont = c
     \/ /\ storeFaults' # 0
        /\ task'[u] = task[u]

LEMMA Statement ==
  ASSUME RestOK, NEW u \in Task, InTable(task, u)
  PROVE  /\ \A s \in TaskStatus : Write(UpdateTaskStatus(task, u, s)) =>
              Wrote(u, s, task[u].inst, task[u].cont)
         /\ \A s \in TaskStatus : Write(CompleteTask(task, u, s)) =>
              Wrote(u, s, task[u].inst, task[u].cont)
         /\ Write(RequeueTask(task, u)) => Wrote(u, "pending", NoInstance, NoContainer)
         /\ Write(ClearTaskAssignment(task, u)) => Wrote(u, task[u].status, NoInstance, NoContainer)
         /\ Write(MarkReadyForRetry(task, u)) => Wrote(u, task[u].status, task[u].inst, task[u].cont)
<1>1. task \in TaskTable /\ storeFaults \in Nat
  BY DEF RestOK
<1>2. ASSUME UNCHANGED task, StoreFails, NEW s, NEW i, NEW c PROVE Wrote(u, s, i, c)
  BY <1>1, <1>2 DEF Wrote, StoreFails, Alone
<1>3. ASSUME UNCHANGED storeFaults, NEW s, NEW i, NEW c, NEW flag,
             Alone(u) /\ RowIs(task'[u], s, i, c, flag)
      PROVE  Wrote(u, s, i, c)
  BY <1>1, <1>3 DEF Wrote, RowIs
<1>4. ASSUME NEW s \in TaskStatus, Write(UpdateTaskStatus(task, u, s))
      PROVE  Wrote(u, s, task[u].inst, task[u].cont)
  BY <1>1, <1>2, <1>3, <1>4, Effects DEF Write
<1>5. ASSUME Write(RequeueTask(task, u)) PROVE Wrote(u, "pending", NoInstance, NoContainer)
  BY <1>1, <1>2, <1>3, <1>5, Effects DEF Write
<1>6. ASSUME Write(ClearTaskAssignment(task, u))
      PROVE  Wrote(u, task[u].status, NoInstance, NoContainer)
  BY <1>1, <1>2, <1>3, <1>6, Effects DEF Write
<1>7. ASSUME Write(MarkReadyForRetry(task, u))
      PROVE  Wrote(u, task[u].status, task[u].inst, task[u].cont)
  BY <1>1, <1>2, <1>3, <1>7, Effects DEF Write
<1> QED
  BY <1>4, <1>5, <1>6, <1>7 DEF CompleteTask

\* monitorCancelled.
LEMMA CancelledAccount ==
  ASSUME IInv, IInv', RowInv, CountsOK, MonitorCancelled
  PROVE  RowInv' /\ CountsOK'
<1> USE DEF At, tables, world, memory, budget
<1>1. LoopOK /\ RestOK /\ task \in TaskTable /\ storeFaults \in Nat /\ phase = "cancelled"
      /\ phase \in TaskPhases
  BY IInvParts DEF RestOK, MonitorCancelled, ListCancelled, CancelledWithoutContainer,
     StopCancelled, ClearCancelled, TaskPhases
<1>2. CASE ListCancelled
  <2>1. /\ ListInto(WithStatus(task, "cancelled")) /\ UNCHANGED <<task, running, storeFaults>>
        /\ pc \in ListPCs /\ WithStatus(task, "cancelled") \in SUBSET Task
        /\ \A t \in WithStatus(task, "cancelled") : task[t].status \in ListedFrom(phase)
    BY <1>1, <1>2 DEF ListCancelled, ListPCs, WithStatus, ListedFrom
  <2> QED
    BY <1>1, <2>1, ListIntoRow, ListCount
<1>3. CASE ~ ListCancelled
  <2>1. /\ pc \in {"next", "clear"} /\ pc \notin ListPCs /\ pc # "requeue"
        /\ UNCHANGED running
    BY <1>3 DEF MonitorCancelled, CancelledWithoutContainer, StopCancelled, ClearCancelled, ListPCs
  <2>2. PICK u \in Task : u = Current
    BY <2>1, HandRow
  <2>3. /\ u \in todo /\ InTable(task, u) /\ SlotRow(task[u]) /\ ListedRow(u) /\ task[u].status = "cancelled"
        /\ todo # {}
    BY <1>1, <2>1, <2>2, HandRow DEF ListedRow
  <2>4. /\ Alone(u) /\ task'[u].status = "cancelled" /\ SlotRow(task'[u]) /\ storeFaults' >= storeFaults
        /\ pc = "next" => task'[u].cont = task[u].cont
    <3>1. CASE UNCHANGED <<task, storeFaults>>
      BY <1>1, <2>3, <3>1 DEF Alone
    <3>2. CASE Write(MarkReadyForRetry(task, u))
      BY <1>1, <2>3, <3>2, Statement DEF Wrote, SlotRow
    <3>3. CASE pc = "clear" /\ Write(ClearTaskAssignment(task, u))
      BY <1>1, <2>3, <3>3, Statement DEF Wrote, SlotRow
    <3> QED
      BY <1>3, <2>2, <3>1, <3>2, <3>3
         DEF MonitorCancelled, CancelledWithoutContainer, StopCancelled, ClearCancelled
  <2>5. CASE CancelledWithoutContainer
    <3>1. pc = "next" /\ snap[u].cont = NoContainer /\ Continue
      BY <2>2, <2>5 DEF CancelledWithoutContainer
    <3>2. RowInv'
      BY <1>1, <2>1, <2>2, <2>4, <3>1, NextRow
    <3>3. u \notin SlotTasks /\ u \notin SlotTasks'
      <4>1. task[u].cont = NoContainer
        BY <2>2, <2>3, <3>1, HandRow DEF ListedRow, Untouched, HandledPCs
      <4> QED
        BY <2>2, <2>4, <3>1, <4>1, SlotNext DEF Holding, HandledPCs
    <3> QED
      BY <1>1, <2>1, <2>2, <2>3, <2>4, <3>1, <3>2, <3>3, HandCount
  <2>6. CASE StopCancelled \/ ClearCancelled
    <3>1. PICK label \in {"release", "ready"} :
            /\ Goto(label)
            /\ StopCancelled => label = "release" /\ pc = "next" /\ snap[u].cont # NoContainer
                                  /\ UNCHANGED task
            /\ ClearCancelled => label = "ready" /\ pc = "clear"
      BY <2>2, <2>6 DEF StopCancelled, ClearCancelled
    <3>2. Current' = u /\ UNCHANGED <<phase, todo, snap>> /\ pc' = label
      BY <2>2, <3>1 DEF Goto, Current
    <3>3. ListedRow(u)' /\ LaunchShape'
      BY <1>1, <2>2, <2>3, <2>4, <2>6, <3>1, <3>2 DEF ListedRow, LaunchShape, Untouched, HandledPCs
    <3>4. RowInv'
      BY <2>1, <2>2, <2>4, <3>2, <3>3, WithinRow
    <3>5. ~ Quiet'
      BY <1>1, <2>3, <2>4, <3>2 DEF Quiet, Settled, WithStatus
    <3>6. u \in SlotTasks => u \in SlotTasks'
      BY <2>2, <2>6, <3>1, SlotNext DEF HandledPCs
    <3>7. pc' \notin ListPCs
      BY <3>2 DEF ListPCs
    <3> QED
      BY <1>1, <2>1, <2>2, <2>3, <2>4, <3>2, <3>4, <3>5, <3>6, <3>7, HandCount
  <2> QED
    BY <1>3, <2>5, <2>6 DEF MonitorCancelled
<1> QED
  BY <1>2, <1>3

\* The row of the task that monitorRecovering or monitorRunning has in hand,
\* until the loop changes it.
LEMMA MonitoredRow ==
  ASSUME IInv, RowInv, pc \in {"next", "kill", "requeue"}, phase \in {"recovering", "running"},
         NEW u, u = Current
  PROVE  /\ task[u].status \in {"recovering", "running", "cancelled"} /\ task[u].cont = snap[u].cont
         /\ Untouched(u) /\ (u \in Holding <=> snap[u].cont # NoContainer)
         /\ phase = "running" => snap[u].cont # NoContainer
<1>1. pc \notin ListPCs /\ pc \notin HandledPCs
  BY DEF ListPCs, HandledPCs
<1>2. u \in Task /\ ListedRow(u) /\ Untouched(u)
  BY <1>1, HandRow
<1>3. ListedFrom(phase) = {phase}
  BY DEF ListedFrom, ListedAs, Phases
<1> QED
  BY <1>2, <1>3 DEF ListedRow, Holding

\* A step of these loops within the handling of the task.
LEMMA GotoRow ==
  ASSUME IInv, RowInv, pc \notin ListPCs, phase \in {"recovering", "running"}, NEW u, u = Current,
         Alone(u), SlotRow(task'[u]), task'[u].status # "new",
         NEW label \in {"kill", "requeue", "release", "releaseCompleted", "ready"}, Goto(label),
         label \in {"kill", "requeue"} => task'[u] = task[u] /\ Untouched(u),
         label \in {"release", "releaseCompleted"} => snap[u].cont # NoContainer,
         label \notin {"kill", "requeue"} /\ storeFaults' = 0 =>
           task'[u].status \in {"failed", "completed", "cancelled"}
  PROVE  RowInv' /\ UNCHANGED <<phase, todo, snap>> /\ pc' = label /\ pc' \notin ListPCs
<1>1. UNCHANGED <<phase, todo, snap>> /\ pc' = label /\ pc' \notin ListPCs /\ Current' = u
  BY DEF Goto, Current, ListPCs
<1>2. ListedRow(u)
  BY HandRow
<1>3. ListedRow(u)'
  BY <1>1, <1>2 DEF ListedRow, Untouched, HandledPCs
<1>4. LaunchShape'
  BY <1>1 DEF LaunchShape
<1> QED
  BY <1>1, <1>3, <1>4, WithinRow

\* monitorRecovering and monitorRunning, the steps shared by both apart.
LEMMA MonitorAccount ==
  ASSUME IInv, IInv', RowInv, CountsOK, MonitorRecovering \/ MonitorRunning
  PROVE  RowInv' /\ CountsOK'
<1> USE DEF At, tables, world, memory, budget
<1>1. /\ LoopOK /\ RestOK /\ storeFaults \in Nat /\ UNCHANGED running
      /\ phase \in {"recovering", "running"} /\ phase \in TaskPhases /\ phase # "cancelled"
  BY IInvParts DEF RestOK, TaskPhases, MonitorRecovering, ListRecovering, RequeueProvisioned,
     PromoteRecovered, MonitorRunning, ListRunning, StillRunning, StopToKill, KillTask
<1>2. CASE ListRecovering \/ ListRunning
  <2> DEFINE S == WithStatus(task, phase)
  <2>1. /\ S \in SUBSET Task /\ UNCHANGED <<task, running, storeFaults>> /\ pc \in ListPCs
        /\ \A t \in S : task[t].status \in ListedFrom(phase)
    BY <1>1, <1>2 DEF ListRecovering, ListRunning, WithStatus, ListPCs, ListedFrom, ListedAs, Phases
  <2>2. ListInto(S)
    BY <1>2 DEF ListRecovering, ListRunning
  <2> HIDE DEF S
  <2> QED
    BY <1>1, <2>1, <2>2, ListIntoRow, ListCount
<1>3. CASE ~ (ListRecovering \/ ListRunning)
  <2>1. pc \in {"next", "kill"} /\ pc \notin ListPCs
    BY <1>3 DEF MonitorRecovering, MonitorRunning, RequeueProvisioned, PromoteRecovered,
                StillRunning, StopToKill, KillTask, Inspecting, ListPCs
  <2>2. PICK u \in Task : u = Current
    BY <2>1, HandRow
  <2>3. InTable(task, u) /\ SlotRow(task[u]) /\ todo # {}
    BY <2>1, <2>2, HandRow
  <2>4. /\ task[u].status \in {"recovering", "running", "cancelled"} /\ task[u].cont = snap[u].cont
        /\ Untouched(u) /\ (u \in Holding <=> snap[u].cont # NoContainer)
        /\ phase = "running" => snap[u].cont # NoContainer
    BY <1>1, <2>1, <2>2, MonitoredRow
  <2>5. u \in SlotTasks <=> u \in Holding
    BY <2>1, <2>2, SlotNext DEF HandledPCs
  <2>6. ASSUME UNCHANGED task PROVE Alone(u) /\ (u \in Holding' <=> u \in Holding)
    BY <2>6 DEF Alone, Holding
  <2>7. CASE RequeueProvisioned \/ StopToKill
    <3>1. PICK label \in {"kill", "requeue"} :
            /\ Goto(label) /\ UNCHANGED <<task, storeFaults>>
            /\ label = "requeue" => snap[u].cont = NoContainer
      BY <2>2, <2>7 DEF RequeueProvisioned, StopToKill
    <3>2. RowInv' /\ UNCHANGED <<phase, todo, snap>> /\ pc' \notin ListPCs
      BY <1>1, <2>1, <2>2, <2>3, <2>4, <2>6, <3>1, GotoRow
    <3>3. u \in SlotTasks' <=> u \in SlotTasks
      BY <2>2, <2>4, <2>5, <2>6, <3>1, SlotNext DEF HandledPCs
    <3> QED
      BY <1>1, <2>1, <2>2, <2>6, <3>1, <3>2, <3>3, HandCount
  <2>8. CASE StillRunning \/ PromoteRecovered
    <3>1. /\ Continue /\ Alone(u) /\ storeFaults' >= storeFaults
          /\ SlotRow(task'[u]) /\ (u \in Holding' <=> u \in Holding)
      <4>1. CASE StillRunning
        BY <1>1, <2>3, <2>6, <4>1 DEF StillRunning
      <4>2. CASE PromoteRecovered
        <5>1. Continue /\ Write(UpdateTaskStatus(task, u, "running")) /\ snap[u].cont # NoContainer
          BY <2>2, <4>2 DEF PromoteRecovered, Inspecting
        <5>2. Wrote(u, "running", task[u].inst, task[u].cont)
          BY <1>1, <2>3, <5>1, Statement DEF TaskStatus
        <5> QED
          BY <2>3, <2>4, <5>1, <5>2 DEF Wrote, SlotRow, Holding
      <4> QED
        BY <2>8, <4>1, <4>2
    <3>2. RowInv'
      BY <1>1, <2>1, <2>2, <3>1, NextRow
    <3>3. u \in SlotTasks' <=> u \in SlotTasks
      BY <2>2, <2>5, <3>1, SlotNext
    <3> QED
      BY <1>1, <2>1, <2>2, <3>1, <3>2, <3>3, HandCount
  <2>9. CASE KillTask
    <3>1. pc = "kill" /\ Goto("release") /\ Write(CompleteTask(task, u, "failed")) /\ phase = "running"
      BY <2>2, <2>9 DEF KillTask
    <3>2. Wrote(u, "failed", task[u].inst, task[u].cont)
      BY <1>1, <2>3, <3>1, Statement DEF TaskStatus
    <3>3. Alone(u) /\ storeFaults' >= storeFaults /\ SlotRow(task'[u]) /\ task'[u].status # "new"
          /\ (storeFaults' = 0 => task'[u].status = "failed")
      BY <2>3, <2>4, <3>2 DEF Wrote, SlotRow
    <3>4. RowInv' /\ UNCHANGED <<phase, todo, snap>> /\ pc' \notin ListPCs
      BY <1>1, <2>1, <2>2, <2>4, <3>1, <3>3, GotoRow
    <3>5. u \in SlotTasks' /\ u \in SlotTasks
      BY <2>2, <2>4, <2>5, <3>1, SlotNext
    <3> QED
      BY <1>1, <2>1, <2>2, <3>3, <3>4, <3>5, HandCount
  <2> QED
    BY <1>3, <2>7, <2>8, <2>9 DEF MonitorRecovering, MonitorRunning
<1> QED
  BY <1>2, <1>3

\* releaseSlot, on every path.
LEMMA ReleaseAccount ==
  ASSUME IInv, IInv', RowInv, CountsOK, ReleaseSlot
  PROVE  RowInv' /\ CountsOK'
<1>1. /\ pc \in {"release", "releaseCompleted"} /\ pc \notin ListPCs /\ pc \in HandledPCs
      /\ DecrementRunning /\ UNCHANGED task /\ RestOK /\ LoopOK
  BY IInvParts DEF ReleaseSlot, ListPCs, HandledPCs
<1>2. PICK u \in Task : u = Current
  BY <1>1, HandRow
<1>3. /\ InTable(task, u) /\ SlotRow(task[u]) /\ ListedRow(u) /\ todo # {} /\ Alone(u)
      /\ phase \in {"cancelled", "recovering", "running"} /\ phase \in TaskPhases
      /\ pc = "releaseCompleted" => phase # "cancelled"
  BY <1>1, <1>2, HandRow, LabelPhase DEF Alone, TaskPhases
<1>4. /\ storeFaults \in Nat /\ storeFaults' >= storeFaults
  BY <1>1 DEF ReleaseSlot, WriteInstance, StoreFails, RestOK
<1>5. u \in SlotTasks
  BY <1>1, <1>2, SlotNext
<1>6. storeFaults' = 0 => task[u].status \in {"failed", "completed", "cancelled"}
  BY <1>1, <1>2, <1>3, <1>4 DEF ListedRow
<1>7. CASE pc = "releaseCompleted"
  <2>1. Continue /\ phase # "cancelled"
    BY <1>3, <1>7 DEF ReleaseSlot
  <2>2. RowInv'
    BY <1>1, <1>2, <1>3, <2>1, NextRow
  <2>3. Quiet' => u \notin SlotTasks'
    <3>1. u \notin todo'
      BY <1>1, <1>2, <2>1 DEF Continue, EnterPhase, LoopOK
    <3>2. Quiet' => task[u].status # "cancelled"
      BY <1>1, <3>1 DEF Quiet, Settled, WithStatus
    <3>3. Quiet' => u \notin Holding'
      BY <1>1, <1>6, <3>2 DEF Holding, Quiet
    <3> QED
      BY <1>2, <2>1, <3>3, SlotNext
  <2> QED
    BY <1>1, <1>2, <1>3, <1>4, <1>5, <2>1, <2>2, <2>3, HandCount
<1>8. CASE pc = "release"
  <2>1. PICK label \in {"clear", "ready"} : Goto(label) /\ (label = "clear" <=> phase = "cancelled")
    BY <1>8 DEF ReleaseSlot
  <2>2. RowInv' /\ UNCHANGED <<phase, todo, snap>> /\ pc' \notin ListPCs
    <3>1. CASE phase # "cancelled"
      BY <1>1, <1>2, <1>3, <1>6, <2>1, <3>1, GotoRow DEF InTable, Absent
    <3>2. CASE phase = "cancelled"
      <4>1. UNCHANGED <<phase, todo, snap>> /\ pc' = "clear" /\ Current' = u /\ pc' \notin ListPCs
        BY <1>2, <2>1, <3>2 DEF Goto, Current, ListPCs
      <4>2. ListedRow(u)' /\ LaunchShape'
        BY <1>1, <1>2, <1>3, <3>2, <4>1 DEF ListedRow, LaunchShape, Untouched, HandledPCs
      <4> QED
        BY <1>1, <1>2, <1>3, <4>1, <4>2, WithinRow
    <3> QED
      BY <3>1, <3>2
  <2>3. u \notin SlotTasks'
    BY <1>2, <2>1, SlotNext DEF HandledPCs
  <2> QED
    BY <1>1, <1>2, <1>3, <1>4, <1>5, <2>2, <2>3, HandCount
<1> QED
  BY <1>1, <1>7, <1>8

\* markRetryReady, after which the loop goes on.
LEMMA ReadyAccount ==
  ASSUME IInv, IInv', RowInv, CountsOK, MarkRetryReady
  PROVE  RowInv' /\ CountsOK'
<1>1. /\ pc = "ready" /\ pc \notin ListPCs /\ pc \in HandledPCs /\ Continue
      /\ running' = running /\ RestOK /\ LoopOK
  BY IInvParts DEF MarkRetryReady, memory, ListPCs, HandledPCs
<1>2. PICK u \in Task : u = Current
  BY <1>1, HandRow
<1>3. /\ InTable(task, u) /\ SlotRow(task[u]) /\ ListedRow(u) /\ todo # {}
      /\ phase \in TaskPhases
  BY <1>1, <1>2, HandRow, LabelPhase DEF TaskPhases
<1>4. Wrote(u, task[u].status, task[u].inst, task[u].cont) /\ storeFaults \in Nat
  BY <1>1, <1>2, <1>3, Statement DEF MarkRetryReady, RestOK
<1>5. /\ Alone(u) /\ storeFaults' >= storeFaults /\ SlotRow(task'[u])
      /\ task'[u].status = task[u].status
  BY <1>3, <1>4 DEF Wrote, SlotRow
<1>6. RowInv'
  BY <1>1, <1>2, <1>3, <1>5, NextRow
<1>7. u \notin SlotTasks
  BY <1>1, <1>2, SlotNext
<1>8. Quiet' => u \notin SlotTasks'
  <2>1. u \notin todo'
    BY <1>1, <1>2 DEF Continue, EnterPhase, LoopOK
  <2>2. Quiet' => task'[u].status # "cancelled"
    BY <2>1 DEF Quiet, Settled, WithStatus
  <2>3. Quiet' => task[u].status \in {"failed", "completed", "cancelled"}
    BY <1>1, <1>2, <1>3, <1>4, <1>5 DEF Quiet, ListedRow
  <2>4. Quiet' => u \notin Holding'
    BY <1>5, <2>2, <2>3 DEF Holding
  <2> QED
    BY <1>1, <1>2, <2>4, SlotNext
<1> QED
  BY <1>1, <1>2, <1>3, <1>5, <1>6, <1>7, <1>8, HandCount

\* Second half of requeueTask.
LEMMA RequeueAccount ==
  ASSUME IInv, IInv', RowInv, CountsOK, Requeue
  PROVE  RowInv' /\ CountsOK'
<1>1. /\ pc = "requeue" /\ pc \notin ListPCs /\ Continue
      /\ running' = running /\ RestOK /\ LoopOK
  BY IInvParts DEF Requeue, memory, ListPCs
<1>2. PICK u \in Task : u = Current
  BY <1>1, HandRow
<1>3. /\ InTable(task, u) /\ SlotRow(task[u]) /\ todo # {}
      /\ phase \in TaskPhases /\ phase # "cancelled"
  BY <1>1, <1>2, HandRow, LabelPhase DEF TaskPhases
<1>4. Wrote(u, "pending", NoInstance, NoContainer) /\ storeFaults \in Nat
  BY <1>1, <1>2, <1>3, Statement DEF Requeue, RestOK
<1>5. /\ Alone(u) /\ storeFaults' >= storeFaults /\ SlotRow(task'[u])
      /\ storeFaults' = 0 => u \notin Holding'
  BY <1>3, <1>4 DEF Wrote, SlotRow, Holding
<1>6. RowInv'
  BY <1>1, <1>2, <1>3, <1>5, NextRow
<1>7. u \notin SlotTasks /\ (Quiet' => u \notin SlotTasks')
  BY <1>1, <1>2, <1>5, SlotNext DEF HandledPCs, Quiet
<1> QED
  BY <1>1, <1>2, <1>3, <1>5, <1>6, <1>7, HandCount

\* What the loops share.
LEMMA SharedAccount ==
  ASSUME IInv, IInv', RowInv, CountsOK, Shared
  PROVE  RowInv' /\ CountsOK'
<1> USE DEF tables, memory
<1>1. LoopOK /\ RestOK /\ storeFaults \in Nat
  BY IInvParts DEF RestOK
<1>2. CASE ListFails
  <2>1. /\ phase \in TaskPhases /\ UNCHANGED <<task, running>> /\ pc \in ListPCs
        /\ storeFaults' >= storeFaults /\ EnterPhase(NextPhase[phase])
    BY <1>1, <1>2 DEF ListFails, TaskPhases, ListPCs, StoreFails
  <2>2. {} \in SUBSET Task /\ \A t \in {} : task[t].status \in ListedFrom(phase)
    OBVIOUS
  <2>3. CountsOK'
    BY <2>1, <2>2, ListCount
  <2> QED
    BY <2>1, <2>3, EnterRow
<1>3. CASE CompleteExited \/ GiveUpInstance \/ CountInspectFailure
  <2>1. /\ pc = "next" /\ pc \notin ListPCs /\ phase \in {"recovering", "running"}
        /\ phase \in TaskPhases /\ phase # "cancelled"
        /\ phase = "recovering" => snap[Current].cont # NoContainer
    BY <1>3 DEF CompleteExited, GiveUpInstance, CountInspectFailure, Inspecting, ListPCs, TaskPhases
  <2>2. PICK u \in Task : u = Current
    BY <2>1, HandRow
  <2>3. /\ InTable(task, u) /\ SlotRow(task[u]) /\ todo # {}
        /\ task[u].status \in {"recovering", "running", "cancelled"} /\ Untouched(u)
        /\ u \in Holding /\ u \in SlotTasks /\ snap[u].cont # NoContainer
    BY <2>1, <2>2, HandRow, MonitoredRow, SlotNext DEF HandledPCs
  <2>4. CASE CompleteExited
    <3>1. PICK result \in {"completed", "failed"} :
            /\ Write(CompleteTask(task, u, result))
            /\ Goto(IF result = "completed" THEN "releaseCompleted" ELSE "release")
      BY <2>2, <2>4 DEF CompleteExited
    <3>2. PICK label \in {"release", "releaseCompleted"} : Goto(label)
      BY <3>1
    <3>3. Wrote(u, result, task[u].inst, task[u].cont) /\ running' = running
      BY <1>1, <2>3, <2>4, <3>1, Statement DEF TaskStatus, CompleteExited
    <3>4. /\ Alone(u) /\ storeFaults' >= storeFaults /\ SlotRow(task'[u]) /\ task'[u].status # "new"
          /\ storeFaults' = 0 => task'[u].status \in {"failed", "completed", "cancelled"}
      BY <2>3, <3>3 DEF Wrote, SlotRow
    <3>5. RowInv' /\ UNCHANGED <<phase, todo, snap>> /\ pc' \notin ListPCs
      BY <2>1, <2>2, <2>3, <3>2, <3>4, GotoRow
    <3>6. u \in SlotTasks'
      BY <2>2, <3>2, SlotNext
    <3> QED
      BY <2>1, <2>2, <2>3, <3>3, <3>4, <3>5, <3>6, HandCount
  <2>5. CASE GiveUpInstance
    <3>1. Goto("requeue") /\ UNCHANGED task /\ DecrementRunning /\ Alone(u) /\ storeFaults' >= storeFaults
      BY <1>1, <2>5 DEF GiveUpInstance, WriteInstance, StoreFails, Alone
    <3>2. RowInv' /\ UNCHANGED <<phase, todo, snap>> /\ pc' \notin ListPCs
      BY <2>1, <2>2, <2>3, <3>1, GotoRow
    <3>3. u \notin SlotTasks'
      BY <2>2, <3>1, SlotNext DEF HandledPCs
    <3> QED
      BY <2>1, <2>2, <2>3, <3>1, <3>2, <3>3, HandCount
  <2>6. CASE CountInspectFailure
    <3>1. Continue /\ UNCHANGED <<task, running, storeFaults>> /\ Alone(u) /\ storeFaults' >= storeFaults
      BY <1>1, <2>6 DEF CountInspectFailure, Alone
    <3>2. RowInv'
      BY <2>1, <2>2, <2>3, <3>1, NextRow
    <3>3. u \in SlotTasks'
      BY <2>2, <2>3, <3>1, SlotNext DEF Holding
    <3> QED
      BY <2>1, <2>2, <2>3, <3>1, <3>2, <3>3, HandCount
  <2> QED
    BY <1>3, <2>4, <2>5, <2>6
<1> QED
  BY <1>2, <1>3, ReleaseAccount, ReadyAccount, RequeueAccount DEF Shared

\* The row of the task that dispatchPending has in hand.
LEMMA DispatchedRow ==
  ASSUME IInv, RowInv, phase = "dispatch", pc \notin ListPCs, NEW u, u = Current
  PROVE  /\ u \in Task /\ InTable(task, u) /\ todo # {} /\ SlotRow(task[u]) /\ ListedRow(u)
         /\ task[u].cont = NoContainer /\ task[u].status # "running"
         /\ pc \in {"next", "run", "start", "fail"}
         /\ u \notin Holding /\ u \notin SlotTasks
<1>1. pc \in {"next", "run", "start", "fail"}
  BY IInvParts DEF LoopOK, LoopShape, Labels, Phases, ListPCs
<1>2. /\ u \in Task /\ InTable(task, u) /\ todo # {} /\ SlotRow(task[u]) /\ ListedRow(u)
      /\ task[u].cont = NoContainer
  BY HandRow DEF ListedRow
<1>3. u \notin SlotTasks
  BY <1>1, <1>2 DEF SlotTasks, Holding
<1> QED
  BY <1>1, <1>2, <1>3 DEF SlotRow, Holding

\* A step within a dispatch.
LEMMA DispatchRow ==
  ASSUME IInv, RowInv, phase = "dispatch", pc \notin ListPCs, NEW u, u = Current,
         UNCHANGED <<phase, todo, snap>>, Alone(u), SlotRow(task'[u]), task'[u].status # "new",
         task'[u].cont = NoContainer, pc' \in {"run", "start", "fail"},
         pc' \in {"run", "start"} => task'[u].inst \in Instance /\ chosen' \in Instance,
         pc' = "start" => Newest(u)' # NoContainer
  PROVE  RowInv' /\ pc' \notin ListPCs
<1>1. Current' = u /\ pc' \notin ListPCs
  BY DEF Current, ListPCs
<1>2. ListedRow(u)
  BY HandRow
<1>3. ListedRow(u)'
  BY <1>1, <1>2 DEF ListedRow, Untouched, HandledPCs
<1>4. LaunchShape'
  BY <1>1 DEF LaunchShape
<1> QED
  BY <1>1, <1>3, <1>4, WithinRow

\* dispatchPending: a slot is counted when Start has recorded the container.
LEMMA DispatchAccount ==
  ASSUME IInv, IInv', RowInv, CountsOK, DispatchPending
  PROVE  RowInv' /\ CountsOK'
<1> USE DEF At, tables, memory
<1>1. LoopOK /\ RestOK /\ storeFaults \in Nat /\ task \in TaskTable /\ ctr \in Seq(Container)
      /\ phase = "dispatch" /\ phase \in TaskPhases /\ phase # "cancelled"
  BY IInvParts DEF RestOK, TaskPhases, DispatchPending, ListPending, RejectRead, NoCapacity, Assign,
     RunAgent, Start, FailDispatch
<1>2. CASE ListPending
  <2> DEFINE S == OldestFirst(WithStatus(task, "pending"), MaxConcurrent - running)
  <2>1. /\ S \in SUBSET Task /\ UNCHANGED <<task, running, storeFaults>> /\ pc \in ListPCs
        /\ \A t \in S : task[t].status \in ListedFrom(phase)
    BY <1>1, <1>2 DEF ListPending, OldestFirst, WithStatus, ListPCs, ListedFrom, ListedAs, Phases
  <2>2. ListInto(S) \/ EnterPhase(NextPhase["dispatch"])
    BY <1>2 DEF ListPending
  <2> HIDE DEF S
  <2>3. storeFaults' >= storeFaults
    BY <1>1, <2>1
  <2>4. CASE ListInto(S)
    BY <1>1, <2>1, <2>3, <2>4, ListIntoRow, ListCount
  <2>5. CASE EnterPhase(NextPhase["dispatch"])
    BY <1>1, <2>1, <2>3, <2>5, EnterRow, ListCount
  <2> QED
    BY <2>2, <2>4, <2>5
<1>3. CASE ~ ListPending
  <2>1. pc \notin ListPCs
    BY <1>3 DEF DispatchPending, RejectRead, NoCapacity, Assign, RunAgent, Start, FailDispatch, ListPCs
  <2>2. PICK u \in Task : u = Current
    BY <2>1, HandRow
  <2>3. /\ InTable(task, u) /\ todo # {} /\ SlotRow(task[u]) /\ ListedRow(u)
        /\ task[u].cont = NoContainer /\ task[u].status \notin {"new", "running"}
        /\ u \notin Holding /\ u \notin SlotTasks
    BY <1>1, <2>1, <2>2, DispatchedRow DEF ListedRow
  <2>4. CASE RejectRead \/ FailDispatch \/ NoCapacity
    <3>1. Continue /\ running' = running
      BY <2>4 DEF RejectRead, FailDispatch, NoCapacity
    <3>2. Alone(u) /\ storeFaults' >= storeFaults /\ SlotRow(task'[u]) /\ task'[u].cont = NoContainer
      <4>1. CASE NoCapacity
        BY <1>1, <2>3, <4>1 DEF NoCapacity, Alone
      <4>2. CASE RejectRead \/ FailDispatch
        <5>1. Write(UpdateTaskStatus(task, u, "failed"))
          BY <2>2, <4>2 DEF RejectRead, FailDispatch
        <5>2. Wrote(u, "failed", task[u].inst, task[u].cont)
          BY <1>1, <2>3, <5>1, Statement DEF TaskStatus
        <5> QED
          BY <2>3, <5>2 DEF Wrote, SlotRow
      <4> QED
        BY <2>4, <4>1, <4>2
    <3>3. RowInv'
      BY <1>1, <2>1, <2>2, <3>1, <3>2, NextRow
    <3>4. u \notin SlotTasks'
      BY <2>2, <3>1, <3>2, SlotNext DEF Holding
    <3> QED
      BY <1>1, <2>1, <2>2, <2>3, <3>1, <3>2, <3>3, <3>4, HandCount
  <2>5. ASSUME UNCHANGED <<phase, todo, snap, running>>, Alone(u), SlotRow(task'[u]),
               task'[u].status # "new", task'[u].cont = NoContainer, storeFaults' >= storeFaults,
               pc' \in {"run", "start", "fail"},
               pc' \in {"run", "start"} => task'[u].inst \in Instance /\ chosen' \in Instance,
               pc' = "start" => Newest(u)' # NoContainer
        PROVE  RowInv' /\ CountsOK'
    <3>1. RowInv' /\ pc' \notin ListPCs
      BY <1>1, <2>1, <2>2, <2>5, DispatchRow
    <3>2. u \notin SlotTasks'
      BY <2>5 DEF SlotTasks, Holding, HandledPCs
    <3> QED
      BY <1>1, <2>1, <2>2, <2>3, <2>5, <3>1, <3>2, HandCount
  <2>6. CASE Assign
    <3>1. CASE UNCHANGED storeFaults
      <4> DEFINE i == Min(AvailableInstances)
      <4>1. /\ task' = AssignTask(task, Current, i) /\ chosen' = i /\ pc' = "run"
            /\ UNCHANGED <<phase, todo, snap, running>> /\ AvailableInstances # {}
        BY <1>1, <2>6, <3>1 DEF Assign, StoreFails
      <4>2. i \in Instance
        <5>1. AvailableInstances \in SUBSET Nat /\ AvailableInstances \subseteq Instance
          BY DEF AvailableInstances, InstancesWith, Instance
        <5> QED
          BY <4>1, <5>1, MinInSet
      <4> HIDE DEF i
      <4>3. Alone(u) /\ RowIs(task'[u], "provisioning", i, task[u].cont, task[u].ready)
        BY <1>1, <2>2, <2>3, <4>1, Effects
      <4> QED
        BY <1>1, <2>3, <2>5, <3>1, <4>1, <4>2, <4>3 DEF RowIs, SlotRow
    <3>2. CASE ~ UNCHANGED storeFaults
      <4>1. /\ UNCHANGED task /\ Goto("fail") /\ storeFaults' >= storeFaults /\ running' = running
            /\ Alone(u)
        BY <1>1, <2>6, <3>2 DEF Assign, StoreFails, Alone
      <4> QED
        BY <2>3, <2>5, <4>1 DEF Goto
    <3> QED
      BY <3>1, <3>2
  <2>7. CASE RunAgent
    <3>1. /\ UNCHANGED <<task, storeFaults, running, phase, todo, snap, chosen>> /\ pc = "run"
          /\ \/ pc' = "start" /\ (Launched \/ Relaunched)
             \/ pc' = "fail"
      BY <2>7 DEF RunAgent, Goto
    <3>2. Alone(u) /\ storeFaults' >= storeFaults
      BY <1>1, <3>1 DEF Alone
    <3>3. task[u].inst \in Instance /\ chosen \in Instance
      BY <2>2, <3>1 DEF RowInv, LaunchShape
    <3>4. ASSUME Launched \/ Relaunched PROVE Newest(u)' # NoContainer
      <4>1. CASE Launched
        <5>1. ctr' = Append(ctr, [task |-> u, inst |-> chosen, st |-> "live"])
              /\ ctr' \in Seq(Container)
          BY <2>2, <4>1 DEF Launched, IInv, TypeOK
        <5> QED
          BY <1>1, <5>1, LaunchAdds
      <4>2. CASE Relaunched
        BY <2>2, <4>2 DEF Relaunched, Newest
      <4> QED
        BY <3>4, <4>1, <4>2
    <3> QED
      BY <2>3, <2>5, <3>1, <3>2, <3>3, <3>4
  <2>8. CASE Start
    <3>1. CASE UNCHANGED storeFaults
      <4>1. /\ task' = StartTask(task, u, Newest(u)) /\ Continue /\ running' = running + 1
            /\ pc = "start"
        BY <1>1, <2>2, <2>8, <3>1 DEF Start, StoreFails
      <4>2. Newest(u) # NoContainer /\ task[u].inst \in Instance
        BY <2>2, <4>1 DEF RowInv, LaunchShape
      <4>3. Alone(u) /\ RowIs(task'[u], "running", task[u].inst, Newest(u), task[u].ready)
        BY <1>1, <2>3, <4>1, Effects
      <4>4. SlotRow(task'[u]) /\ u \in Holding'
        BY <4>2, <4>3 DEF RowIs, SlotRow, Holding
      <4>5. u \in SlotTasks'
        BY <2>2, <4>1, <4>4, SlotNext
      <4>6. RowInv'
        BY <1>1, <2>1, <2>2, <4>1, <4>3, <4>4, NextRow
      <4> QED
        BY <1>1, <2>1, <2>2, <2>3, <3>1, <4>1, <4>3, <4>5, <4>6, HandCount
    <3>2. CASE ~ UNCHANGED storeFaults
      <4>1. /\ UNCHANGED task /\ Goto("fail") /\ storeFaults' >= storeFaults /\ running' = running
            /\ Alone(u)
        BY <1>1, <2>8, <3>2 DEF Start, StoreFails, Alone
      <4> QED
        BY <2>3, <2>5, <4>1 DEF Goto
    <3> QED
      BY <3>1, <3>2
  <2> QED
    BY <1>3, <2>4, <2>6, <2>7, <2>8 DEF DispatchPending
<1> QED
  BY <1>2, <1>3

-----------------------------------------------------------------------------
(* Recovery counts the tasks it lists.                                       *)

\* What recovery has counted.
Counting == WereRunning \cup PreviouslyRunning

RecoveryOK ==
  /\ Counting \subseteq Holding
  /\ \A t \in Counting : snap[t].inst \in Instance
  /\ pc = "list" => todo = {} /\ Counting = {}
  /\ pc = "clear" => snap[Current].status = "provisioning"
  /\ pc \in {"listProvisioning", "listRecovering"} => Counting \subseteq todo
  /\ pc # "list" /\ storeFaults = 0 =>
       \A t \in Task : task[t].status = "running" => t \in Counting
  /\ pc \in {"next", "clear", "finish"} /\ storeFaults = 0 =>
       \A t \in Holding : task[t].status # "cancelled" => t \in Counting

-----------------------------------------------------------------------------
(* Requests.                                                                 *)

NoRetries == "retry" \notin Ops \/ MaxUserRetries = 0

\* A request leaves a new task, or a failed one, pending; or it cancels a task.
Queued(u) ==
  /\ task[u].status \in {"new", "failed"} /\ u \notin todo
  /\ task'[u].status = "pending" /\ task'[u].cont = NoContainer

Cancelled(u) ==
  /\ task[u].status # "new"
  /\ task'[u].status = "cancelled"
  /\ task'[u].inst = task[u].inst /\ task'[u].cont = task[u].cont

\* Nobody retries, or no task has been retried, or no row in hand is stale.
Retriable == NoRetries \/ NoneRetried' \/ FreshInv

\* Without deletions, and with retries only as above, that is all a request does.
LEMMA Requested ==
  ASSUME "delete" \notin Ops, Retriable, IInv, RowInv, ApiStep
  PROVE  /\ UNCHANGED <<loop, inst, ctr, running, storeFaults, crashes, faults>>
         /\ UNCHANGED task \/ \E u \in Task : Alone(u) /\ (Queued(u) \/ Cancelled(u))
<1>1. LoopOK /\ RestOK
  BY IInvParts
<1>2. UNCHANGED <<loop, inst, ctr, running, storeFaults, crashes, faults>>
  BY DEF ApiStep, Create, BeginCancel, BeginDelete, BeginRetry, Admit, FinishCancel, FinishDelete,
         FinishRetry, Finish, world, tables, memory, budget
<1> DEFINE Moves == UNCHANGED task \/ \E u \in Task : Alone(u) /\ (Queued(u) \/ Cancelled(u))
<1>3. ASSUME NEW u \in Task, Create(u) PROVE Moves
  <2>1. /\ task[u].status = "new" /\ Alone(u)
        /\ task'[u] = [EmptyRow EXCEPT !.status = "pending"]
    BY <1>1, <1>3 DEF Create, CreateTask, RestOK, TaskTable, Alone
  <2>2. u \notin todo
    BY <2>1 DEF RowInv, ListedRow
  <2> QED
    BY <2>1, <2>2 DEF Queued, EmptyRow
<1>4. ASSUME NEW r \in Requests, FinishCancel(r) PROVE Moves
  <2>1. PICK u \in Task : task' = UpdateTaskStatus(task, u, "cancelled")
    BY <1>1, <1>4 DEF FinishCancel, Finish, CancelTask, RestOK, RequestShape, NoRequest
  <2>2. CASE InTable(task, u)
    <3>1. Alone(u) /\ RowIs(task'[u], "cancelled", task[u].inst, task[u].cont, task[u].ready)
      BY <1>1, <2>1, <2>2, Effects DEF RestOK, TaskStatus
    <3> QED
      BY <2>2, <3>1 DEF RowIs, Cancelled, InTable, Absent
  <2>3. CASE ~ InTable(task, u)
    BY <2>1, <2>3 DEF UpdateTaskStatus, UpdateRow
  <2> QED
    BY <2>2, <2>3
<1>5. ASSUME NEW r \in Requests, FinishDelete(r) PROVE FALSE
  <2>1. req[r].op \in Ops \cup {"none"}
    BY <1>1 DEF RestOK
  <2> QED
    BY <1>5, <2>1 DEF FinishDelete, Finish
<1>6. ASSUME NEW r \in Requests, FinishRetry(r) PROVE Moves
  <2> DEFINE u == req[r].task
             row == [task[u] EXCEPT !.status = "pending", !.inst = NoInstance,
                                    !.cont = NoContainer, !.started = FALSE,
                                    !.ready = FALSE, !.uretry = @ + 1]
  <2>1. u \in Task /\ req[r].op \in Ops \cup {"none"} /\ req[r].op = "retry"
    BY <1>1, <1>6 DEF FinishRetry, Finish, RestOK, RequestShape, NoRequest
  <2>2. row.status = "pending" /\ row.cont = NoContainer
    BY <1>1, <2>1 DEF RestOK, TaskTable, Row
  <2>3. task' = task \/ (RetryAllowed(task[u]) /\ task' = UpdateRow(task, u, row))
    BY <1>6, Zenon DEF FinishRetry, Finish, RetryTask
  <2>4. task[u].uretry \in Nat
    BY <1>1, <2>1 DEF RestOK, TaskTable, Row
  <2>5. ASSUME RetryAllowed(task[u]), task'[u].uretry # 0 PROVE FreshInv
    BY <2>1, <2>4, <2>5, StoreAssumption DEF RetryAllowed, NoRetries, NoneRetried, Retriable
  <2>7. row.uretry # 0
    BY <1>1, <2>1, <2>4 DEF RestOK, TaskTable, Row
  <2> HIDE DEF row, u
  <2>6. CASE task' # task
    <3>1. Alone(u) /\ task'[u] = row
      BY <1>1, <2>1, <2>3, <2>6 DEF UpdateRow, Alone, RestOK, TaskTable
    <3>2. FreshRow(u) /\ task[u].ready
      BY <2>1, <2>3, <2>5, <2>6, <2>7, <3>1 DEF FreshInv, RetryAllowed
    <3>3. task[u].status = "failed" /\ u \notin todo
      BY <3>2 DEF FreshRow
    <3> QED
      BY <2>1, <2>2, <3>1, <3>3 DEF Queued
  <2> QED
    BY <2>6
<1>7. ASSUME NEW r \in Requests, NEW u \in Task,
             BeginCancel(r, u) \/ BeginDelete(r, u) \/ BeginRetry(r, u)
      PROVE  Moves
  BY <1>7 DEF BeginCancel, BeginDelete, BeginRetry, Admit, tables
<1>8. Moves
  BY <1>3, <1>4, <1>5, <1>6, <1>7 DEF ApiStep
<1> QED
  BY <1>2, <1>8

\* A request, or a step of the world, beside the loops.
LEMMA BesideRow ==
  ASSUME IInv, RowInv, ContainersKept, UNCHANGED <<loop, storeFaults>>,
         UNCHANGED task \/ \E u \in Task : Alone(u) /\ (Queued(u) \/ Cancelled(u))
  PROVE  RowInv'
<1>1. /\ UNCHANGED <<phase, pc, todo, snap, chosen>> /\ Current' = Current /\ LoopOK
  BY IInvParts DEF loop, Current
<1>2. Newest(Current)' = Newest(Current)
  <2>1. \A t : Newest(t)' = Newest(t)
    BY KeptLaunches
  <2> QED
    BY <1>1, <2>1
<1>3. CASE UNCHANGED task
  BY <1>1, <1>2, <1>3 DEF RowInv, LaunchShape, ListedRow, Untouched
<1>4. ASSUME NEW u \in Task, Alone(u), Queued(u) \/ Cancelled(u)
      PROVE  RowInv'
  <2>1. SlotRow(task'[u])
    BY <1>4 DEF RowInv, SlotRow, Queued, Cancelled
  <2>2. \A t \in Task : SlotRow(task'[t])
    BY <1>4, <2>1 DEF RowInv, Alone
  <2>3. LaunchShape'
    <3>1. pc \in {"run", "start"} => Current \in todo /\ Current \in Task
      BY <1>1, InHand DEF ListPCs
    <3>2. pc \in {"run", "start"} => task'[Current].inst = task[Current].inst
      BY <1>4, <3>1 DEF Alone, Queued, Cancelled
    <3> QED
      BY <1>1, <1>2, <3>2 DEF RowInv, LaunchShape
  <2>4. ASSUME NEW t \in todo' PROVE ListedRow(t)'
    <3>1. t \in todo /\ ListedRow(t) /\ t \in Task
      BY <1>1, <2>4 DEF RowInv, LoopOK
    <3>2. CASE t = u
      BY <1>1, <1>4, <3>1, <3>2 DEF Queued, Cancelled, ListedRow, Untouched
    <3>3. CASE t # u
      <4>1. task'[t] = task[t]
        BY <1>4, <3>1, <3>3 DEF Alone
      <4> QED
        BY <1>1, <3>1, <4>1 DEF ListedRow, Untouched
    <3> QED
      BY <3>2, <3>3
  <2> QED
    BY <2>2, <2>3, <2>4 DEF RowInv
<1> QED
  BY <1>3, <1>4

\* A cancel that comes after the end of its task makes its row one that holds a
\* slot again, which o.running does not count; the account is Quiet no more.
LEMMA BesideCount ==
  ASSUME IInv, IInv', RowInv, CountsOK, Up, Mode # "ec2", NoHosts,
         UNCHANGED <<loop, running, storeFaults>>,
         UNCHANGED task \/ \E u \in Task : Alone(u) /\ (Queued(u) \/ Cancelled(u))
  PROVE  CountsOK'
<1>1. /\ UNCHANGED <<phase, pc, todo, snap>> /\ Current' = Current /\ LoopOK
  BY IInvParts DEF loop, Current
<1>2. CASE UNCHANGED task
  BY <1>1, <1>2 DEF CountsOK, SlotTasks, Holding, Quiet, Settled, WithStatus
<1>3. ASSUME NEW u \in Task, Alone(u), Queued(u) \/ Cancelled(u)
      PROVE  CountsOK'
  <2>1. \A t \in Task : t # u => (t \in SlotTasks' <=> t \in SlotTasks)
    <3>1. \A t \in Task : t # u => (t \in Holding' <=> t \in Holding)
      BY <1>3 DEF Holding, Alone
    <3> QED
      BY <1>1, <3>1 DEF SlotTasks
  <2>2. Quiet' => Quiet
    BY <1>1, <1>3 DEF Quiet, Settled, WithStatus, Alone, Queued, Cancelled
  <2>3. CASE Queued(u)
    <3>1. pc \in HandledPCs \cup {"requeue"} => Current \in todo
      BY <1>1, InHand DEF ListPCs, HandledPCs
    <3>2. u \notin SlotTasks /\ u \notin SlotTasks'
      BY <1>1, <2>3, <3>1 DEF Queued, SlotTasks, Holding
    <3> QED
      BY <1>3, <2>1, <2>2, <3>2, CountStep DEF SlotTasks
  <2>4. CASE Cancelled(u)
    <3>1. u \in Holding => u \in Holding'
      BY <2>4 DEF Cancelled, Holding
    <3>2. ASSUME Quiet', u \in Holding', ~ (u = Current /\ pc \in HandledPCs \cup {"requeue"})
          PROVE  u \in Holding
      <4>1. u \in todo /\ phase # "cancelled"
        BY <1>1, <2>4, <3>2 DEF Quiet, Settled, WithStatus, Cancelled
      <4>2. ListedRow(u) /\ Untouched(u) /\ SlotRow(task[u])
        BY <3>2, <4>1 DEF RowInv, Untouched
      <4>3. phase \in {"recovering", "running", "dispatch", "evaluate"}
        BY <1>1, <4>1 DEF NoHosts, Up, LoopOK, Phases
      <4>4. snap[u].status \in {"recovering", "running", "pending"}
        BY <4>2, <4>3 DEF ListedRow, ListedFrom, ListedAs, Phases
      <4>5. task[u].cont # NoContainer
        BY <2>4, <3>2 DEF Cancelled, Holding
      <4> QED
        BY <4>2, <4>4, <4>5 DEF ListedRow, SlotRow, Holding
    <3>3. /\ u \in SlotTasks => u \in SlotTasks'
          /\ Quiet' /\ u \in SlotTasks' => u \in SlotTasks
      BY <1>1, <3>1, <3>2 DEF SlotTasks
    <3>4. SlotTasks \subseteq Task /\ SlotTasks' \subseteq Task
      BY DEF SlotTasks
    <3>5. SlotTasks \subseteq SlotTasks' /\ (Quiet' => SlotTasks' = SlotTasks)
      BY <2>1, <3>3, <3>4
    <3> QED
      BY <1>3, <2>2, <3>5, CountStep
  <2> QED
    BY <1>3, <2>3, <2>4
<1> QED
  BY <1>2, <1>3

\* A task that is cancelled while the server recovers keeps its slot.
LEMMA BesideRecovery ==
  ASSUME IInv, RowInv, RecoveryOK, UNCHANGED <<loop, storeFaults>>,
         UNCHANGED task \/ \E u \in Task : Alone(u) /\ (Queued(u) \/ Cancelled(u))
  PROVE  RecoveryOK'
<1>1. /\ UNCHANGED <<phase, pc, todo, snap>> /\ Current' = Current
      /\ Counting' = Counting /\ Counting \subseteq Holding
  BY DEF loop, Current, Counting, WereRunning, PreviouslyRunning, RecoveryOK
<1>2. CASE UNCHANGED task
  BY <1>1, <1>2 DEF RecoveryOK, Holding
<1>3. ASSUME NEW u \in Task, Alone(u), Queued(u) \/ Cancelled(u)
      PROVE  RecoveryOK'
  <2>1. /\ Counting \subseteq Holding'
        /\ \A t \in Holding' : task'[t].status # "cancelled" => t \in Holding /\ task[t].status # "cancelled"
        /\ \A t \in Task : task'[t].status = "running" => task[t].status = "running"
    BY <1>1, <1>3 DEF Holding, Alone, Queued, Cancelled
  <2> QED
    BY <1>1, <2>1 DEF RecoveryOK
<1> QED
  BY <1>2, <1>3

-----------------------------------------------------------------------------
(* Recovery.                                                                 *)

\* The first two lists.
LEMMA CollectAccount ==
  ASSUME IInv, RowInv, RecoveryOK, NEW s \in {"running", "provisioning"}, NEW label, NEW rest,
         <<s, label, rest>> \in {<<"running", "list", "listProvisioning">>,
                                 <<"provisioning", "listProvisioning", "listRecovering">>},
         Collect(s, label, rest)
  PROVE  RowInv' /\ RecoveryOK' /\ phase' = "recover"
<1>1. /\ LoopOK /\ storeFaults \in Nat /\ phase = "recover" /\ phase' = "recover"
      /\ pc = label /\ pc' = rest /\ pc \in {"list", "listProvisioning"}
      /\ pc' \in {"listProvisioning", "listRecovering"}
      /\ (label = "list" <=> s = "running") /\ (pc' = "listProvisioning" <=> s = "running")
      /\ UNCHANGED task
  BY IInvParts DEF RestOK, Collect, At, tables
<1>2. /\ Counting \subseteq Task /\ Counting \subseteq Holding
      /\ \A t \in Counting : snap[t].inst \in Instance
      /\ s = "running" => Counting = {}
      /\ s = "provisioning" => Counting \subseteq todo
  BY <1>1 DEF Counting, WereRunning, PreviouslyRunning, RecoveryOK
<1>3. /\ \A t \in Task : Untouched(t) /\ SlotRow(task[t])
      /\ \A t \in Task : Untouched(t)'
  BY <1>1 DEF Untouched, RowInv, HandledPCs
<1>4. Holding' = Holding
  BY <1>1 DEF Holding
<1>5. CASE storeFaults' = storeFaults
  <2>1. /\ snap' = [t \in Task |-> IF task[t].status = s THEN task[t] ELSE snap[t]]
        /\ todo' = todo \cup WithStatus(task, s)
    BY <1>1, <1>5 DEF Collect, StoreFails
  <2>2. Counting' = IF s = "running" THEN WithStatus(task, s) ELSE Counting
    <3>1. CASE s = "running"
      <4>1. \A t \in Task : t \in Counting' <=> task[t].status = "running"
        BY <1>2, <2>1, <3>1 DEF Counting, WereRunning, PreviouslyRunning
      <4> QED
        BY <3>1, <4>1 DEF Counting, WereRunning, PreviouslyRunning, WithStatus
    <3>2. CASE s = "provisioning"
      <4>1. \A t \in Counting : task[t].status # "provisioning"
        BY <1>2 DEF Holding
      <4>2. \A t \in Task : t \in Counting' <=> t \in Counting
        BY <2>1, <3>2, <4>1 DEF Counting, WereRunning, PreviouslyRunning
      <4> QED
        BY <3>2, <4>2 DEF Counting, WereRunning, PreviouslyRunning
    <3> QED
      BY <3>1, <3>2
  <2>3. ASSUME NEW t \in todo' PROVE ListedRow(t)'
    <3>1. t \in Task /\ SlotRow(task[t]) /\ phase = "recover"
          /\ ListedFrom(phase) = {"running", "provisioning"}
      BY <1>1, <1>3, <2>1, <2>3 DEF LoopOK, WithStatus, ListedFrom, ListedAs, Phases
    <3>2. CASE task[t].status = s
      <4>1. snap'[t] = task[t]
        BY <2>1, <3>1, <3>2
      <4> QED
        BY <1>1, <3>1, <3>2, <4>1 DEF SlotRow, ListedRow
    <3>3. CASE task[t].status # s
      <4>1. snap'[t] = snap[t] /\ t \in todo
        BY <2>1, <2>3, <3>1, <3>3 DEF WithStatus
      <4>2. ListedRow(t) /\ Untouched(t)
        BY <1>3, <3>1, <4>1 DEF RowInv
      <4> QED
        BY <1>1, <4>1, <4>2 DEF ListedRow
    <3> QED
      BY <3>2, <3>3
  <2>4. RowInv'
    BY <1>1, <1>3, <2>3 DEF RowInv, LaunchShape
  <2>5. /\ Counting' \subseteq Holding' /\ Counting' \subseteq todo'
        /\ \A t \in Counting' : snap'[t].inst \in Instance
    <3>1. CASE s = "running"
      BY <1>3, <1>4, <2>1, <2>2, <3>1 DEF WithStatus, SlotRow, Holding
    <3>2. CASE s = "provisioning"
      <4>1. \A t \in Counting : task[t].status # "provisioning" /\ t \in Task
        BY <1>2 DEF Holding
      <4> QED
        BY <1>2, <1>4, <2>1, <2>2, <3>2, <4>1
    <3> QED
      BY <3>1, <3>2
  <2>6. storeFaults' = 0 => \A t \in Task : task'[t].status = "running" => t \in Counting'
    BY <1>1, <1>5, <2>2 DEF WithStatus, RecoveryOK
  <2>7. RecoveryOK'
    BY <1>1, <2>5, <2>6 DEF RecoveryOK
  <2> QED
    BY <1>1, <2>4, <2>7
<1>6. CASE storeFaults' # storeFaults
  <2>1. UNCHANGED <<snap, todo>> /\ storeFaults' # 0
    BY <1>1, <1>6 DEF Collect, StoreFails
  <2>2. Counting' = Counting
    BY <2>1 DEF Counting, WereRunning, PreviouslyRunning
  <2>3. RowInv'
    <3>1. \A t \in todo' : ListedRow(t)'
      BY <1>1, <1>3, <2>1 DEF RowInv, ListedRow, LoopOK
    <3> QED
      BY <1>1, <1>3, <3>1 DEF RowInv, LaunchShape
  <2>4. RecoveryOK'
    BY <1>1, <1>2, <1>4, <2>1, <2>2 DEF RecoveryOK
  <2> QED
    BY <1>1, <2>3, <2>4
<1> QED
  BY <1>5, <1>6

\* The third list.
LEMMA OrphansAccount ==
  ASSUME IInv, IInv', RowInv, RecoveryOK, ListOrphansRecovering
  PROVE  RowInv' /\ (phase' = "recover" => RecoveryOK') /\ (phase' # "recover" => CountsOK')
<1>1. /\ LoopOK /\ storeFaults \in Nat /\ phase = "recover" /\ pc = "listRecovering"
      /\ UNCHANGED <<task, running>> /\ running = 0 /\ Counting \subseteq todo
      /\ Counting \subseteq Holding
      /\ \A t \in Counting : snap[t].inst \in Instance
      /\ storeFaults = 0 => \A t \in Task : task[t].status = "running" => t \in Counting
  BY IInvParts DEF RestOK, ListOrphansRecovering, At, tables, memory, SlotBudget, RecoveryOK
<1>2. PICK found \in {RecoveringContainers, {}} :
        /\ storeFaults' = 0 => storeFaults = 0 /\ found = RecoveringContainers
        /\ \/ todo = {} /\ found = {} /\ EnterPhase(FirstPhase)
           \/ /\ snap' = [t \in Task |-> IF t \in found THEN task[t] ELSE snap[t]]
              /\ pc' \in {"finish", "next"} /\ UNCHANGED <<phase, todo, chosen>>
  BY <1>1 DEF ListOrphansRecovering, StoreFails
<1>3. Holding' = Holding /\ \A t \in found : t \in Holding /\ task[t].status = "recovering"
  BY <1>1, <1>2 DEF Holding, RecoveringContainers, WithStatus
<1>4. CASE todo = {} /\ found = {} /\ EnterPhase(FirstPhase)
  <2>1. phase' = FirstPhase /\ phase' # "recover" /\ pc' = "list"
    BY <1>4, NextPhaseType DEF EnterPhase
  <2>2. FirstPhase = "cancelled" \/ FirstPhase = "spot"
    BY NextPhaseType
  <2>3. SlotTasks' = Holding'
    BY <2>1 DEF SlotTasks, Holding, HandledPCs
  <2>4. Quiet' => Holding' = {}
    <3> SUFFICES ASSUME Quiet', NEW t \in Holding PROVE FALSE
      BY <1>3
    <3>1. storeFaults = 0 /\ found = RecoveringContainers
      BY <1>2 DEF Quiet
    <3>2. task[t].status # "running" /\ task[t].status # "recovering"
      BY <1>1, <1>4, <3>1 DEF Holding, RecoveringContainers, WithStatus
    <3>3. task[t].status # "cancelled"
      BY <1>1, <1>4 DEF Quiet, Settled, WithStatus, EnterPhase, Holding
    <3> QED
      BY <3>2, <3>3 DEF Holding
  <2>5. Holding' \in SUBSET Task
    BY DEF Holding
  <2>6. 0 <= Cardinality(Holding') /\ (Quiet' => Cardinality(Holding') = 0)
    BY <2>4, <2>5, FewerTasks, FS_EmptySet
  <2>7. CountsOK'
    BY <1>1, <2>3, <2>6 DEF CountsOK
  <2> QED
    BY <1>1, <1>4, <2>1, <2>7, EnterRow
<1>5. CASE /\ snap' = [t \in Task |-> IF t \in found THEN task[t] ELSE snap[t]]
           /\ pc' \in {"finish", "next"} /\ UNCHANGED <<phase, todo, chosen>>
  <2>1. \A t \in Task : Untouched(t) /\ Untouched(t)'
    BY <1>1, <1>5 DEF Untouched, HandledPCs
  <2>2. ASSUME NEW t \in todo' PROVE ListedRow(t)'
    <3>1. t \in todo /\ t \in Task /\ ListedRow(t)
      BY <1>1, <1>5, <2>2 DEF RowInv, LoopOK
    <3>2. task[t].status # "recovering"
      BY <1>1, <2>1, <3>1 DEF ListedRow, ListedFrom, ListedAs, Phases
    <3>3. snap'[t] = snap[t]
      BY <1>3, <1>5, <3>1, <3>2
    <3> QED
      BY <1>1, <1>5, <2>1, <3>1, <3>3 DEF ListedRow
  <2>3. RowInv'
    BY <1>1, <1>5, <2>2 DEF RowInv, LaunchShape
  <2>4. \A t \in Task : t \in Counting' <=> t \in Counting \/ t \in found
    <3>1. \A t \in found : task[t].status = "recovering" /\ task[t].cont # NoContainer
      BY <1>3 DEF Holding
    <3> QED
      BY <1>5, <3>1 DEF Counting, WereRunning, PreviouslyRunning
  <2>5. Counting' \subseteq Task
    BY DEF Counting, WereRunning, PreviouslyRunning
  <2>6. \A t \in Counting' : snap'[t].inst \in Instance
    BY <1>1, <1>3, <1>5, <2>4, <2>5 DEF RowInv, SlotRow, Holding
  <2>7. storeFaults' = 0 => \A t \in Holding' : task'[t].status # "cancelled" => t \in Counting'
    BY <1>1, <1>2, <1>3, <2>4 DEF Holding, RecoveringContainers, WithStatus
  <2>8. storeFaults' = 0 => \A t \in Task : task'[t].status = "running" => t \in Counting'
    BY <1>1, <1>2, <2>4
  <2>9. RecoveryOK'
    BY <1>1, <1>3, <1>5, <2>4, <2>5, <2>6, <2>7, <2>8 DEF RecoveryOK
  <2> QED
    BY <1>1, <1>5, <2>3, <2>9
<1> QED
  BY <1>2, <1>4, <1>5

\* One orphan after the other is marked.
LEMMA MarkAccount ==
  ASSUME IInv, IInv', RowInv, RecoveryOK, MarkRecovering \/ ClearProvisioned
  PROVE  RowInv' /\ RecoveryOK' /\ phase' = "recover"
<1> USE DEF At
<1>1. /\ LoopOK /\ RestOK /\ storeFaults \in Nat /\ phase = "recover" /\ pc \in {"next", "clear"}
      /\ pc \notin ListPCs /\ snap' = snap /\ phase' = phase
  BY IInvParts DEF RestOK, MarkRecovering, ClearProvisioned, Goto, NextOrphan, ListPCs
<1>2. PICK u \in Task : u = Current
  BY <1>1, HandRow
<1>3. InTable(task, u) /\ SlotRow(task[u]) /\ ListedRow(u)
  BY <1>1, <1>2, HandRow
<1>4. /\ snap[u].status \in {"running", "provisioning"}
      /\ snap[u].status = "provisioning" => task[u].cont = NoContainer
      /\ pc = "clear" => snap[u].status = "provisioning"
  BY <1>1, <1>2, <1>3 DEF ListedRow, ListedFrom, ListedAs, Phases, RecoveryOK
<1>5. /\ Alone(u) /\ storeFaults' >= storeFaults /\ SlotRow(task'[u]) /\ task'[u].status # "new"
      /\ snap[u].status = "provisioning" => task'[u].cont = NoContainer
      /\ u \in Holding => u \in Holding'
      /\ task'[u].status = "running" => task[u].status = "running"
  <2>1. CASE MarkRecovering
    <3>1. Wrote(u, "recovering", task[u].inst, task[u].cont)
      BY <1>1, <1>2, <1>3, <2>1, Statement DEF MarkRecovering, TaskStatus
    <3> QED
      BY <1>3, <1>4, <3>1 DEF Wrote, SlotRow, Holding, InTable, Absent
  <2>2. CASE ClearProvisioned
    <3>1. Wrote(u, task[u].status, NoInstance, NoContainer)
      BY <1>1, <1>2, <1>3, <2>2, Statement DEF ClearProvisioned
    <3>2. task[u].cont = NoContainer
      BY <1>4, <2>2 DEF ClearProvisioned
    <3> QED
      BY <1>3, <1>4, <3>1, <3>2 DEF Wrote, SlotRow, Holding, InTable, Absent
  <2> QED
    BY <2>1, <2>2
<1>6. NextOrphan \/ (Goto("clear") /\ snap[u].status = "provisioning")
  BY <1>2 DEF MarkRecovering, ClearProvisioned
<1>7. RowInv'
  <2>1. CASE NextOrphan
    BY <1>1, <1>2, <1>5, <2>1, NextRow
  <2>2. CASE Goto("clear") /\ snap[u].status = "provisioning"
    <3>1. UNCHANGED <<phase, todo, snap>> /\ pc' = "clear" /\ Current' = u
      BY <1>2, <2>2 DEF Goto, Current
    <3>2. ListedRow(u)' /\ LaunchShape'
      BY <1>1, <1>2, <1>3, <1>5, <2>2, <3>1 DEF ListedRow, LaunchShape, Untouched, HandledPCs
    <3> QED
      BY <1>1, <1>2, <1>5, <3>1, <3>2, WithinRow
  <2> QED
    BY <1>6, <2>1, <2>2
<1>8. Counting' = Counting /\ Counting \subseteq Holding /\ Counting \subseteq Task
  BY <1>1 DEF Counting, WereRunning, PreviouslyRunning, RecoveryOK
<1>9. Counting' \subseteq Holding'
  BY <1>5, <1>8 DEF Alone, Holding
<1>10. /\ pc' \in {"next", "clear", "finish"}
       /\ pc' = "clear" => snap'[Current'].status = "provisioning"
  BY <1>1, <1>2, <1>6 DEF Goto, NextOrphan, Current
<1>11. ASSUME storeFaults' = 0
       PROVE  /\ \A t \in Task : task'[t].status = "running" => t \in Counting
              /\ \A t \in Holding' : task'[t].status # "cancelled" => t \in Counting
  <2>1. storeFaults = 0
    BY <1>1, <1>5, <1>11
  <2>2. /\ \A t \in Task : task[t].status = "running" => t \in Counting
        /\ \A t \in Holding : task[t].status # "cancelled" => t \in Counting
    BY <1>1, <2>1 DEF RecoveryOK
  <2>3. u \in Holding' => u \in Counting
    BY <1>4, <1>5 DEF Counting, WereRunning, Holding
  <2> QED
    BY <1>5, <2>2, <2>3 DEF Alone, Holding
<1> QED
  BY <1>1, <1>7, <1>8, <1>9, <1>10, <1>11 DEF RecoveryOK

\* The counters are rebuilt.
LEMMA CountedTasks ==
  /\ WereRunning \in SUBSET Task /\ PreviouslyRunning \in SUBSET Task
  /\ Cardinality(Counting) = Cardinality(WereRunning) + Cardinality(PreviouslyRunning)
<1>1. /\ WereRunning \in SUBSET Task /\ PreviouslyRunning \in SUBSET Task
      /\ WereRunning \cap PreviouslyRunning = {}
  BY DEF WereRunning, PreviouslyRunning
<1>2. IsFiniteSet(WereRunning) /\ IsFiniteSet(PreviouslyRunning)
      /\ Cardinality(WereRunning) \in Nat /\ Cardinality(PreviouslyRunning) \in Nat
  BY <1>1, TasksFinite, FewerTasks
<1>3. Cardinality(WereRunning \cap PreviouslyRunning) = 0
  BY <1>1, FS_EmptySet
<1>4. Cardinality(WereRunning \cup PreviouslyRunning) =
        Cardinality(WereRunning) + Cardinality(PreviouslyRunning)
        - Cardinality(WereRunning \cap PreviouslyRunning)
  BY <1>2, FS_Union
<1>5. Cardinality(WereRunning \cup PreviouslyRunning) =
        Cardinality(WereRunning) + Cardinality(PreviouslyRunning)
  BY <1>2, <1>3, <1>4
<1> QED
  BY <1>1, <1>5 DEF Counting

\* What recovery has counted becomes o.running.
LEMMA RebuildAccount ==
  ASSUME IInv, IInv', RowInv, RecoveryOK, RebuildCounters
  PROVE  RowInv' /\ CountsOK'
<1>1. /\ phase = "recover" /\ pc = "finish" /\ UNCHANGED <<task, storeFaults>> /\ EnterPhase(FirstPhase)
      /\ running' = Cardinality(Counting)
  BY CountedTasks DEF RebuildCounters, At
<1>2. FirstPhase \in {"spot", "cancelled"}
  BY NextPhaseType
<1>3. SlotTasks' = Holding /\ Holding \in SUBSET Task
  BY <1>1 DEF EnterPhase, SlotTasks, Holding, HandledPCs
<1>4. Counting \in SUBSET Holding
  BY DEF RecoveryOK
<1>5. Cardinality(Counting) <= Cardinality(Holding)
  BY <1>3, <1>4, FewerTasks
<1>6. Quiet' => Counting = Holding
  <2>1. Quiet' => \A t \in Holding : task[t].status # "cancelled"
    BY <1>1 DEF Quiet, Settled, WithStatus, EnterPhase, Holding
  <2> QED
    BY <1>1, <1>4, <2>1 DEF RecoveryOK, Quiet
<1>7. CountsOK'
  BY <1>1, <1>3, <1>5, <1>6 DEF CountsOK
<1> QED
  BY <1>1, <1>7, EnterRow

-----------------------------------------------------------------------------
(* Before the second crash.                                                  *)

\* Before the first crash nothing has been recovered, and before the second
\* none but the tasks that recovery counts on their instances.
FirstCrashes ==
  /\ phase = "recover" => PreviouslyRunning = {}
  /\ phase = "down" => WithStatus(task, "recovering") = {}
  /\ phase = "recover" /\ pc \in {"list", "listProvisioning", "listRecovering"} =>
       WithStatus(task, "recovering") = {}
  /\ crashes = 0 =>
       /\ phase # "down" /\ WithStatus(task, "recovering") = {}
       /\ phase = "recovering" => todo = {}
       /\ phase = "recover" =>
            todo = {} /\ \A t \in Task : task[t].status \in {"new", "pending", "cancelled"}

\* Only recovery makes a task recovering.
LEMMA TickMarksNone ==
  ASSUME IInv, RowInv, TickStep, NoHosts
  PROVE  WithStatus(task, "recovering")' \subseteq WithStatus(task, "recovering")
<1> USE DEF At, tables
<1>1. LoopOK /\ RestOK /\ task \in TaskTable
  BY IInvParts DEF RestOK
<1>2. CASE UNCHANGED task
  BY <1>2 DEF WithStatus
<1>3. ASSUME NEW u \in Task, Alone(u),
             task'[u].status \in {task[u].status, "running", "completed", "failed", "pending", "provisioning"}
      PROVE  WithStatus(task, "recovering")' \subseteq WithStatus(task, "recovering")
  BY <1>3 DEF WithStatus, Alone
<1>4. pc \notin ListPCs => Current \in Task /\ InTable(task, Current)
  BY HandRow
<1>5. ASSUME pc \notin ListPCs, NEW s \in {"running", "completed", "failed"},
             Write(UpdateTaskStatus(task, Current, s)) \/ Write(CompleteTask(task, Current, s))
      PROVE  WithStatus(task, "recovering")' \subseteq WithStatus(task, "recovering")
  <2>1. Wrote(Current, s, task[Current].inst, task[Current].cont)
    BY <1>1, <1>4, <1>5, Statement DEF TaskStatus
  <2> QED
    BY <1>3, <1>4, <1>5, <2>1 DEF Wrote
<1>6. ASSUME pc \notin ListPCs,
             \/ Write(RequeueTask(task, Current))
             \/ Write(ClearTaskAssignment(task, Current))
             \/ Write(MarkReadyForRetry(task, Current))
      PROVE  WithStatus(task, "recovering")' \subseteq WithStatus(task, "recovering")
  <2>1. \/ Wrote(Current, "pending", NoInstance, NoContainer)
        \/ \E i, c : Wrote(Current, task[Current].status, i, c)
    BY <1>1, <1>4, <1>6, Statement
  <2> QED
    BY <1>3, <1>4, <1>6, <2>1 DEF Wrote
<1>7. CASE CheckInterruptions \/ Evaluate
  BY <1>7 DEF CheckInterruptions, DrainInstance, ListInterrupted, RequeueInterrupted,
              NoMoreInterruptions, Evaluate, NoHosts
<1>8. CASE MonitorCancelled
  BY <1>2, <1>6, <1>8 DEF MonitorCancelled, ListCancelled, CancelledWithoutContainer, StopCancelled,
                          ClearCancelled, ListPCs
<1>9. CASE MonitorRecovering \/ MonitorRunning
  BY <1>2, <1>5, <1>9 DEF MonitorRecovering, ListRecovering, RequeueProvisioned, PromoteRecovered,
     Inspecting, MonitorRunning, ListRunning, StillRunning, StopToKill, KillTask, ListPCs
<1>10. CASE Shared
  <2>1. CASE CompleteExited
    BY <1>5, <2>1 DEF CompleteExited, Inspecting, ListPCs
  <2> QED
    BY <1>2, <1>6, <1>10, <2>1 DEF Shared, ListFails, ReleaseSlot, MarkRetryReady, GiveUpInstance,
       CountInspectFailure, Requeue, ListPCs
<1>11. CASE DispatchPending
  <2>1. CASE Assign
    <3>1. pc \notin ListPCs /\ (UNCHANGED task \/ \E i : task' = AssignTask(task, Current, i))
      BY <2>1 DEF Assign, ListPCs
    <3>2. UNCHANGED task \/ (Alone(Current) /\ task'[Current].status = "provisioning")
      BY <1>1, <1>4, <3>1, Effects DEF RowIs
    <3> QED
      BY <1>2, <1>3, <1>4, <3>1, <3>2
  <2>2. CASE Start
    <3>1. pc \notin ListPCs /\ (UNCHANGED task \/ \E c : task' = StartTask(task, Current, c))
      BY <2>2 DEF Start, ListPCs
    <3>2. UNCHANGED task \/ (Alone(Current) /\ task'[Current].status = "running")
      BY <1>1, <1>4, <3>1, Effects DEF RowIs
    <3> QED
      BY <1>2, <1>3, <1>4, <3>1, <3>2
  <2>3. CASE RejectRead \/ FailDispatch
    BY <1>5, <2>3 DEF RejectRead, FailDispatch, ListPCs
  <2> QED
    BY <1>2, <1>11, <2>1, <2>2, <2>3 DEF DispatchPending, ListPending, NoCapacity, RunAgent
<1> QED
  BY <1>7, <1>8, <1>9, <1>10, <1>11 DEF TickStep

\* A loop that has another one follow it leaves no task in hand.
LEMMA TickEnters ==
  ASSUME IInv, TickStep
  PROVE  /\ phase' = phase \/ todo' = {}
         /\ phase = "recovering" /\ todo = {} /\ WithStatus(task, "recovering") = {} => todo' = {}
<1> USE DEF At
<1>1. LoopOK
  BY IInvParts
<1>2. /\ Continue => phase' = phase \/ todo' = {}
      /\ \A S : ListInto(S) => phase' = phase \/ todo' = {}
      /\ \A p : EnterPhase(p) => todo' = {}
      /\ \A label : Goto(label) => phase' = phase
  BY DEF Continue, ListInto, EnterPhase, Goto
<1>3. phase' = phase \/ todo' = {}
  <2>1. CASE CheckInterruptions \/ Evaluate
    BY <1>2, <2>1 DEF CheckInterruptions, DrainInstance, ListInterrupted, RequeueInterrupted,
                      NoMoreInterruptions, Evaluate
  <2>2. CASE MonitorCancelled
    BY <1>2, <2>2 DEF MonitorCancelled, ListCancelled, CancelledWithoutContainer, StopCancelled,
                      ClearCancelled
  <2>3. CASE MonitorRecovering \/ MonitorRunning
    BY <1>2, <2>3 DEF MonitorRecovering, ListRecovering, RequeueProvisioned, PromoteRecovered,
       MonitorRunning, ListRunning, StillRunning, StopToKill, KillTask
  <2>4. CASE Shared
    BY <1>2, <2>4 DEF Shared, ListFails, CompleteExited, ReleaseSlot, MarkRetryReady, GiveUpInstance,
       CountInspectFailure, Requeue
  <2>5. CASE DispatchPending
    BY <1>2, <2>5 DEF DispatchPending, ListPending, RejectRead, NoCapacity, Assign, RunAgent, Start,
       FailDispatch
  <2> QED
    BY <2>1, <2>2, <2>3, <2>4, <2>5 DEF TickStep
<1>4. ASSUME phase = "recovering", todo = {}, WithStatus(task, "recovering") = {}
      PROVE  todo' = {}
  <2>1. pc = "list"
    BY <1>1, <1>4 DEF LoopOK, LoopShape, ListPCs, Labels, Phases
  <2>2. ListRecovering \/ ListFails
    BY <1>4, <2>1 DEF TickStep, CheckInterruptions, DrainInstance, ListInterrupted, RequeueInterrupted,
       NoMoreInterruptions, Evaluate, MonitorCancelled, ListCancelled, CancelledWithoutContainer,
       StopCancelled, ClearCancelled, MonitorRecovering, RequeueProvisioned, PromoteRecovered,
       MonitorRunning, ListRunning, StillRunning, StopToKill, KillTask, Inspecting,
       Shared, CompleteExited, ReleaseSlot, MarkRetryReady, GiveUpInstance, CountInspectFailure, Requeue,
       DispatchPending, ListPending, RejectRead, NoCapacity, Assign, RunAgent, Start, FailDispatch
  <2> QED
    BY <1>4, <2>2 DEF ListRecovering, ListFails, ListInto, EnterPhase
<1> QED
  BY <1>3, <1>4

\* Recovery goes through its lists without a second crash.
LEMMA RecoverFirst ==
  ASSUME IInv, FirstCrashes, Recover
  PROVE  FirstCrashes' /\ phase' # "down" /\ UNCHANGED crashes
<1> USE DEF At
<1>1. LoopOK /\ phase = "recover" /\ UNCHANGED crashes /\ PreviouslyRunning = {}
  BY IInvParts DEF FirstCrashes, Recover, ListOrphansRunning, ListOrphansProvisioning, Collect,
     ListOrphansRecovering, MarkRecovering, ClearProvisioned, RebuildCounters, budget
<1>2. crashes = 0 => /\ todo = {} /\ WithStatus(task, "recovering") = {}
                     /\ \A t \in Task : task[t].status \in {"new", "pending", "cancelled"}
  BY <1>1 DEF FirstCrashes
<1>3. FirstPhase \in {"spot", "cancelled"}
  BY NextPhaseType
<1>4. ASSUME NEW s \in {"running", "provisioning"}, NEW label \in {"list", "listProvisioning"},
             NEW rest \in {"listProvisioning", "listRecovering"}, Collect(s, label, rest)
      PROVE  FirstCrashes' /\ phase' # "down"
  <2>1. /\ UNCHANGED <<task, phase>> /\ pc \in {"list", "listProvisioning"}
        /\ \/ snap' = [t \in Task |-> IF task[t].status = s THEN task[t] ELSE snap[t]]
              /\ todo' = todo \cup WithStatus(task, s)
           \/ UNCHANGED <<snap, todo>>
    BY <1>4 DEF Collect, tables
  <2>2. PreviouslyRunning' = {}
    BY <1>1, <2>1 DEF PreviouslyRunning
  <2>3. crashes = 0 => todo' = {}
    BY <1>2, <2>1 DEF WithStatus
  <2> QED
    BY <1>1, <1>2, <2>1, <2>2, <2>3 DEF FirstCrashes, WithStatus
<1>5. CASE ListOrphansRecovering
  <2>1. /\ UNCHANGED task /\ pc = "listRecovering" /\ WithStatus(task, "recovering") = {}
    BY <1>1, <1>5 DEF ListOrphansRecovering, tables, FirstCrashes
  <2>2. RecoveringContainers = {}
    BY <2>1 DEF RecoveringContainers
  <2>3. CASE EnterPhase(FirstPhase)
    BY <1>1, <1>2, <1>3, <2>1, <2>3 DEF EnterPhase, FirstCrashes, WithStatus
  <2>4. CASE /\ snap' = [t \in Task |-> IF t \in {} THEN task[t] ELSE snap[t]]
             /\ todo # {} /\ UNCHANGED <<phase, todo>>
    <3>1. snap' = snap
      BY <1>1, <2>4 DEF LoopOK
    <3>2. PreviouslyRunning' = {}
      BY <1>1, <3>1 DEF PreviouslyRunning
    <3>3. crashes # 0
      BY <1>2, <2>4
    <3> QED
      BY <1>1, <2>1, <2>4, <3>2, <3>3 DEF FirstCrashes, WithStatus
  <2> QED
    BY <1>1, <1>5, <2>2, <2>3, <2>4 DEF ListOrphansRecovering, EnterPhase, FirstPhase
<1>6. CASE MarkRecovering \/ ClearProvisioned
  <2>1. /\ pc \notin ListPCs /\ UNCHANGED <<snap, phase>> /\ pc' \in {"next", "clear", "finish"}
    BY <1>6 DEF MarkRecovering, ClearProvisioned, Goto, NextOrphan, ListPCs
  <2>2. crashes # 0
    BY <1>1, <1>2, <2>1, InHand
  <2>3. PreviouslyRunning' = {}
    BY <1>1, <2>1 DEF PreviouslyRunning
  <2> QED
    BY <1>1, <2>1, <2>2, <2>3 DEF FirstCrashes
<1>7. CASE RebuildCounters
  BY <1>1, <1>2, <1>3, <1>7 DEF RebuildCounters, EnterPhase, FirstCrashes, WithStatus
<1> QED
  BY <1>1, <1>4, <1>5, <1>6, <1>7 DEF Recover, ListOrphansRunning, ListOrphansProvisioning

\* Every other step, up to the second crash.
LEMMA FirstNext ==
  ASSUME Mode # "ec2", "delete" \notin Ops, Retriable, IInv, IInv', RowInv, LaunchInv,
         FirstCrashes, crashes' <= 1, Next
  PROVE  FirstCrashes'
<1>1. LoopOK /\ NoHosts /\ crashes \in Nat
  BY IInvParts DEF LaunchInv, RestOK
<1>2. CASE Recover
  BY <1>2, RecoverFirst
<1>3. CASE TickStep
  <2>1. phase \notin {"down", "recover"} /\ phase' \notin {"down", "recover"}
    BY <1>3, TickStaysUp DEF Up
  <2>2. UNCHANGED crashes
    BY <1>3 DEF TickStep, CheckInterruptions, DrainInstance, ListInterrupted, RequeueInterrupted,
       NoMoreInterruptions, Evaluate, MonitorCancelled, ListCancelled, CancelledWithoutContainer,
       StopCancelled, ClearCancelled, MonitorRecovering, ListRecovering, RequeueProvisioned,
       PromoteRecovered, MonitorRunning, ListRunning, StillRunning, StopToKill, KillTask, ListFails,
       Shared, CompleteExited, ReleaseSlot, MarkRetryReady, GiveUpInstance, CountInspectFailure, Requeue,
       DispatchPending, ListPending, RejectRead, NoCapacity, Assign, RunAgent, Start, FailDispatch, budget
  <2>3. WithStatus(task, "recovering")' \subseteq WithStatus(task, "recovering")
    BY <1>1, <1>3, TickMarksNone
  <2>4. crashes = 0 /\ phase' = "recovering" => todo' = {}
    BY <1>3, TickEnters DEF FirstCrashes
  <2> QED
    BY <2>1, <2>2, <2>3, <2>4 DEF FirstCrashes
<1>4. CASE ApiStep
  <2>1. /\ UNCHANGED <<phase, pc, todo, snap, crashes>>
        /\ UNCHANGED task \/ \E u \in Task : Alone(u) /\ (Queued(u) \/ Cancelled(u))
    BY <1>4, Requested DEF loop
  <2>2. WithStatus(task, "recovering")' \subseteq WithStatus(task, "recovering")
    BY <2>1 DEF WithStatus, Alone, Queued, Cancelled
  <2>3. (\A t \in Task : task[t].status \in {"new", "pending", "cancelled"}) =>
          (\A t \in Task : task'[t].status \in {"new", "pending", "cancelled"})
    BY <2>1 DEF Alone, Queued, Cancelled
  <2>4. PreviouslyRunning' = PreviouslyRunning
    BY <2>1 DEF PreviouslyRunning
  <2> QED
    BY <2>1, <2>2, <2>3, <2>4 DEF FirstCrashes
<1>5. CASE Crash
  <2>1. crashes = 0 /\ crashes' = 1 /\ UNCHANGED task /\ phase' = "down" /\ todo' = {}
    BY <1>1, <1>5 DEF Crash, EnterPhase, tables
  <2> QED
    BY <2>1 DEF FirstCrashes, WithStatus
<1>6. CASE Restart
  <2>1. /\ phase = "down" /\ phase' = "recover" /\ pc' = "list" /\ UNCHANGED <<task, crashes>>
        /\ todo' = {} /\ snap' = [t \in Task |-> EmptyRow]
    BY <1>6 DEF Restart, EnterPhase, budget
  <2>2. PreviouslyRunning' = {}
    BY <2>1 DEF PreviouslyRunning, EmptyRow
  <2> QED
    BY <2>1, <2>2 DEF FirstCrashes, WithStatus
<1>7. CASE WorldStep /\ ~ Crash /\ ~ Restart
  <2>1. UNCHANGED <<task, phase, pc, todo, snap, crashes>>
    BY <1>7 DEF WorldStep, Exit, Reclaim, HostDies, Expire, loop, tables, budget
  <2> QED
    BY <2>1 DEF FirstCrashes, WithStatus, PreviouslyRunning
<1> QED
  BY <1>2, <1>3, <1>4, <1>5, <1>6, <1>7 DEF Next, OrchestratorStep, WorldStep, TickStep

-----------------------------------------------------------------------------
(* The count of the synthetic instance.                                      *)

\* No task with a container has been requeued, and the server has recovered at
\* most once: the two counters move together.
InStep == storeFaults = 0 /\ NoneRequeued /\ crashes <= 1

InstInv ==
  /\ phase = "recover" => \A i \in Instance : inst[i].count = 0
  /\ Up /\ InStep => \A i \in Instance : inst[i].count = running

\* Outside EC2 mode a tick changes the counters in three places.
LEMMA TickQuiet ==
  ASSUME Mode # "ec2", NoHosts, TickStep, ~ ReleaseSlot, ~ Start, ~ GiveUpInstance
  PROVE  UNCHANGED <<inst, running>>
<1> USE DEF memory, tables
<1>1. ScaledUp(inst) = {inst}
  BY DEF ScaledUp, MayLaunch
<1>2. CASE MonitorCancelled \/ MonitorRecovering \/ MonitorRunning
  BY <1>2 DEF MonitorCancelled, ListCancelled, CancelledWithoutContainer, StopCancelled,
       ClearCancelled, MonitorRecovering, ListRecovering, RequeueProvisioned, PromoteRecovered,
       MonitorRunning, ListRunning, StillRunning, StopToKill, KillTask
<1>3. CASE DispatchPending
  BY <1>1, <1>3 DEF DispatchPending, ListPending, RejectRead, NoCapacity, Assign, RunAgent, FailDispatch
<1>4. CASE Shared
  BY <1>1, <1>4 DEF Shared, ListFails, CompleteExited, MarkRetryReady, CountInspectFailure, Requeue
<1>5. ~ CheckInterruptions /\ ~ Evaluate
  BY DEF CheckInterruptions, DrainInstance, ListInterrupted, RequeueInterrupted,
         NoMoreInterruptions, Evaluate, At, NoHosts
<1> QED
  BY <1>2, <1>3, <1>4, <1>5 DEF TickStep

\* While the counters are in step no task with a container is requeued: none is
\* lost, and inspecting one fails for no task that recovery has left.
LEMMA NoneGivenUp ==
  ASSUME Mode # "ec2", IInv, RowInv, LaunchInv, FirstCrashes, NoneRequeued
  PROVE  ~ GiveUpInstance
<1> SUFFICES ASSUME GiveUpInstance PROVE FALSE
  OBVIOUS
<1> DEFINE u == Current
           c == snap[u].cont
<1>1. /\ pc = "next" /\ phase \in {"recovering", "running"} /\ pc \notin ListPCs
      /\ "gone" \in Inspected(c) \/ (phase = "recovering" /\ c # NoContainer /\ "error" \in Inspected(c))
  BY DEF GiveUpInstance, Inspecting, ListPCs
<1>2. u \in Task /\ todo # {} /\ task[u].cont = c
  BY <1>1, HandRow, MonitoredRow
<1>3. CASE "gone" \in Inspected(c)
  <2>1. c \in Lost
    BY <1>3 DEF Inspected, Lost
  <2>2. Lost \in SUBSET DOMAIN ctr /\ ctr \in Seq(Container)
    BY DEF Lost, IInv, TypeOK
  <2>3. IsFiniteSet(Lost) /\ Cardinality(Lost) \in Nat
    BY <2>2, ContainersFinite
  <2>4. Cardinality(Lost) # 0
    BY <2>1, <2>3, FS_EmptySet
  <2> QED
    BY <2>3, <2>4 DEF LaunchInv, NoneRequeued
<1>4. CASE phase = "recovering" /\ c # NoContainer /\ "error" \in Inspected(c)
  <2>1. crashes # 0
    BY <1>2, <1>4 DEF FirstCrashes
  <2>2. Mode = "fargate" /\ ~ Glitches
    BY <2>1 DEF NoneRequeued
  <2>3. c \in DOMAIN ctr
    BY <1>2, <1>4 DEF LaunchInv, Sound, Launches
  <2> QED
    BY <1>4, <2>2, <2>3 DEF Inspected
<1> QED
  BY <1>1, <1>3, <1>4

\* The instance's count goes with o.running, step by step.
LEMMA InstNext ==
  ASSUME Mode # "ec2", IInv, IInv', RowInv, LaunchInv, FirstCrashes, InstInv,
         phase = "recover" => RecoveryOK, "delete" \notin Ops, Retriable, Next
  PROVE  InstInv'
<1>1. /\ NoHosts /\ Instance = {1} /\ NoInstance \notin Instance
      /\ inst \in InstanceTable /\ running \in Nat
      /\ phase \in {"down", "recover"} => running = 0
      /\ crashes \in Nat /\ crashes' \in Nat /\ faults \in Nat /\ storeFaults \in Nat
  BY OrchestratorAssumption DEF LaunchInv, IInv, TypeOK, SlotBudget, Instance, NoInstance
<1>2. CASE TickStep
  <2>1. Up /\ Up' /\ UNCHANGED <<crashes, faults>> /\ storeFaults' >= storeFaults
    <3>1. UNCHANGED <<crashes, faults>>
      BY <1>2 DEF TickStep, CheckInterruptions, DrainInstance, ListInterrupted, RequeueInterrupted,
       NoMoreInterruptions, Evaluate, MonitorCancelled, ListCancelled, CancelledWithoutContainer,
       StopCancelled, ClearCancelled, MonitorRecovering, ListRecovering, RequeueProvisioned,
       PromoteRecovered, MonitorRunning, ListRunning, StillRunning, StopToKill, KillTask, ListFails,
       Shared, CompleteExited, ReleaseSlot, MarkRetryReady, GiveUpInstance, CountInspectFailure, Requeue,
       DispatchPending, ListPending, RejectRead, NoCapacity, Assign, RunAgent, Start, FailDispatch, budget
    <3> QED
      BY <1>1, <1>2, <3>1, TickStaysUp, StoreFaultsStep
  <2> SUFFICES ASSUME InStep' PROVE inst'[1].count = running'
    BY <1>1, <2>1 DEF InstInv, Up
  <2>2. UNCHANGED storeFaults /\ InStep /\ inst[1].count = running
    BY <1>1, <2>1 DEF InStep, NoneRequeued, InstInv, IInv, TypeOK
  <2>3. CASE ReleaseSlot
    <3>1. pc \in {"release", "releaseCompleted"} /\ pc \notin ListPCs
      BY <2>3 DEF ReleaseSlot, ListPCs
    <3>2. snap[Current].inst = 1
      BY <1>1, <3>1, HandRow DEF ListedRow
    <3>3. inst' = DecrementRunningContainers(inst, 1) /\ DecrementRunning
      BY <1>1, <2>2, <2>3, <3>2 DEF ReleaseSlot, WriteInstance, StoreFails
    <3> QED
      BY <1>1, <2>2, <3>3 DEF DecrementRunningContainers, DecrementRunning, InstanceTable, InstanceRow
  <2>4. CASE Start
    <3>1. chosen = 1
      BY <1>1, <2>4 DEF Start, At, RowInv, LaunchShape
    <3>2. inst' = IncrementRunningContainers(inst, 1) /\ running' = running + 1
      BY <1>1, <2>2, <2>4, <3>1 DEF Start, StoreFails
    <3> QED
      BY <1>1, <2>2, <3>2 DEF IncrementRunningContainers, InstanceTable, InstanceRow
  <2>5. ~ GiveUpInstance
    BY <2>2, NoneGivenUp DEF InStep
  <2> QED
    BY <1>1, <1>2, <2>2, <2>3, <2>4, <2>5, TickQuiet
<1>3. CASE Recover
  <2>1. phase = "recover" /\ \A i \in Instance : inst[i].count = 0
    BY <1>3 DEF Recover, ListOrphansRunning, ListOrphansProvisioning, Collect, ListOrphansRecovering,
       MarkRecovering, ClearProvisioned, RebuildCounters, At, InstInv
  <2>2. CASE RebuildCounters
    <3>1. PreviouslyRunning = {} /\ WereRunning \in SUBSET Task
      BY <2>1 DEF FirstCrashes, WereRunning
    <3>2. running' = Cardinality(WereRunning)
      BY <2>2, <3>1, FS_EmptySet, TasksFinite, FS_CardinalityType DEF RebuildCounters
    <3>3. {t \in WereRunning : snap[t].inst = 1} = WereRunning
      BY <1>1, <2>1 DEF RecoveryOK, Counting
    <3>4. inst'[1].count = Cardinality(WereRunning)
      <4>1. inst'[1] = IF WereRunning = {} THEN inst[1]
                                           ELSE [inst[1] EXCEPT !.count = Cardinality(WereRunning)]
        BY <1>1, <2>2, <3>3 DEF RebuildCounters
      <4> QED
        BY <1>1, <2>1, <4>1, FS_EmptySet DEF InstanceTable, InstanceRow
    <3>5. phase' # "recover"
      BY <2>2, NextPhaseType DEF RebuildCounters, EnterPhase
    <3> QED
      BY <1>1, <3>2, <3>4, <3>5 DEF InstInv
  <2>3. CASE ~ RebuildCounters
    <3>1. UNCHANGED <<inst, running>>
      BY <1>3, <2>3 DEF Recover, ListOrphansRunning, ListOrphansProvisioning, Collect,
         ListOrphansRecovering, MarkRecovering, ClearProvisioned, memory, tables
    <3> QED
      BY <1>1, <2>1, <3>1 DEF InstInv
  <2> QED
    BY <2>2, <2>3
<1>4. CASE ApiStep
  <2>1. UNCHANGED <<loop, inst, running, storeFaults, crashes, faults>>
    BY <1>4, Requested
  <2> QED
    BY <2>1 DEF loop, InstInv, InStep, NoneRequeued, Up
<1>5. CASE Crash
  BY <1>5 DEF Crash, EnterPhase, InstInv, Up
<1>6. CASE Restart
  BY <1>6 DEF Restart, EnterPhase, InstInv, Up
<1>7. CASE WorldStep /\ ~ Crash /\ ~ Restart
  <2>1. /\ UNCHANGED <<phase, inst, running, storeFaults, crashes>>
        /\ faults' = faults \/ faults' = faults + 1
    BY <1>7 DEF WorldStep, Exit, Reclaim, HostDies, Expire, loop, tables, budget, memory
  <2> QED
    BY <1>1, <2>1 DEF InstInv, InStep, NoneRequeued, Up
<1> QED
  BY <1>2, <1>3, <1>4, <1>5, <1>6, <1>7 DEF Next, OrchestratorStep, WorldStep, TickStep

-----------------------------------------------------------------------------
(* The account as a whole.                                                   *)

AccountInv ==
  /\ RowInv
  /\ Up => CountsOK
  /\ phase = "recover" => RecoveryOK
  /\ crashes <= 1 => FirstCrashes /\ InstInv

LEMMA AccountInit == ASSUME Mode # "ec2", Init PROVE AccountInv
<1>1. /\ \A t \in Task : task[t] = EmptyRow /\ snap[t] = EmptyRow
      /\ phase = "recover" /\ pc = "list" /\ todo = {} /\ crashes = 0
      /\ \A i \in Instance : inst[i].count = 0
  BY DEF Init
<1>2. RowInv
  BY <1>1 DEF RowInv, LaunchShape, SlotRow, EmptyRow
<1>3. Counting = {} /\ PreviouslyRunning = {}
  BY <1>1 DEF Counting, WereRunning, PreviouslyRunning, EmptyRow
<1>4. RecoveryOK
  BY <1>1, <1>3 DEF RecoveryOK
<1>5. FirstCrashes
  BY <1>1, <1>3 DEF FirstCrashes, WithStatus, EmptyRow
<1> QED
  BY <1>1, <1>2, <1>4, <1>5 DEF AccountInv, InstInv, Up

\* A step beside the loops, by what it may do to one row.
LEMMA BesideAccount ==
  ASSUME Mode # "ec2", NoHosts, IInv, IInv', AccountInv, ContainersKept,
         UNCHANGED <<loop, running, storeFaults>>,
         UNCHANGED task \/ \E u \in Task : Alone(u) /\ (Queued(u) \/ Cancelled(u))
  PROVE  RowInv' /\ (Up' => CountsOK') /\ (phase' = "recover" => RecoveryOK')
<1>1. RowInv /\ phase' = phase /\ Up' = Up
  BY DEF AccountInv, loop, Up
<1>2. RowInv'
  BY <1>1, BesideRow
<1>3. Up => CountsOK'
  BY <1>1, BesideCount DEF AccountInv
<1>4. phase = "recover" => RecoveryOK'
  BY <1>1, BesideRecovery DEF AccountInv
<1> QED
  BY <1>1, <1>2, <1>3, <1>4

\* Every step of a tick.
LEMMA TickAccount ==
  ASSUME NoHosts, IInv, IInv', RowInv, CountsOK, TickStep
  PROVE  RowInv' /\ CountsOK'
<1>1. ~ CheckInterruptions /\ ~ Evaluate
  BY DEF CheckInterruptions, DrainInstance, ListInterrupted, RequeueInterrupted,
         NoMoreInterruptions, Evaluate, At, NoHosts
<1> QED
  BY <1>1, CancelledAccount, MonitorAccount, DispatchAccount, SharedAccount DEF TickStep

\* Every step of a recovery.
LEMMA RecoverAccount ==
  ASSUME IInv, IInv', RowInv, RecoveryOK, Recover
  PROVE  /\ RowInv' /\ (Up' => CountsOK') /\ (phase' = "recover" => RecoveryOK')
<1>1. CASE ListOrphansRunning \/ ListOrphansProvisioning
  BY <1>1, CollectAccount DEF ListOrphansRunning, ListOrphansProvisioning, Up
<1>2. CASE ListOrphansRecovering
  BY <1>2, OrphansAccount DEF Up
<1>3. CASE MarkRecovering \/ ClearProvisioned
  BY <1>3, MarkAccount DEF Up
<1>4. CASE RebuildCounters
  <2>1. phase' # "recover"
    BY <1>4, NextPhaseType DEF RebuildCounters, EnterPhase
  <2> QED
    BY <1>4, <2>1, RebuildAccount
<1> QED
  BY <1>1, <1>2, <1>3, <1>4 DEF Recover

\* Every step keeps the account.
LEMMA AccountNext ==
  ASSUME Mode # "ec2", "delete" \notin Ops, Retriable,
         IInv, IInv', LaunchInv, AccountInv, Next
  PROVE  AccountInv'
<1>1. NoHosts /\ RowInv /\ ctr \in Seq(Container) /\ crashes \in Nat
  BY DEF LaunchInv, AccountInv, IInv, TypeOK
<1>2. RowInv' /\ (Up' => CountsOK') /\ (phase' = "recover" => RecoveryOK')
  <2>1. CASE TickStep
    <3>1. Up /\ Up'
      BY <2>1, TickStaysUp
    <3>2. RowInv' /\ CountsOK'
      BY <1>1, <2>1, <3>1, TickAccount DEF AccountInv
    <3> QED
      BY <3>1, <3>2 DEF Up
  <2>2. CASE Recover
    <3>1. phase = "recover"
      BY <2>2 DEF Recover, ListOrphansRunning, ListOrphansProvisioning, Collect,
         ListOrphansRecovering, MarkRecovering, ClearProvisioned, RebuildCounters, At
    <3> QED
      BY <2>2, <3>1, RecoverAccount DEF AccountInv
  <2>3. CASE ApiStep
    <3>1. /\ UNCHANGED <<loop, inst, ctr, running, storeFaults, crashes, faults>>
          /\ UNCHANGED task \/ \E u \in Task : Alone(u) /\ (Queued(u) \/ Cancelled(u))
      BY <1>1, <2>3, Requested
    <3>2. ContainersKept
      BY <3>1, SameContainersKept
    <3> QED
      BY <1>1, <3>1, <3>2, BesideAccount
  <2>4. CASE Crash
    <3>1. EnterPhase("down") /\ UNCHANGED task
      BY <2>4 DEF Crash, tables
    <3>2. phase' = "down"
      BY <3>1 DEF EnterPhase
    <3> QED
      BY <1>1, <3>1, <3>2, EnterRow DEF Up
  <2>5. CASE Restart
    <3>1. EnterPhase("recover") /\ UNCHANGED task
      BY <2>5 DEF Restart
    <3>2. /\ phase' = "recover" /\ pc' = "list" /\ todo' = {}
          /\ \A t \in Task : snap'[t] = EmptyRow
      BY <3>1 DEF EnterPhase
    <3>3. Counting' = {}
      BY <3>2 DEF Counting, WereRunning, PreviouslyRunning, EmptyRow
    <3>4. RecoveryOK'
      BY <3>2, <3>3 DEF RecoveryOK
    <3> QED
      BY <1>1, <3>1, <3>2, <3>4, EnterRow DEF Up
  <2>6. CASE WorldStep /\ ~ Crash /\ ~ Restart
    <3>1. UNCHANGED <<task, loop, running, storeFaults>>
      BY <2>6 DEF WorldStep, Exit, Reclaim, HostDies, Expire, tables, memory
    <3>2. ContainersKept
      <4>1. CASE UNCHANGED ctr
        BY <4>1, SameContainersKept
      <4>2. ASSUME NEW c \in LiveContainers, NEW st \in {"ok", "bad", "lost"},
                   ctr' = [ctr EXCEPT ![c].st = st]
            PROVE  ContainersKept
        BY <1>1, <4>2, StateKeepsContainers DEF ContainerState
      <4> QED
        BY <2>6, <4>1, <4>2 DEF WorldStep, Exit, Reclaim, HostDies, Expire
    <3> QED
      BY <1>1, <3>1, <3>2, BesideAccount
  <2> QED
    BY <2>1, <2>2, <2>3, <2>4, <2>5, <2>6 DEF Next, OrchestratorStep, TickStep, WorldStep
<1>3. ASSUME crashes' <= 1 PROVE FirstCrashes' /\ InstInv'
  <2>1. crashes <= 1
    BY <1>1, <1>3, CrashesStep DEF IInv, TypeOK
  <2>2. FirstCrashes /\ InstInv /\ (phase = "recover" => RecoveryOK)
    BY <2>1 DEF AccountInv
  <2> QED
    BY <1>1, <1>3, <2>2, FirstNext, InstNext
<1> QED
  BY <1>2, <1>3 DEF AccountInv

\* Where the account is kept: no retries, or no statement has failed.
Calm == NoRetries \/ NoneRetried \/ storeFaults = 0

AccountOK == Calm => AccountInv

LEMMA AccountOKNext ==
  ASSUME Mode # "ec2", "delete" \notin Ops, NoRetries \/ Ops \subseteq {"retry"},
         IInv, IInv', LaunchInv, Ops \subseteq {"retry"} => FreshOK, AccountOK, [Next]_vars
  PROVE  AccountOK'
<1>1. storeFaults \in Nat /\ NoHosts
  BY DEF IInv, TypeOK, LaunchInv
<1>2. CASE Next
  <2> SUFFICES ASSUME Calm' PROVE AccountInv'
    BY DEF AccountOK
  <2>1. Calm
    BY <1>1, <1>2, StoreFaultsStep, RetriesStay DEF Calm, NoRetries
  <2>2. Retriable
    BY <1>1, <1>2, StoreFaultsStep DEF Calm, NoRetries, FreshOK, Retriable
  <2> QED
    BY <1>2, <2>1, <2>2, AccountNext DEF AccountOK
<1>3. CASE UNCHANGED vars
  <2>1. UNCHANGED <<task, loop, inst, ctr, running, storeFaults, crashes, faults>>
    BY <1>3 DEF vars, loop
  <2> SUFFICES ASSUME AccountInv PROVE AccountInv'
    BY <2>1 DEF AccountOK, Calm, NoRetries, NoneRetried
  <2>2. RowInv' /\ (Up' => CountsOK') /\ (phase' = "recover" => RecoveryOK')
    BY <1>1, <2>1, SameContainersKept, BesideAccount
  <2>3. FirstCrashes => FirstCrashes'
    BY <2>1 DEF loop, FirstCrashes, PreviouslyRunning, WithStatus
  <2>4. InstInv => InstInv'
    BY <2>1 DEF loop, InstInv, InStep, NoneRequeued, Up
  <2> QED
    BY <2>1, <2>2, <2>3, <2>4 DEF AccountInv
<1> QED
  BY <1>2, <1>3

\* Between ticks the account is SlotsAccounted.
LEMMA AccountImplies ==
  ASSUME Mode # "ec2", IInv, AccountInv, crashes <= 1 \/ ~ NoneRequeued
  PROVE  SlotsAccounted
<1> SUFFICES ASSUME AtRest
             PROVE  /\ running <= Cardinality(Holding)
                    /\ Undisturbed => running = Cardinality(Holding)
                    /\ Undisturbed /\ NoneRequeued =>
                         \A i \in Instance : inst[i].count = Cardinality(HeldOn(i))
  BY DEF SlotsAccounted
<1>1. Up /\ pc = "list"
  BY NextPhaseType DEF AtRest, Up
<1>2. SlotTasks = Holding
  BY <1>1 DEF SlotTasks, HandledPCs, Holding
<1>3. Undisturbed => Quiet
  BY DEF Undisturbed, Quiet, Settled
<1>4. running <= Cardinality(Holding) /\ (Undisturbed => running = Cardinality(Holding))
  BY <1>1, <1>2, <1>3 DEF AccountInv, CountsOK
<1>5. ASSUME Undisturbed, NoneRequeued, NEW i \in Instance
      PROVE  inst[i].count = Cardinality(HeldOn(i))
  <2>1. crashes <= 1 /\ inst[i].count = running
    BY <1>1, <1>5 DEF AccountInv, InstInv, InStep, Undisturbed
  <2>2. Instance = {1}
    BY OrchestratorAssumption DEF Instance
  <2>3. HeldOn(i) = Holding
    BY <1>5, <2>2 DEF HeldOn, Holding, AccountInv, RowInv, SlotRow
  <2> QED
    BY <1>4, <1>5, <2>1, <2>3
<1> QED
  BY <1>4, <1>5

\* In local and Fargate mode, while nobody deletes and users either cancel or
\* retry, o.running never counts a task that holds no slot between two ticks,
\* and it is exact where nothing was cancelled and no statement failed, however
\* often the server crashes.  The count of the instance is exact too as long as
\* no task with a container is requeued, up to the second crash: a second
\* recovery does not count on the instance the tasks the first one left recovering.
THEOREM AccountKept ==
  ASSUME Mode # "ec2", "delete" \notin Ops, NoRetries \/ Ops \subseteq {"retry"}
  PROVE  Spec => [](crashes <= 1 \/ ~ NoneRequeued => SlotsAccounted)
<1> DEFINE Fresh == Ops \subseteq {"retry"} => FreshOK
<1>1. Init => LaunchInv /\ Fresh /\ AccountOK
  BY LaunchInvInit, FreshInit, AccountInit DEF AccountOK
<1>2. IInv /\ LaunchInv /\ [Next]_vars => LaunchInv'
  BY LaunchInvNext
<1>3. IInv /\ Fresh /\ [Next]_vars => Fresh'
  BY FreshOKNext
<1>4. IInv /\ IInv' /\ LaunchInv /\ Fresh /\ AccountOK /\ [Next]_vars => AccountOK'
  BY AccountOKNext
<1>5. IInv /\ AccountOK => (crashes <= 1 \/ ~ NoneRequeued => SlotsAccounted)
  <2>1. ~ (NoneRetried \/ storeFaults = 0) => SlotsAccounted
    BY DEF SlotsAccounted
  <2> QED
    BY <2>1, AccountImplies DEF AccountOK, Calm
<1> HIDE DEF Fresh
<1> QED
  BY <1>1, <1>2, <1>3, <1>4, <1>5, Invariance, PTL DEF Spec

-----------------------------------------------------------------------------
(* The order of dispatch.                                                    *)

\* A pending task that was never retried has its turn to come in the list, is
\* younger than the whole list, or has found no instance: then no task of the
\* list finds one, since a dispatch makes no slot free.
Waits(t) ==
  task[t].status = "pending" /\ task[t].uretry = 0 =>
    \/ t \in todo /\ (t = Current => pc = "next")
    \/ \A u \in todo : u < t
    \/ AvailableInstances = {}

\* Tasks are created in their order.
NewestFirst ==
  \A t, u \in Task : t < u /\ task[t].status = "new" => task[u].status = "new"

OrderInv ==
  /\ NewestFirst
  /\ phase = "dispatch" => \A u \in todo : task[u].status # "new"
  /\ phase = "dispatch" /\ pc # "list" => \A t \in Task : Waits(t)

\* Where no statement fails.
LEMMA StatementsSucceed ==
  ASSUME MaxStoreFaults = 0, IInv
  PROVE  /\ ~ StoreFails
         /\ \A db : Write(db) <=> task' = db /\ UNCHANGED storeFaults
<1>1. storeFaults \in Nat
  BY DEF IInv, TypeOK
<1> QED
  BY <1>1 DEF Write, StoreFails

\* Only a request makes a new task another.
LEMMA UpdatesNoNew ==
  ASSUME task \in TaskTable, NEW u \in Task, OneUpdate(u), NEW t \in Task
  PROVE  /\ task'[t].status = "new" <=> task[t].status = "new"
         /\ t # u => task'[t] = task[t]
BY DEF OneUpdate, TaskTable, UpdateRow, InTable, Absent, UpdateTaskStatus, AssignTask, StartTask,
       RequeueTask, ClearTaskAssignment, MarkReadyForRetry, DeleteTask, EmptyRow, RetryTask,
       TaskStatus, Row

\* Nor does a step of the orchestrator, or of the world.
LEMMA NewStaysNew ==
  ASSUME IInv, OrchestratorStep \/ WorldStep, NEW t \in Task
  PROVE  task'[t].status = "new" <=> task[t].status = "new"
<1>1. task \in TaskTable
  BY DEF IInv, TypeOK
<1>2. CASE OrchestratorStep
  BY <1>1, <1>2, OrchestratorStatement, UpdatesNoNew
<1>3. CASE WorldStep
  BY <1>3 DEF WorldStep, Exit, Reclaim, HostDies, Expire, Crash, Restart, tables
<1> QED
  BY <1>2, <1>3

\* A loop is entered with no task in hand.
LEMMA EntersDispatch ==
  ASSUME IInv, IInv', Next, phase' = "dispatch", phase # "dispatch"
  PROVE  todo' = {} /\ pc' = "list"
<1>1. LoopShape'
  BY DEF IInv
<1>2. TickStep
  <2>1. ~ Recover
    BY NextPhaseType DEF Recover, ListOrphansRunning, ListOrphansProvisioning, Collect,
       ListOrphansRecovering, MarkRecovering, ClearProvisioned, RebuildCounters, EnterPhase, Goto,
       NextOrphan, At
  <2>2. ~ ApiStep /\ ~ WorldStep
    BY DEF ApiStep, Create, BeginCancel, BeginDelete, BeginRetry, Admit, FinishCancel, FinishDelete,
       FinishRetry, Finish, WorldStep, Exit, Reclaim, HostDies, Expire, Crash, Restart, EnterPhase, loop
  <2> QED
    BY <2>1, <2>2 DEF Next, OrchestratorStep, TickStep
<1>3. todo' = {}
  BY <1>2, TickEnters
<1> QED
  BY <1>1, <1>3 DEF LoopShape, ListPCs, Labels, Phases

\* The task in hand does not wait after a step that handles it, unless there is
\* no instance for it.
LEMMA HandledWaits ==
  ASSUME IInv, IInv', phase = "dispatch", phase' = "dispatch", pc \notin ListPCs, pc' # "list",
         \A t \in Task : Waits(t), Alone(Current),
         AvailableInstances = {} => AvailableInstances' = {},
         Continue \/ UNCHANGED <<phase, todo, snap>>,
         task'[Current].status = "pending" /\ task'[Current].uretry = 0 => AvailableInstances' = {}
  PROVE  \A t \in Task : Waits(t)'
<1> SUFFICES ASSUME NEW t \in Task PROVE Waits(t)'
  OBVIOUS
<1>1. LoopOK /\ Current \in todo
  BY IInvParts, InHand
<1>2. CASE t = Current
  BY <1>2 DEF Waits
<1>3. CASE t # Current
  <2>1. task'[t] = task[t] /\ Waits(t)
    BY <1>3 DEF Alone
  <2>2. CASE Continue
    <3>1. todo' = todo \ {Current} /\ pc' = "next"
      BY <2>2, NextPhaseType DEF Continue, EnterPhase, Phases
    <3> QED
      BY <1>3, <2>1, <3>1 DEF Waits
  <2>3. CASE UNCHANGED <<phase, todo, snap>>
    <3>1. Current' = Current
      BY <2>3 DEF Current
    <3> QED
      BY <1>3, <2>1, <2>3, <3>1 DEF Waits
  <2> QED
    BY <2>2, <2>3
<1> QED
  BY <1>2, <1>3

\* The list that dispatch takes leaves behind younger tasks only.
LEMMA ListWaits ==
  ASSUME IInv, phase = "dispatch", ListPending, phase' = "dispatch"
  PROVE  /\ \A t \in Task : Waits(t)'
         /\ \A u \in todo' : task'[u].status # "new"
<1> DEFINE S == WithStatus(task, "pending")
           k == MaxConcurrent - running
           O == OldestFirst(S, k)
<1>1. /\ ListInto(O) /\ UNCHANGED task /\ k \in Nat /\ S \in SUBSET Task
  <2>1. ~ EnterPhase(NextPhase["dispatch"])
    BY NextPhaseType DEF EnterPhase, Phases
  <2>2. running \in Nat /\ MaxConcurrent \in Nat
    BY MaxConcurrentType DEF IInv, TypeOK
  <2> QED
    BY <2>1, <2>2 DEF ListPending, tables, WithStatus
<1>2. todo' = O /\ pc' = "next" /\ O \subseteq S
  <2>1. O # {}
    BY <1>1, NextPhaseType DEF ListInto, EnterPhase, Phases
  <2> QED
    BY <1>1, <2>1, OldestFirstBounded DEF ListInto
<1>3. ASSUME NEW t \in S \ O, NEW u \in O PROVE u < t
  <2> DEFINE A == {v \in S : v < t}
             B == {v \in S : v < u}
  <2>1. Cardinality(B) < k /\ ~ (Cardinality(A) < k)
    BY <1>3 DEF OldestFirst
  <2>2. Task \subseteq Nat
    BY StoreAssumption DEF Task
  <2>3. t \in Nat /\ u \in Nat /\ t # u /\ \A v \in S : v \in Nat
    BY <1>1, <1>2, <1>3, <2>2
  <2> SUFFICES ASSUME t < u PROVE FALSE
    BY <2>3
  <2>4. A \subseteq B /\ B \in SUBSET Task
    <3>1. \A v \in S : v < t => v < u
      <4> HIDE DEF S
      <4> QED
        BY <2>3
    <3> QED
      BY <1>1, <3>1
  <2> HIDE DEF A, B
  <2>5. Cardinality(A) \in Nat /\ Cardinality(B) \in Nat /\ Cardinality(A) <= Cardinality(B)
    BY <2>4, FewerTasks
  <2> QED
    BY <1>1, <2>1, <2>5
<1>4. ASSUME NEW t \in Task PROVE Waits(t)'
  <2>1. CASE t \in O
    BY <1>2, <2>1 DEF Waits
  <2>2. CASE t \notin O
    BY <1>1, <1>2, <1>3, <2>2 DEF Waits, WithStatus
  <2> QED
    BY <2>1, <2>2
<1>5. \A u \in todo' : task'[u].status # "new"
  BY <1>1, <1>2 DEF WithStatus
<1> QED
  BY <1>4, <1>5

\* A dispatch that fills a slot makes none free.
LEMMA NoSlotFreed ==
  ASSUME inst \in InstanceTable, AvailableInstances = {},
         \/ UNCHANGED inst
         \/ inst' \in ScaledUp(inst)
         \/ \E i : inst' = IncrementRunningContainers(inst, i)
  PROVE  AvailableInstances' = {}
<1>1. CASE UNCHANGED inst
  BY <1>1 DEF AvailableInstances, InstancesWith
<1>2. CASE /\ InstancesWith(inst, "none") # {}
           /\ inst' = [inst EXCEPT ![Min(InstancesWith(inst, "none"))] = [status |-> "pending", count |-> 0]]
  BY <1>2 DEF AvailableInstances, InstancesWith, InstanceTable
<1>3. ASSUME NEW i, inst' = IncrementRunningContainers(inst, i) PROVE AvailableInstances' = {}
  <2>1. ContainersPerInst \in Nat /\ \A j \in Instance : inst[j].count \in Nat
    BY OrchestratorAssumption DEF InstanceTable, InstanceRow
  <2>2. ASSUME NEW j \in Instance
        PROVE  inst'[j].status = inst[j].status /\ inst'[j].count \in {inst[j].count, inst[j].count + 1}
    BY <1>3 DEF IncrementRunningContainers, InstanceTable, InstanceRow
  <2> QED
    BY <2>1, <2>2 DEF AvailableInstances, InstancesWith
<1> QED
  BY <1>1, <1>2, <1>3 DEF ScaledUp

\* The steps of the loop over pending tasks.
LEMMA DispatchOrder ==
  ASSUME MaxStoreFaults = 0, IInv, IInv', OrderInv, DispatchPending, phase' = "dispatch", pc' # "list"
  PROVE  \A t \in Task : Waits(t)'
<1> USE DEF At
<1> DEFINE u == Current
<1>1. LoopOK /\ task \in TaskTable /\ inst \in InstanceTable /\ phase = "dispatch"
  BY IInvParts DEF DispatchPending, ListPending, RejectRead, NoCapacity, Assign, RunAgent, Start,
                   FailDispatch, IInv, TypeOK
<1>2. CASE ListPending
  BY <1>1, <1>2, ListWaits
<1>3. CASE ~ ListPending
  <2>1. pc \in {"next", "run", "start", "fail"} /\ pc \notin ListPCs /\ pc # "list"
    BY <1>3 DEF DispatchPending, RejectRead, NoCapacity, Assign, RunAgent, Start, FailDispatch, ListPCs
  <2>2. u \in Task /\ u \in todo /\ \A t \in Task : Waits(t)
    BY <1>1, <2>1, InHand DEF OrderInv
  <2>3. /\ \A s \in {"failed"} : LET row == UpdateTaskStatus(task, u, s)[u]
                                 IN  row.status # "pending"
        /\ \A i : AssignTask(task, u, i)[u].status # "pending"
        /\ \A c : StartTask(task, u, c)[u].status # "pending"
        /\ \A t \in Task \ {u} : /\ \A s : UpdateTaskStatus(task, u, s)[t] = task[t]
                                 /\ \A i : AssignTask(task, u, i)[t] = task[t]
                                 /\ \A c : StartTask(task, u, c)[t] = task[t]
    BY <1>1, <2>2 DEF UpdateTaskStatus, AssignTask, StartTask, UpdateRow, InTable, Absent, TaskTable, Row
  <2>4. /\ ~ StoreFails
        /\ \A db : Write(db) <=> task' = db /\ UNCHANGED storeFaults
    BY StatementsSucceed
  <2>5. /\ Continue \/ UNCHANGED <<phase, todo, snap>>
        /\ Alone(u)
        /\ task'[u].status # "pending" \/ (UNCHANGED <<task, inst>> /\ pc = "run") \/ NoCapacity
    <3>1. CASE RejectRead \/ FailDispatch
      BY <2>3, <2>4, <3>1 DEF RejectRead, FailDispatch, Alone
    <3>2. CASE NoCapacity
      BY <3>2 DEF NoCapacity, Alone
    <3>3. CASE Assign
      BY <2>3, <2>4, <3>3 DEF Assign, Alone, Goto
    <3>4. CASE RunAgent
      BY <3>4 DEF RunAgent, Goto, Alone, tables
    <3>5. CASE Start
      BY <2>3, <2>4, <3>5 DEF Start, Alone, Goto
    <3> QED
      BY <1>3, <3>1, <3>2, <3>3, <3>4, <3>5 DEF DispatchPending
  <2>6. AvailableInstances = {} => AvailableInstances' = {}
    <3>1. \/ UNCHANGED inst
          \/ inst' \in ScaledUp(inst)
          \/ \E i : inst' = IncrementRunningContainers(inst, i)
      BY <1>3 DEF DispatchPending, RejectRead, NoCapacity, Assign, RunAgent, Start, FailDispatch, tables
    <3> QED
      BY <1>1, <3>1, NoSlotFreed
  <2>7. task'[u].status = "pending" /\ task'[u].uretry = 0 => AvailableInstances' = {}
    <3>1. CASE NoCapacity
      BY <2>6, <3>1 DEF NoCapacity
    <3>2. CASE UNCHANGED <<task, inst>> /\ pc = "run"
      <4>1. u \in Nat /\ ~ (u < u)
        BY <2>2, StoreAssumption DEF Task
      <4> QED
        BY <2>2, <2>6, <3>2, <4>1 DEF Waits
    <3> QED
      BY <2>5, <3>1, <3>2
  <2> QED
    BY <1>1, <2>1, <2>2, <2>5, <2>6, <2>7, HandledWaits
<1> QED
  BY <1>2, <1>3

\* Requests: a created task is the youngest, and a retried one has used a retry.
LEMMA ApiOrder ==
  ASSUME IInv, IInv', OrderInv, ApiStep
  PROVE  OrderInv'
<1>1. LoopOK /\ task \in TaskTable /\ UNCHANGED <<loop, inst>> /\ Task \subseteq Nat
  <2>1. UNCHANGED <<loop, inst>>
    BY DEF ApiStep, Create, BeginCancel, BeginDelete, BeginRetry, Admit, FinishCancel,
           FinishDelete, FinishRetry, Finish, tables
  <2>2. Task \subseteq Nat
    BY StoreAssumption DEF Task
  <2> QED
    BY <2>1, <2>2, IInvParts DEF IInv, TypeOK
<1>2. /\ UNCHANGED <<phase, pc, todo, snap>> /\ Current' = Current
      /\ AvailableInstances' = AvailableInstances
  BY <1>1 DEF loop, Current, AvailableInstances, InstancesWith
<1>3. ASSUME NEW t \in Task, Create(t) PROVE OrderInv'
  <2>1. /\ task[t].status = "new" /\ task'[t].status = "pending"
        /\ \A v \in Task \ {t} : task'[v] = task[v]
        /\ \A v \in Task : v < t => task[v].status # "new"
    BY <1>1, <1>3 DEF Create, CreateTask, TaskTable
  <2>2. NewestFirst'
    BY <1>1, <2>1 DEF OrderInv, NewestFirst
  <2>3. phase = "dispatch" => \A u \in todo : u < t
    <3> SUFFICES ASSUME phase = "dispatch", NEW u \in todo PROVE u < t
      OBVIOUS
    <3>1. u \in Task /\ u # t /\ ~ (t < u) /\ u \in Nat /\ t \in Nat
      BY <1>1, <2>1 DEF LoopOK, OrderInv, NewestFirst
    <3> QED
      BY <3>1
  <2>4. ASSUME phase = "dispatch", pc # "list", NEW v \in Task PROVE Waits(v)'
    <3>1. CASE v = t
      BY <1>2, <2>3, <2>4, <3>1 DEF Waits
    <3>2. CASE v # t
      BY <1>2, <2>1, <2>4, <3>2 DEF Waits, OrderInv
    <3> QED
      BY <3>1, <3>2
  <2>5. phase = "dispatch" => \A u \in todo : task'[u].status # "new"
    BY <1>1, <2>1 DEF LoopOK, OrderInv
  <2> QED
    BY <1>2, <2>2, <2>4, <2>5 DEF OrderInv
<1>4. ASSUME \/ UNCHANGED task
             \/ \E r \in Requests : FinishCancel(r) \/ FinishDelete(r) \/ FinishRetry(r)
      PROVE  OrderInv'
  <2>1. ASSUME NEW v \in Task
        PROVE  /\ task'[v].status = "new" <=> task[v].status = "new"
               /\ task'[v].status = "pending" /\ task'[v].uretry = 0 => task'[v] = task[v]
    <3>1. CASE UNCHANGED task
      BY <3>1
    <3>2. ASSUME NEW w \in Task,
                 \/ task' = UpdateTaskStatus(task, w, "cancelled")
                 \/ task' = DeleteTask(task, w) \/ task' = RetryTask(task, w)
          PROVE  /\ task'[v].status = "new" <=> task[v].status = "new"
                 /\ task'[v].status = "pending" /\ task'[v].uretry = 0 => task'[v] = task[v]
      <4>1. /\ task \in [Task -> Row] /\ \A t \in Task : task[t].uretry \in Nat
            /\ \A t \in Task : task[t].status \in Absent => ~ task[t].ready
        BY <1>1 DEF TaskTable, Row
      <4>2. CASE v # w
        BY <3>2, <4>1, <4>2 DEF UpdateTaskStatus, DeleteTask, RetryTask, UpdateRow
      <4>3. CASE v = w /\ ~ InTable(task, w)
        BY <3>2, <4>1, <4>3 DEF UpdateTaskStatus, DeleteTask, RetryTask, UpdateRow
      <4>4. CASE v = w /\ InTable(task, w)
        <5>1. task[v].status # "new" /\ task[v].uretry + 1 # 0
          BY <4>1, <4>4 DEF InTable, Absent
        <5>2. \/ task'[v].status \in {"cancelled", "deleted"}
              \/ UNCHANGED task
              \/ task'[v].status = "pending" /\ task'[v].uretry = task[v].uretry + 1
          <6>1. CASE task' = RetryTask(task, w)
            BY <4>1, <4>4, <6>1 DEF RetryTask, UpdateRow, Row
          <6> QED
            BY <3>2, <4>1, <4>4, <6>1 DEF UpdateTaskStatus, DeleteTask, UpdateRow, EmptyRow, Row
        <5> QED
          BY <5>1, <5>2
      <4> QED
        BY <4>2, <4>3, <4>4
    <3> QED
      BY <1>4, <3>1, <3>2 DEF FinishCancel, FinishDelete, FinishRetry, Finish, CancelTask, IInv,
                              RequestShape, NoRequest
  <2>2. NewestFirst'
    BY <2>1 DEF OrderInv, NewestFirst
  <2>3. phase = "dispatch" => \A u \in todo : task'[u].status # "new"
    BY <1>1, <2>1 DEF LoopOK, OrderInv
  <2>4. ASSUME phase = "dispatch", pc # "list", NEW v \in Task PROVE Waits(v)'
    BY <1>2, <2>1, <2>4 DEF Waits, OrderInv
  <2> QED
    BY <1>2, <2>2, <2>3, <2>4 DEF OrderInv
<1> QED
  BY <1>3, <1>4 DEF ApiStep, BeginCancel, BeginDelete, BeginRetry, Admit, tables

\* Every step keeps the order.
LEMMA OrderNext ==
  ASSUME MaxStoreFaults = 0, IInv, IInv', OrderInv, [Next]_vars
  PROVE  OrderInv'
<1>1. LoopOK /\ task \in TaskTable
  BY IInvParts DEF IInv, TypeOK
<1>2. CASE ApiStep
  BY <1>2, ApiOrder
<1>3. CASE OrchestratorStep \/ WorldStep
  <2>1. NewestFirst'
    BY <1>3, NewStaysNew DEF OrderInv, NewestFirst
  <2>2. CASE phase' # "dispatch"
    BY <2>1, <2>2 DEF OrderInv
  <2>3. CASE phase' = "dispatch" /\ phase # "dispatch"
    <3>1. todo' = {} /\ pc' = "list"
      BY <1>3, <2>3, EntersDispatch DEF Next
    <3> QED
      BY <2>1, <3>1 DEF OrderInv
  <2>4. CASE phase' = "dispatch" /\ phase = "dispatch" /\ WorldStep
    <3>1. UNCHANGED <<task, inst, phase, pc, todo, snap>>
      BY <2>4 DEF WorldStep, Exit, Reclaim, HostDies, Expire, Crash, Restart, EnterPhase, tables, loop
    <3>2. Current' = Current /\ AvailableInstances' = AvailableInstances
      BY <3>1 DEF Current, AvailableInstances, InstancesWith
    <3> QED
      BY <2>1, <3>1, <3>2 DEF OrderInv, Waits
  <2>5. CASE phase' = "dispatch" /\ phase = "dispatch" /\ OrchestratorStep
    <3>1. DispatchPending
      <4>1. ~ Shared
        BY <1>1, <2>5, LabelPhase, NextPhaseType
           DEF Shared, ListFails, CompleteExited, ReleaseSlot, MarkRetryReady, GiveUpInstance,
               CountInspectFailure, Requeue, Inspecting, EnterPhase, Phases
      <4>2. ~ Recover /\ ~ CheckInterruptions /\ ~ MonitorCancelled /\ ~ Evaluate
        BY <2>5
           DEF Recover, ListOrphansRunning, ListOrphansProvisioning, Collect, ListOrphansRecovering,
               MarkRecovering, ClearProvisioned, RebuildCounters, CheckInterruptions, DrainInstance,
               ListInterrupted, RequeueInterrupted, NoMoreInterruptions, Evaluate, MonitorCancelled,
               ListCancelled, CancelledWithoutContainer, StopCancelled, ClearCancelled, At
      <4>3. ~ MonitorRecovering /\ ~ MonitorRunning
        BY <2>5
           DEF MonitorRecovering, ListRecovering, RequeueProvisioned, PromoteRecovered,
               MonitorRunning, ListRunning, StillRunning, StopToKill, KillTask, At
      <4> QED
        BY <2>5, <4>1, <4>2, <4>3 DEF OrchestratorStep
    <3>2. pc' # "list" => \A t \in Task : Waits(t)'
      BY <2>5, <3>1, DispatchOrder
    <3>3. \A u \in todo' : task'[u].status # "new"
      <4>1. CASE ListPending
        BY <2>5, <4>1, ListWaits
      <4>2. CASE ~ ListPending
        <5>1. todo' \subseteq todo
          BY <3>1, <4>2 DEF DispatchPending, RejectRead, NoCapacity, Assign, RunAgent, Start,
                            FailDispatch, Continue, EnterPhase, Goto
        <5> QED
          BY <1>1, <1>3, <2>5, <5>1, NewStaysNew DEF OrderInv, LoopOK
      <4> QED
        BY <4>1, <4>2
    <3> QED
      BY <2>1, <2>5, <3>2, <3>3 DEF OrderInv
  <2> QED
    BY <1>3, <2>2, <2>3, <2>4, <2>5
<1>4. CASE UNCHANGED vars
  <2>1. UNCHANGED <<task, inst, phase, pc, todo, snap>>
    BY <1>4 DEF vars
  <2>2. Current' = Current /\ AvailableInstances' = AvailableInstances
    BY <2>1 DEF Current, AvailableInstances, InstancesWith
  <2> QED
    BY <2>1, <2>2 DEF OrderInv, NewestFirst, Waits
<1> QED
  BY <1>2, <1>3, <1>4 DEF Next

\* Only Assign takes a task from the queue to an instance.
LEMMA AssignedBy ==
  ASSUME IInv, [Next]_vars, NEW u \in Task,
         task[u].status = "pending", task'[u].status = "provisioning"
  PROVE  Assign /\ u = Current
<1> USE DEF At
<1>1. LoopOK /\ task \in TaskTable
  BY IInvParts DEF IInv, TypeOK
<1>2. ASSUME pc \notin ListPCs PROVE Current \in Task
  BY <1>1, <1>2, InHand
<1>3. ASSUME NEW t \in Task,
             \/ Write(RequeueTask(task, t))
             \/ Write(ClearTaskAssignment(task, t))
             \/ Write(MarkReadyForRetry(task, t))
             \/ \E s \in TaskStatus \ {"provisioning"} : Write(UpdateTaskStatus(task, t, s))
      PROVE  FALSE
  BY <1>1, <1>3, StatementRows
<1> USE DEF TaskStatus, CompleteTask, ListPCs
<1>4. ~ MarkRecovering /\ ~ ClearProvisioned
  BY <1>2, <1>3 DEF MarkRecovering, ClearProvisioned
<1>5. ~ CancelledWithoutContainer /\ ~ ClearCancelled /\ ~ PromoteRecovered /\ ~ KillTask
  BY <1>2, <1>3 DEF CancelledWithoutContainer, ClearCancelled, PromoteRecovered, Inspecting, KillTask
<1>6. ~ RejectRead /\ ~ FailDispatch /\ ~ RequeueInterrupted /\ ~ MarkRetryReady /\ ~ Requeue
  BY <1>2, <1>3 DEF RejectRead, FailDispatch, RequeueInterrupted, MarkRetryReady, Requeue
<1>7. ~ CompleteExited
  <2> SUFFICES ASSUME CompleteExited PROVE FALSE
    OBVIOUS
  <2>1. PICK result \in {"completed", "failed"} : Write(UpdateTaskStatus(task, Current, result))
    BY DEF CompleteExited
  <2> QED
    BY <1>2, <1>3, <2>1 DEF CompleteExited, Inspecting
<1>8. ~ Start
  BY <1>1, <1>2 DEF Start, StartTask, UpdateRow, TaskTable, Row, tables
<1>9. Assign => u = Current
  BY <1>1, <1>2 DEF Assign, AssignTask, UpdateRow, TaskTable
<1>10. ~ ApiStep /\ ~ WorldStep
  <2>1. ASSUME NEW t \in Task,
               \/ task' = CreateTask(task, t) \/ task' = UpdateTaskStatus(task, t, "cancelled")
               \/ task' = DeleteTask(task, t) \/ task' = RetryTask(task, t)
        PROVE  FALSE
    BY <1>1, <2>1 DEF CreateTask, UpdateTaskStatus, DeleteTask, RetryTask, UpdateRow, EmptyRow,
                      TaskTable, Row
  <2>2. ~ ApiStep
    BY <2>1 DEF ApiStep, Create, BeginCancel, BeginDelete, BeginRetry, Admit, FinishCancel, FinishDelete,
                FinishRetry, Finish, CancelTask, IInv, RequestShape, NoRequest, tables
  <2> QED
    BY <2>2 DEF WorldStep, Exit, Reclaim, HostDies, Expire, Crash, Restart, tables
<1>11. UNCHANGED task \/ Assign
  BY <1>4, <1>5, <1>6, <1>7, <1>8, <1>10
     DEF Next, OrchestratorStep, Recover, Collect, ListOrphansRunning, ListOrphansProvisioning,
         ListOrphansRecovering, RebuildCounters, CheckInterruptions, DrainInstance,
         ListInterrupted, NoMoreInterruptions, MonitorCancelled, ListCancelled, StopCancelled,
         MonitorRecovering, ListRecovering, RequeueProvisioned,
         MonitorRunning, ListRunning, StillRunning, StopToKill, DispatchPending,
         ListPending, NoCapacity, RunAgent, Shared, ListFails, ReleaseSlot, GiveUpInstance,
         CountInspectFailure, Evaluate, tables, vars
<1> QED
  BY <1>9, <1>11

\* While no statement fails, pending tasks are dispatched oldest first, a retried
\* task apart, whatever requests come in while dispatch goes through its list.
THEOREM DispatchInOrder ==
  ASSUME MaxStoreFaults = 0
  PROVE  Spec => OldestFirstDispatch
<1> DEFINE InTurn == \A u \in Task :
                       (task[u].status = "pending" /\ task'[u].status = "provisioning")
                         => \A t \in Task :
                              t < u /\ task[t].status = "pending" => task[t].uretry > 0
<1>1. Init => OrderInv
  BY DEF Init, OrderInv, NewestFirst, EmptyRow
<1>2. IInv /\ IInv' /\ OrderInv /\ [Next]_vars => OrderInv'
  BY OrderNext
<1>3. IInv /\ OrderInv /\ [Next]_vars => InTurn
  <2> SUFFICES ASSUME IInv, OrderInv, [Next]_vars, NEW u \in Task,
                      task[u].status = "pending", task'[u].status = "provisioning",
                      NEW t \in Task, t < u, task[t].status = "pending", ~ (task[t].uretry > 0)
               PROVE  FALSE
    OBVIOUS
  <2>0. task[t].uretry = 0
    <3>1. task[t] \in Row
      BY DEF IInv, TypeOK, TaskTable
    <3>2. task[t].uretry \in Nat
      BY <3>1 DEF Row
    <3> QED
      BY <3>2
  <2>1. Assign /\ u = Current
    BY AssignedBy
  <2>2. /\ phase = "dispatch" /\ pc = "next" /\ Waits(t)
        /\ AvailableInstances # {}
    BY <2>0, <2>1 DEF Assign, At, OrderInv
  <2>3. todo \in SUBSET Nat /\ u \in todo /\ todo # {} /\ t \in Nat /\ u \in Nat
    BY <2>1, <2>2, IInvParts, InHand, StoreAssumption DEF ListPCs, LoopOK, Task
  <2>4. \A v \in todo : u <= v
    BY <2>1, <2>2, <2>3, MinInSet DEF Current
  <2>5. t \notin todo
    BY <2>3, <2>4
  <2>6. ~ (\A v \in todo : v < t)
    BY <2>3
  <2> QED
    BY <2>0, <2>2, <2>5, <2>6 DEF Waits
<1> HIDE DEF InTurn
<1>4. InTurn => [\A u \in Task :
                  (task[u].status = "pending" /\ task'[u].status = "provisioning")
                    => \A t \in Task :
                         t < u /\ task[t].status = "pending" => task[t].uretry > 0]_vars
  BY DEF InTurn
<1> QED
  BY <1>1, <1>2, <1>3, <1>4, Invariance, PTL DEF Spec, OldestFirstDispatch
=============================================================================
