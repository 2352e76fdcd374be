---------------------------- MODULE Orchestrator ----------------------------
(***************************************************************************)
(* The Backflow server: the orchestrator goroutine (internal/orchestrator), *)
(* the API handlers that change the same rows, and the agent containers.    *)
(*                                                                         *)
(* One tick of the orchestrator is a sequence of loops.  Each loop lists    *)
(* the tasks of one status into memory and then handles them one by one,    *)
(* with several store and container calls for each task.  API requests run  *)
(* at the same time, and read a row, decide, and write it in two statements.*)
(* An action of this module is therefore not a whole loop but the work up   *)
(* to and including one statement on the tasks table (or one call that a    *)
(* crash may separate from the next), so that requests and crashes fall     *)
(* between any two of them.  The orchestrator's own memory is touched by    *)
(* its goroutine alone, so a step carries the memory updates around it.     *)
(*                                                                         *)
(* Bounds: MaxCrashes, MaxFaults and MaxStoreFaults limit how often the     *)
(* environment misbehaves; Requests is the set of API requests in flight at *)
(* one time.  Container ids and row counters need no bound of their own:    *)
(* every launch after a task's first uses up a retry, a crash or a fault.   *)
(***************************************************************************)
EXTENDS TaskStore, Sequences, FiniteSetsExt

CONSTANTS
  Mode,              \* BACKFLOW_MODE: "local", "fargate" or "ec2"
  MaxInstances,      \* BACKFLOW_MAX_INSTANCES (EC2 only)
  ContainersPerInst, \* slots of one instance
  ReadTasks,         \* the tasks whose task_mode is "read"
  Requests,          \* API requests that may be in flight together
  Ops,               \* what they ask for: a subset of {"cancel", "delete", "retry"}
  Glitches,          \* whether inspect, stop and launch calls may fail
  MaxCrashes,        \* server crashes
  MaxFaults,         \* interrupted containers (Fargate) or hosts (EC2)
  MaxStoreFaults     \* statements of the orchestrator that fail

ASSUME OrchestratorAssumption ==
  /\ Mode \in {"local", "fargate", "ec2"}
  /\ MaxInstances \in Nat /\ ContainersPerInst \in Nat
  /\ Mode # "ec2" => NumInstances = 1     \* the synthetic instance
  /\ ReadTasks \subseteq Task
  /\ Ops \subseteq {"cancel", "delete", "retry"}
  /\ Glitches \in BOOLEAN
  /\ MaxCrashes \in Nat /\ MaxFaults \in Nat /\ MaxStoreFaults \in Nat

VARIABLES
  task,        \* the tasks table
  inst,        \* the instances table
  ctr,         \* every container ever launched; its id is its index
  dead,        \* instances whose host is gone (EC2)
  expired,     \* tasks whose started_at + max_runtime_sec has passed
  phase,       \* the loop the orchestrator is in, or "down"
  pc,          \* where in that loop it is
  todo,        \* the tasks of the current list not handled yet
  snap,        \* the rows of the current list, as they were when listed
  chosen,      \* the instance being dispatched to, or drained
  running,     \* Orchestrator.running
  failures,    \* Orchestrator.inspectFailures
  req,         \* what each API request is about to write
  crashes, faults, storeFaults   \* how much of each bound is used up

tables   == <<task, inst>>
world    == <<ctr, dead, expired>>
loop     == <<phase, pc, todo, snap, chosen>>
memory   == <<running, failures>>
budget   == <<crashes, faults>>
vars     == <<task, inst, ctr, dead, expired, phase, pc, todo, snap, chosen,
              running, failures, req, crashes, faults, storeFaults>>

-----------------------------------------------------------------------------
(* Definitions.                                                             *)

maxInspectFailures == 3

MaxConcurrent ==
  IF Mode = "ec2" THEN MaxInstances * ContainersPerInst ELSE ContainersPerInst

Phases == {"down", "recover", "spot", "cancelled", "recovering", "running",
           "dispatch", "evaluate"}

\* The labels where the orchestrator has no task in hand.
ListPCs == {"list", "listProvisioning", "listRecovering", "listInterrupted", "finish"}

PCs == ListPCs \cup {"next", "clear", "ready", "release", "releaseCompleted",
                     "kill", "requeue", "run", "start", "fail"}

FirstPhase == IF Mode = "ec2" THEN "spot" ELSE "cancelled"

\* The order of the loops in tick.  CheckInterruptions and the scaler's
\* Evaluate exist in EC2 mode only.
NextPhase ==
  [p \in Phases |->
     CASE p = "spot"       -> "cancelled"
       [] p = "cancelled"  -> "recovering"
       [] p = "recovering" -> "running"
       [] p = "running"    -> "dispatch"
       [] p = "dispatch" /\ Mode = "ec2" -> "evaluate"
       [] OTHER -> FirstPhase]

ContainerState == {"live", "ok", "bad", "lost", "stopped"}

Container == [task : Task, inst : Instance, st : ContainerState]

\* An API request that is not in flight.
NoRequest == [op |-> "none", task |-> 0]

LiveContainers == {c \in DOMAIN ctr : ctr[c].st = "live"}

\* The container launched last for a task.
Newest(t) == Max({NoContainer} \cup {c \in DOMAIN ctr : ctr[c].task = t})

Inspected_LiveAsGone(c) ==
  IF c \notin DOMAIN ctr THEN {"error"}
  ELSE CASE ctr[c].st = "live" -> {"live", "gone"}
         [] ctr[c].st = "ok"   -> {"ok"}
         [] ctr[c].st = "bad"  -> {"bad"}
         [] ctr[c].st = "lost" -> {"gone"}
         [] OTHER              -> {"error"}

\* What InspectContainer may report for a container id: it still runs, it
\* exited well or badly, its instance is gone, or the call fails.  A stopped
\* container is removed by docker; ECS may know its exit code or, while it is
\* stopping, none, which counts as success.
Inspected(c) ==
  (IF c \notin DOMAIN ctr THEN {"error"}
   ELSE CASE ctr[c].st = "live" -> {"live"}
          [] ctr[c].st = "ok"   -> {"ok"}
          [] ctr[c].st = "bad"  -> {"bad"}
          [] ctr[c].st = "lost" -> {"gone"}
          [] OTHER -> IF Mode = "fargate" THEN {"ok", "bad"} ELSE {"error"})
  \cup (IF Glitches THEN {"error"} ELSE {})

Stopped_Never(c) == {ctr}

\* What StopContainer changes: a container at work, and under docker one that has
\* exited, which is removed.
Stoppable == {c \in DOMAIN ctr : ctr[c].st \in {"live"} \cup (IF Mode = "fargate" THEN {}
                                                             ELSE {"ok", "bad"})}

\* The containers after StopContainer(c), whose error every caller ignores.
Stopped(c) ==
  (IF c \in Stoppable THEN {[ctr EXCEPT ![c].st = "stopped"]} ELSE {ctr})
  \cup (IF Glitches THEN {ctr} ELSE {})

\* A statement of the orchestrator fails.
StoreFails == storeFaults < MaxStoreFaults /\ storeFaults' = storeFaults + 1

\* A statement on the tasks table.  When it fails the caller logs the error
\* and goes on.
Write(db) == \/ task' = db /\ UNCHANGED storeFaults
             \/ UNCHANGED task /\ StoreFails

\* The same for a statement on the instances table.
WriteInstance(tbl) == \/ inst' = tbl /\ UNCHANGED storeFaults
                      \/ UNCHANGED inst /\ StoreFails

MayLaunch_PendingUncounted(tbl) ==
  Mode = "ec2" /\ Cardinality(InstancesWith(tbl, "running")) < MaxInstances

\* RequestScaleUp launches when no instance is pending and fewer than
\* MaxInstances are in use.
MayLaunch(tbl) ==
  /\ Mode = "ec2"
  /\ InstancesWith(tbl, "pending") = {}
  /\ Cardinality(InstancesWith(tbl, "running")) < MaxInstances

\* The instances table after RequestScaleUp, whose launch may fail.  The
\* instances never used yet are the bound on launches.
ScaledUp(tbl) ==
  LET fresh == InstancesWith(tbl, "none")
  IN  {tbl} \cup
      (IF MayLaunch(tbl) /\ fresh # {}
         THEN {[tbl EXCEPT ![Min(fresh)] = [status |-> "pending", count |-> 0]]}
         ELSE {})

-----------------------------------------------------------------------------
(* The skeleton of a loop over a list of tasks.                             *)

At(p, label) == phase = p /\ pc = label

\* The task being handled.  Recovery handles the provisioning list first.
Current ==
  LET provisioning == {t \in todo : snap[t].status = "provisioning"}
  IN  IF phase = "recover" /\ provisioning # {} THEN Min(provisioning)
                                                ELSE Min(todo)

Goto(label) == pc' = label /\ UNCHANGED <<phase, todo, snap, chosen>>

EnterPhase(p) ==
  /\ phase' = p /\ pc' = "list"
  /\ todo' = {} /\ snap' = [t \in Task |-> EmptyRow] /\ chosen' = NoInstance

\* ListTasks into memory, then the loop; an empty list ends the loop at once.
ListInto(S) ==
  IF S = {}
    THEN EnterPhase(NextPhase[phase])
    ELSE /\ todo' = S /\ pc' = "next"
         /\ snap' = [t \in Task |-> IF t \in S THEN task[t] ELSE EmptyRow]
         /\ UNCHANGED <<phase, chosen>>

\* continue: the next task of the list, or the next loop of the tick.
Continue ==
  IF todo # {Current}
    THEN /\ todo' = todo \ {Current} /\ pc' = "next"
         /\ snap' = [snap EXCEPT ![Current] = EmptyRow]
         /\ chosen' = NoInstance
         /\ UNCHANGED phase
    ELSE EnterPhase(IF phase = "spot" THEN "spot" ELSE NextPhase[phase])

DecrementRunning == running' = (IF running > 0 THEN running - 1 ELSE 0)

ForgetFailures(t) == failures' = [failures EXCEPT ![t] = 0]

-----------------------------------------------------------------------------
(* Steps that several loops share.                                          *)

\* isTimedOut, on the listed row.
TimedOut(t) == snap[t].started /\ t \in expired

\* ListTasks fails: the loop returns at once.
ListFails ==
  /\ pc = "list" /\ phase \in {"cancelled", "recovering", "running", "dispatch"}
  /\ StoreFails
  /\ EnterPhase(NextPhase[phase])
  /\ UNCHANGED <<tables, world, memory, req, budget>>

\* The loop is about to act on what InspectContainer reports.
Inspecting ==
  /\ pc = "next"
  /\ \/ phase = "recovering" /\ snap[Current].cont # NoContainer
     \/ phase = "running" /\ ~ TimedOut(Current)

\* handleCompletion as far as CompleteTask: an exited container completes or
\* fails its task.  A read task may also fail because its reading could not
\* be embedded or stored.
CompleteExited ==
  /\ Inspecting
  /\ \E seen \in Inspected(snap[Current].cont) \cap {"ok", "bad"} :
       \E result \in (IF seen = "ok" THEN {"completed"} ELSE {"failed"}) \cup
                     (IF Current \in ReadTasks THEN {"failed"} ELSE {}) :
         /\ Write(CompleteTask(task, Current, result))
         /\ Goto(IF result = "completed" THEN "releaseCompleted" ELSE "release")
  /\ ForgetFailures(Current)
  /\ UNCHANGED <<inst, world, running, req, budget>>

\* releaseSlot: one task less is running, one container less on its instance.
\* A completed task is then done with; the others get their retry flag.
ReleaseSlot ==
  /\ pc \in {"release", "releaseCompleted"}
  /\ DecrementRunning
  /\ WriteInstance(DecrementRunningContainers(inst, snap[Current].inst))
  /\ CASE pc = "releaseCompleted" -> Continue
       [] phase = "cancelled"     -> Goto("clear")
       [] OTHER                   -> Goto("ready")
  /\ UNCHANGED <<task, world, failures, req, budget>>

\* markRetryReady: always sets the flag, whatever the retry cap.
MarkRetryReady ==
  /\ pc = "ready"
  /\ Write(MarkReadyForRetry(task, Current))
  /\ Continue
  /\ UNCHANGED <<inst, world, memory, req, budget>>

\* First half of requeueTask and requeueRecoveringTask(wasRunning = true): in
\* EC2 mode the instance is marked terminated; o.running is decremented, the
\* instance's container count is not.  This happens when the instance is gone
\* and, for a recovering task, after maxInspectFailures failed calls.
GiveUpInstance ==
  /\ Inspecting
  /\ \/ "gone" \in Inspected(snap[Current].cont)
     \/ /\ phase = "recovering"
        /\ "error" \in Inspected(snap[Current].cont)
        /\ failures[Current] + 1 >= maxInspectFailures
  /\ ForgetFailures(Current)
  /\ IF Mode = "ec2" /\ snap[Current].inst # NoInstance
       THEN WriteInstance(UpdateInstanceStatus(inst, snap[Current].inst, "terminated"))
       ELSE UNCHANGED <<inst, storeFaults>>
  /\ DecrementRunning
  /\ Goto("requeue")
  /\ UNCHANGED <<task, world, req, budget>>

\* An inspect call failed, and not for the maxInspectFailures-th time.
CountInspectFailure ==
  /\ Inspecting
  /\ "error" \in Inspected(snap[Current].cont)
  /\ failures[Current] + 1 < maxInspectFailures
  /\ failures' = [failures EXCEPT ![Current] = @ + 1]
  /\ Continue
  /\ UNCHANGED <<tables, world, running, req, budget, storeFaults>>

\* Second half: back to pending, and a scale-up request.
Requeue ==
  /\ pc = "requeue"
  /\ Write(RequeueTask(task, Current))
  /\ inst' \in ScaledUp(inst)
  /\ Continue
  /\ UNCHANGED <<world, memory, req, budget>>

-----------------------------------------------------------------------------
(* monitorCancelled                                                         *)

ListCancelled ==
  /\ At("cancelled", "list")
  /\ ListInto(WithStatus(task, "cancelled"))
  /\ UNCHANGED <<tables, world, memory, req, budget, storeFaults>>

\* No container to clean up: set the retry flag unless it is set.
CancelledWithoutContainer ==
  /\ At("cancelled", "next")
  /\ snap[Current].cont = NoContainer
  /\ IF snap[Current].ready
       THEN UNCHANGED <<task, storeFaults>>
       ELSE Write(MarkReadyForRetry(task, Current))
  /\ Continue
  /\ UNCHANGED <<inst, world, memory, req, budget>>

StopCancelled_KeepsSlot ==
  /\ At("cancelled", "next")
  /\ snap[Current].cont # NoContainer
  /\ ctr' \in Stopped(snap[Current].cont)
  /\ Goto("clear")
  /\ UNCHANGED <<tables, dead, expired, memory, req, budget, storeFaults>>

\* Stop the container, then ReleaseSlot, ClearCancelled and MarkRetryReady.
StopCancelled ==
  /\ At("cancelled", "next")
  /\ snap[Current].cont # NoContainer
  /\ ctr' \in Stopped(snap[Current].cont)
  /\ Goto("release")
  /\ UNCHANGED <<tables, dead, expired, memory, req, budget, storeFaults>>

ClearCancelled ==
  /\ At("cancelled", "clear")
  /\ Write(ClearTaskAssignment(task, Current))
  /\ Goto("ready")
  /\ UNCHANGED <<inst, world, memory, req, budget>>

-----------------------------------------------------------------------------
(* monitorRecovering                                                        *)

ListRecovering ==
  /\ At("recovering", "list")
  /\ ListInto(WithStatus(task, "recovering"))
  /\ UNCHANGED <<tables, world, memory, req, budget, storeFaults>>

\* requeueRecoveringTask(wasRunning = false): nothing to release.
RequeueProvisioned ==
  /\ At("recovering", "next")
  /\ snap[Current].cont = NoContainer
  /\ Goto("requeue")
  /\ UNCHANGED <<tables, world, memory, req, budget, storeFaults>>

\* The container survived the restart: back to running.
PromoteRecovered ==
  /\ phase = "recovering" /\ Inspecting
  /\ "live" \in Inspected(snap[Current].cont)
  /\ Write(UpdateTaskStatus(task, Current, "running"))
  /\ ForgetFailures(Current)
  /\ Continue
  /\ UNCHANGED <<inst, world, running, req, budget>>

-----------------------------------------------------------------------------
(* monitorRunning                                                           *)

ListRunning ==
  /\ At("running", "list")
  /\ ListInto(WithStatus(task, "running"))
  /\ UNCHANGED <<tables, world, memory, req, budget, storeFaults>>

\* The container still runs and the task has time left.
StillRunning ==
  /\ phase = "running" /\ Inspecting
  /\ "live" \in Inspected(snap[Current].cont)
  /\ ForgetFailures(Current)
  /\ Continue
  /\ UNCHANGED <<tables, world, running, req, budget, storeFaults>>

\* killTask as far as StopContainer: after a timeout, which leaves the
\* failure count as it is, or after the last inspect failure.
StopToKill ==
  /\ At("running", "next")
  /\ \/ TimedOut(Current) /\ UNCHANGED failures
     \/ /\ Inspecting
        /\ "error" \in Inspected(snap[Current].cont)
        /\ failures[Current] + 1 >= maxInspectFailures
        /\ ForgetFailures(Current)
  /\ ctr' \in Stopped(snap[Current].cont)
  /\ Goto("kill")
  /\ UNCHANGED <<tables, dead, expired, running, req, budget, storeFaults>>

KillTask_KeepsSlot ==
  /\ At("running", "kill")
  /\ Write(CompleteTask(task, Current, "failed"))
  /\ Goto("ready")
  /\ UNCHANGED <<inst, world, memory, req, budget>>

\* killTask from CompleteTask on.
KillTask ==
  /\ At("running", "kill")
  /\ Write(CompleteTask(task, Current, "failed"))
  /\ Goto("release")
  /\ UNCHANGED <<inst, world, memory, req, budget>>

-----------------------------------------------------------------------------
(* dispatchPending                                                          *)

ListPending_Unlimited ==
  /\ At("dispatch", "list")
  /\ ListInto(WithStatus(task, "pending"))
  /\ UNCHANGED <<tables, world, memory, req, budget, storeFaults>>

\* At most as many of the oldest pending tasks as there are free slots.
ListPending ==
  /\ At("dispatch", "list")
  /\ IF running >= MaxConcurrent
       THEN EnterPhase(NextPhase["dispatch"])
       ELSE ListInto(OldestFirst(WithStatus(task, "pending"),
                                 MaxConcurrent - running))
  /\ UNCHANGED <<tables, world, memory, req, budget, storeFaults>>

\* A read task the server is not configured for, or whose URL has already
\* been read (failReadDuplicate), fails before it gets an instance.
RejectRead ==
  /\ At("dispatch", "next")
  /\ Current \in ReadTasks
  /\ Write(UpdateTaskStatus(task, Current, "failed"))
  /\ Continue
  /\ UNCHANGED <<inst, world, memory, req, budget>>

\* findAvailableInstance considers these, in created_at order.
AvailableInstances ==
  {i \in InstancesWith(inst, "running") : inst[i].count < ContainersPerInst}

\* No instance has a free slot: ask for one and leave the task pending.
NoCapacity ==
  /\ At("dispatch", "next")
  /\ AvailableInstances = {}
  /\ inst' \in ScaledUp(inst)
  /\ Continue
  /\ UNCHANGED <<task, world, memory, req, budget, storeFaults>>

\* AssignTask, or the statement that finds the instance, may fail.
Assign ==
  /\ At("dispatch", "next")
  /\ \/ /\ AvailableInstances # {}
        /\ task' = AssignTask(task, Current, Min(AvailableInstances))
        /\ chosen' = Min(AvailableInstances)
        /\ pc' = "run"
        /\ UNCHANGED <<phase, todo, snap, storeFaults>>
     \/ /\ StoreFails
        /\ Goto("fail")
        /\ UNCHANGED task
  /\ UNCHANGED <<inst, world, memory, req, budget>>

Launched ==
  /\ chosen \notin dead
  /\ ctr' = Append(ctr, [task |-> Current, inst |-> chosen, st |-> "live"])

\* ECS gets the task's id as the client token: while the token is valid it
\* answers with the container it has launched for the task before.
Relaunched == Mode = "fargate" /\ Newest(Current) # NoContainer /\ UNCHANGED ctr

\* A launch whose answer is lost has failed for the server.
RunAgent ==
  /\ At("dispatch", "run")
  /\ \/ (Launched \/ Relaunched) /\ Goto("start")
     \/ /\ Glitches \/ chosen \in dead
        /\ Launched \/ UNCHANGED ctr
        /\ Goto("fail")
  /\ UNCHANGED <<tables, dead, expired, memory, req, budget, storeFaults>>

\* The transaction of StartTask and IncrementRunningContainers, both or
\* neither, and then o.running.
Start ==
  /\ At("dispatch", "start")
  /\ \/ /\ task' = StartTask(task, Current, Newest(Current))
        /\ inst' = IncrementRunningContainers(inst, chosen)
        /\ expired' = expired \ {Current}
        /\ running' = running + 1
        /\ Continue
        /\ UNCHANGED storeFaults
     \/ /\ StoreFails
        /\ Goto("fail")
        /\ UNCHANGED <<tables, expired, running>>
  /\ UNCHANGED <<ctr, dead, failures, req, budget>>

FailDispatch_Requeues ==
  /\ At("dispatch", "fail")
  /\ Write(UpdateTaskStatus(task, Current, "pending"))
  /\ Continue
  /\ UNCHANGED <<inst, world, memory, req, budget>>

\* dispatchPending's answer to an error of dispatch: failed, with no retry flag.
FailDispatch ==
  /\ At("dispatch", "fail")
  /\ Write(UpdateTaskStatus(task, Current, "failed"))
  /\ Continue
  /\ UNCHANGED <<inst, world, memory, req, budget>>

-----------------------------------------------------------------------------
(* CheckInterruptions (EC2): a running instance whose host is gone is set    *)
(* draining, and the running tasks listed on it go back to pending.         *)

DrainInstance ==
  /\ At("spot", "list")
  /\ \E i \in InstancesWith(inst, "running") \cap dead :
       /\ WriteInstance(UpdateInstanceStatus(inst, i, "draining"))
       /\ chosen' = i
  /\ pc' = "listInterrupted"
  /\ UNCHANGED <<phase, todo, snap>>
  /\ UNCHANGED <<task, world, memory, req, budget>>

Interrupted == {t \in WithStatus(task, "running") : task[t].inst = chosen}

ListInterrupted ==
  /\ At("spot", "listInterrupted")
  /\ \/ /\ Interrupted # {}
        /\ ListInto(Interrupted)
        /\ UNCHANGED storeFaults
     \/ /\ (Interrupted = {} /\ UNCHANGED storeFaults) \/ StoreFails
        /\ EnterPhase("spot")
  /\ UNCHANGED <<tables, world, memory, req, budget>>

RequeueInterrupted ==
  /\ At("spot", "next")
  /\ Write(RequeueTask(task, Current))
  /\ Continue
  /\ UNCHANGED <<inst, world, memory, req, budget>>

NoMoreInterruptions ==
  /\ At("spot", "list")
  /\ EnterPhase("cancelled")
  /\ UNCHANGED <<tables, world, memory, req, budget, storeFaults>>

-----------------------------------------------------------------------------
(* The scaler's Evaluate (EC2).                                             *)

\* The containers once the hosts of S are gone.
WithoutHosts(S) ==
  [c \in DOMAIN ctr |->
     IF ctr[c].inst \in S THEN [ctr[c] EXCEPT !.st = "lost"] ELSE ctr[c]]

IdleInstances_OneBusy == {i \in InstancesWith(inst, "running") : inst[i].count <= 1}

\* Instances that scaleDown may find idle.
IdleInstances == {i \in InstancesWith(inst, "running") : inst[i].count = 0}

\* reconcilePending promotes pending instances that answer (up) and gives up
\* others; reconcileRunning marks running instances terminated when EC2 says
\* so and when the call that asks EC2 fails (down); scaleDown terminates
\* instances with no counted container that have been idle long enough (idle).
Evaluate ==
  /\ At("evaluate", "list")
  /\ \E up \in SUBSET (InstancesWith(inst, "pending") \ dead) :
     \E down \in SUBSET (InstancesWith(inst, "pending") \cup
                         InstancesWith(inst, "running")) :
     \E idle \in SUBSET IdleInstances :
       /\ InstancesWith(inst, "running") \cap dead \subseteq down
       /\ down \ dead # {} => Glitches
       /\ up \cap down = {} /\ idle \cap down = {}
       /\ inst' = [i \in Instance |->
                     CASE i \in up          -> [inst[i] EXCEPT !.status = "running"]
                       [] i \in down \cup idle -> [status |-> "terminated", count |-> 0]
                       [] OTHER             -> inst[i]]
       /\ dead' = dead \cup idle
       /\ ctr' = WithoutHosts(idle)
  /\ EnterPhase(NextPhase["evaluate"])
  /\ UNCHANGED <<task, expired, memory, req, budget, storeFaults>>

-----------------------------------------------------------------------------
(* A crash loses the server's memory and every request in flight; rows and  *)
(* containers stay.  A shutdown by signal is no gentler to the orchestrator: *)
(* its context is cancelled and its goroutine is not awaited.               *)

Crash ==
  /\ phase # "down"
  /\ crashes < MaxCrashes
  /\ crashes' = crashes + 1
  /\ EnterPhase("down")
  /\ running' = 0
  /\ failures' = [t \in Task |-> 0]
  /\ req' = [r \in Requests |-> NoRequest]
  /\ UNCHANGED <<tables, world, faults, storeFaults>>

\* New: in local and Fargate mode syncSyntheticInstance finds the instance,
\* marks it running and resets its count.  Then recoverOnStartup begins, while
\* the API already serves.
Restart ==
  /\ phase = "down"
  /\ EnterPhase("recover")
  /\ inst' = IF Mode = "ec2" THEN inst
             ELSE [i \in Instance |-> [status |-> "running", count |-> 0]]
  /\ UNCHANGED <<task, world, memory, req, budget, storeFaults>>

-----------------------------------------------------------------------------
(* recoverOnStartup.  snap collects the rows of its three lists and is kept *)
(* to the end, where the counters are rebuilt from it.                      *)

\* One of the first two ListTasks calls; listTasksSafe takes one that fails
\* for an empty list.
Collect(s, label, rest) ==
  /\ At("recover", label)
  /\ \/ /\ snap' = [t \in Task |-> IF task[t].status = s THEN task[t] ELSE snap[t]]
        /\ todo' = todo \cup WithStatus(task, s)
        /\ UNCHANGED storeFaults
     \/ UNCHANGED <<snap, todo>> /\ StoreFails
  /\ pc' = rest
  /\ UNCHANGED <<phase, chosen>>
  /\ UNCHANGED <<tables, world, memory, req, budget>>

ListOrphansRunning      == Collect("running", "list", "listProvisioning")
ListOrphansProvisioning_Pending == Collect("pending", "listProvisioning", "listRecovering")
ListOrphansProvisioning == Collect("provisioning", "listProvisioning", "listRecovering")

\* Tasks that were recovering already and have a container.
PreviouslyRunning ==
  {t \in Task : snap[t].status = "recovering" /\ snap[t].cont # NoContainer}

WereRunning_OrProvisioning == {t \in Task : snap[t].status \in {"running", "provisioning"}}

WereRunning == {t \in Task : snap[t].status = "running"}

RecoveringContainers ==
  {t \in WithStatus(task, "recovering") : task[t].cont # NoContainer}

\* The third list, and the early return when there is nothing to recover.
ListOrphansRecovering ==
  /\ At("recover", "listRecovering")
  /\ \E found \in {RecoveringContainers, {}} :
       /\ \/ found = RecoveringContainers /\ UNCHANGED storeFaults
          \/ found = {} /\ StoreFails
       /\ IF todo = {} /\ found = {}
            THEN EnterPhase(FirstPhase)
            ELSE /\ snap' = [t \in Task |-> IF t \in found THEN task[t] ELSE snap[t]]
                 /\ pc' = (IF todo = {} THEN "finish" ELSE "next")
                 /\ UNCHANGED <<phase, todo, chosen>>
  /\ UNCHANGED <<tables, world, memory, req, budget>>

NextOrphan ==
  /\ todo' = todo \ {Current}
  /\ pc' = (IF todo = {Current} THEN "finish" ELSE "next")
  /\ UNCHANGED <<phase, snap, chosen>>

MarkRecovering ==
  /\ At("recover", "next")
  /\ Write(UpdateTaskStatus(task, Current, "recovering"))
  /\ IF snap[Current].status = "provisioning" THEN Goto("clear") ELSE NextOrphan
  /\ UNCHANGED <<inst, world, memory, req, budget>>

ClearProvisioned ==
  /\ At("recover", "clear")
  /\ Write(ClearTaskAssignment(task, Current))
  /\ NextOrphan
  /\ UNCHANGED <<inst, world, memory, req, budget>>

\* o.running counts both kinds; an instance's count is rebuilt from the tasks
\* that were running, and only if there is one on it.
RebuildCounters ==
  /\ At("recover", "finish")
  /\ running' = Cardinality(WereRunning) + Cardinality(PreviouslyRunning)
  /\ inst' = [i \in Instance |->
                LET here == {t \in WereRunning : snap[t].inst = i}
                IN  IF here = {} THEN inst[i]
                                 ELSE [inst[i] EXCEPT !.count = Cardinality(here)]]
  /\ EnterPhase(FirstPhase)
  /\ UNCHANGED <<task, world, failures, req, budget, storeFaults>>

-----------------------------------------------------------------------------
(* The API.  A handler reads the row with GetTask and answers an error       *)
(* unless the status allows the operation; it then writes, without looking   *)
(* at the row again.                                                        *)

Cancellable == {"pending", "provisioning", "running", "recovering"}
Retryable   == {"failed", "interrupted", "cancelled"}

\* POST /tasks.
Create(t) ==
  /\ phase # "down"
  /\ task[t].status = "new"
  /\ \A u \in Task : u < t => task[u].status # "new"
  /\ task' = CreateTask(task, t)
  /\ UNCHANGED <<inst, world, loop, memory, req, budget, storeFaults>>

\* GetTask and the checks of a handler that will go on to write op.
Admit(r, op, t) ==
  /\ phase # "down"
  /\ req[r] = NoRequest
  /\ op \in Ops
  /\ req' = [req EXCEPT ![r] = [op |-> op, task |-> t]]
  /\ UNCHANGED <<tables, world, loop, memory, budget, storeFaults>>

\* POST /tasks/{id}/cancel, /cancel, and DELETE of a task with a container.
BeginCancel(r, t) == task[t].status \in Cancellable /\ Admit(r, "cancel", t)

\* DELETE /tasks/{id} of a task that is neither active nor terminal.
BeginDelete(r, t) ==
  task[t].status \in {"pending", "interrupted"} /\ Admit(r, "delete", t)

\* POST /tasks/{id}/retry and the retry button.
BeginRetry(r, t) ==
  /\ task[t].status \in Retryable
  /\ task[t].uretry < MaxUserRetries
  /\ Admit(r, "retry", t)

\* The handler's one statement.
Finish(r, op, db) ==
  /\ req[r].op = op
  /\ task' = db
  /\ req' = [req EXCEPT ![r] = NoRequest]
  /\ UNCHANGED <<inst, world, loop, memory, budget, storeFaults>>

FinishCancel(r) == Finish(r, "cancel", CancelTask(task, req[r].task))
FinishDelete(r) == Finish(r, "delete", DeleteTask(task, req[r].task))
FinishRetry(r)  == Finish(r, "retry", RetryTask(task, req[r].task))

-----------------------------------------------------------------------------
(* Containers, hosts and clocks.                                            *)

\* The agent exits, having done its work or not.
Exit(c) ==
  /\ c \in LiveContainers
  /\ \E st \in {"ok", "bad"} : ctr' = [ctr EXCEPT ![c].st = st]
  /\ UNCHANGED <<tables, dead, expired, loop, memory, req, budget, storeFaults>>

\* Fargate Spot takes a container back.
Reclaim(c) ==
  /\ Mode = "fargate" /\ faults < MaxFaults
  /\ c \in LiveContainers
  /\ ctr' = [ctr EXCEPT ![c].st = "lost"]
  /\ faults' = faults + 1
  /\ UNCHANGED <<tables, dead, expired, loop, memory, req, crashes, storeFaults>>

\* EC2 takes a host back, and every container on it.
HostDies(i) ==
  /\ Mode = "ec2" /\ faults < MaxFaults
  /\ inst[i].status # "none" /\ i \notin dead
  /\ dead' = dead \cup {i}
  /\ ctr' = WithoutHosts({i})
  /\ faults' = faults + 1
  /\ UNCHANGED <<tables, expired, loop, memory, req, crashes, storeFaults>>

\* A started task reaches its deadline.
Expire(t) ==
  /\ task[t].status = "running" /\ task[t].started
  /\ t \notin expired
  /\ expired' = expired \cup {t}
  /\ UNCHANGED <<tables, ctr, dead, loop, memory, req, budget, storeFaults>>

-----------------------------------------------------------------------------
Init ==
  /\ task = [t \in Task |-> EmptyRow]
  /\ inst = [i \in Instance |->
               [status |-> IF Mode = "ec2" THEN "none" ELSE "running", count |-> 0]]
  /\ ctr = << >>
  /\ dead = {}
  /\ expired = {}
  /\ phase = "recover" /\ pc = "list" /\ todo = {}
  /\ snap = [t \in Task |-> EmptyRow]
  /\ chosen = NoInstance
  /\ running = 0
  /\ failures = [t \in Task |-> 0]
  /\ req = [r \in Requests |-> NoRequest]
  /\ crashes = 0 /\ faults = 0 /\ storeFaults = 0

Recover ==
  \/ ListOrphansRunning \/ ListOrphansProvisioning \/ ListOrphansRecovering
  \/ MarkRecovering \/ ClearProvisioned \/ RebuildCounters

MonitorCancelled ==
  ListCancelled \/ CancelledWithoutContainer \/ StopCancelled \/ ClearCancelled

MonitorRecovering == ListRecovering \/ RequeueProvisioned \/ PromoteRecovered

MonitorRunning == ListRunning \/ StillRunning \/ StopToKill \/ KillTask

DispatchPending ==
  \/ ListPending \/ RejectRead \/ NoCapacity \/ Assign \/ RunAgent \/ Start
  \/ FailDispatch

Shared ==
  \/ ListFails \/ CompleteExited \/ ReleaseSlot \/ MarkRetryReady
  \/ GiveUpInstance \/ CountInspectFailure \/ Requeue

CheckInterruptions ==
  DrainInstance \/ ListInterrupted \/ RequeueInterrupted \/ NoMoreInterruptions

\* The goroutine of Orchestrator.Start.
OrchestratorStep ==
  \/ Recover \/ CheckInterruptions \/ MonitorCancelled \/ MonitorRecovering
  \/ MonitorRunning \/ DispatchPending \/ Shared \/ Evaluate

ApiStep ==
  \/ \E t \in Task : Create(t)
  \/ \E r \in Requests, t \in Task :
       BeginCancel(r, t) \/ BeginDelete(r, t) \/ BeginRetry(r, t)
  \/ \E r \in Requests : FinishCancel(r) \/ FinishDelete(r) \/ FinishRetry(r)

WorldStep ==
  \/ \E c \in DOMAIN ctr : Exit(c) \/ Reclaim(c)
  \/ \E i \in Instance : HostDies(i)
  \/ \E t \in Task : Expire(t)
  \/ Crash \/ Restart

Next == OrchestratorStep \/ ApiStep \/ WorldStep

Spec == Init /\ [][Next]_vars

\* The goroutine keeps ticking, a crashed server is started again, deadlines
\* pass.  Nothing is assumed of users, agents, Spot or EC2.
Fairness ==
  /\ WF_vars(OrchestratorStep)
  /\ WF_vars(Restart)
  /\ \A t \in Task : WF_vars(Expire(t))

FairSpec == Spec /\ Fairness

-----------------------------------------------------------------------------
(* The shape of the state.                                                  *)

TypeOK ==
  /\ task \in TaskTable /\ inst \in InstanceTable
  /\ ctr \in Seq(Container)
  /\ dead \subseteq Instance
  /\ expired \subseteq Task
  /\ phase \in Phases /\ pc \in PCs
  /\ todo \subseteq Task
  /\ snap \in [Task -> Row]
  /\ chosen \in Instance \cup {NoInstance}
  /\ running \in Nat
  /\ failures \in [Task -> 0..maxInspectFailures]
  /\ req \in [Requests -> [op : Ops \cup {"none"}, task : Task \cup {0}]]
  /\ crashes \in Nat /\ faults \in Nat /\ storeFaults \in Nat

=============================================================================
