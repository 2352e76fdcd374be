----------------------- MODULE OrchestratorProperties -----------------------
(***************************************************************************)
(* What the orchestrator should guarantee.  The configurations say under     *)
(* which requests, crashes and faults each property is checked; the          *)
(* properties that the code does not have are at the end.                   *)
(***************************************************************************)
EXTENDS Orchestrator

\* Between two ticks, or before the first one after recovery.
AtRest == phase = FirstPhase /\ pc = "list"

\* The tasks whose container holds a slot until the orchestrator releases it.
Holding == {t \in Task : /\ task[t].cont # NoContainer
                         /\ task[t].status \in {"running", "recovering", "cancelled"}}

Launches(t) == {c \in DOMAIN ctr : ctr[c].task = t}

Busy(t) == \E c \in LiveContainers : ctr[c].task = t

Terminal == {"completed", "failed", "cancelled"}

-----------------------------------------------------------------------------
(* Counters.                                                                *)

HeldOn(i) == {t \in Holding : task[t].inst = i}

\* Nothing has parted the counters from the rows: no cancel, after which a slot
\* may be given back twice, and no failed statement.  Cancelled rows stay so
\* where there are no retries.
Undisturbed == storeFaults = 0 /\ WithStatus(task, "cancelled") = {}

\* No task with a container has been requeued, because the container was
\* interrupted or because recovery gave up inspecting it: requeueTask keeps
\* the slot of the instance.
NoneRequeued == faults = 0 /\ (crashes = 0 \/ (Mode = "fargate" /\ ~ Glitches))

\* No task has been retried.
NoneRetried == \A t \in Task : task[t].uretry = 0

\* The two counters of slots, o.running and running_containers, are kept on six
\* release paths and rebuilt by recovery.  Between ticks o.running never counts a
\* task that holds no slot, whatever is cancelled and whenever the server
\* restarts: capacity does not leak away.  Undisturbed it is exact, and
\* running_containers is exact on every instance until a task is requeued.  A
\* retry after a failed statement is excepted: it may take a running task whose
\* completion was lost.
SlotsAccounted ==
  AtRest /\ (NoneRetried \/ storeFaults = 0) =>
    /\ running <= Cardinality(Holding)
    /\ Undisturbed => running = Cardinality(Holding)
    /\ Undisturbed /\ NoneRequeued =>
         \A i \in Instance : inst[i].count = Cardinality(HeldOn(i))

\* running_containers is never too low for an instance in service, so that
\* an instance is not overfilled, or scaled down, because of a slot lost.
InstanceSlotsCovered ==
  AtRest => \A i \in Instance :
              inst[i].status = "running" =>
                inst[i].count >= Cardinality(HeldOn(i))

\* While the server is up, dispatch takes a slot only when fewer than
\* MaxConcurrent are taken, although it decides once for a whole list.
Slots == INSTANCE SlotPool WITH Limit <- MaxConcurrent, used <- running,
                                open <- phase \notin {"down", "recover"}
DispatchWithinLimit == Slots!Spec

-----------------------------------------------------------------------------
(* The inductive invariant behind the theorems: TypeOK and what control       *)
(* knows about the memory of the loops.                                     *)

\* The labels of each loop.
Labels ==
  [p \in Phases |->
     CASE p = "recover"    -> {"list", "listProvisioning", "listRecovering",
                               "next", "clear", "finish"}
       [] p = "spot"       -> {"list", "listInterrupted", "next"}
       [] p = "cancelled"  -> {"list", "next", "release", "clear", "ready"}
       [] p = "recovering" -> {"list", "next", "release", "releaseCompleted",
                               "ready", "requeue"}
       [] p = "running"    -> {"list", "next", "release", "releaseCompleted",
                               "ready", "requeue", "kill"}
       [] p = "dispatch"   -> {"list", "next", "run", "start", "fail"}
       [] OTHER            -> {"list"}]

\* A loop that has listed its tasks has one in hand until it ends, and a
\* dispatch that launches has chosen an instance.
LoopShape ==
  /\ pc \in Labels[phase]
  /\ pc \notin ListPCs => todo # {}
  /\ pc = "run" => chosen \in Instance

\* A request in flight names a task.
RequestShape == \A r \in Requests : req[r] = NoRequest \/ req[r].task \in Task

\* The free slots that dispatchPending counted before it listed cover every
\* task it has not handled yet; nothing is counted before recovery ends.
SlotBudget ==
  /\ phase \in {"down", "recover"} => running = 0
  /\ phase = "dispatch" /\ pc # "list" => running + Cardinality(todo) <= MaxConcurrent

IInv == TypeOK /\ LoopShape /\ RequestShape /\ SlotBudget

-----------------------------------------------------------------------------
(* Launches, containers and retries.                                        *)

\* Every launch of a task after its first is paid for by a user retry, a
\* server crash or a lost container: no list, however stale, and no repeated
\* handling of the same failure launches a task once more than that.
RelaunchesHaveACause ==
  \A t \in Task : task[t].status \notin Absent =>
    Cardinality(Launches(t)) <= 1 + task[t].uretry + crashes + faults

\* No crash and no failed statement has come between a launch and the
\* statement that records it.
LaunchesRecorded == crashes = 0 /\ storeFaults = 0

\* A task never has two agents at work, and between ticks every working
\* container is the one its task names, so that the orchestrator can still
\* inspect it and stop it.
OneAgentPerTask ==
  LaunchesRecorded =>
    /\ \A t \in Task : Cardinality(Launches(t) \cap LiveContainers) <= 1
    /\ AtRest => \A c \in LiveContainers : task[ctr[c].task].cont = c

\* The retry flag and the retry counter keep the promise of RetryBudget under
\* any interleaving of concurrent retries, cancels and deletes.
GateOf(row) == IF row.status = "deleted" THEN "gone"
               ELSE IF row.ready THEN "open" ELSE "shut"

Retries == INSTANCE RetryBudget WITH Limit <- MaxUserRetries,
             gate <- [t \in Task |-> GateOf(task[t])],
             used <- [t \in Task |-> task[t].uretry]
RetriesWithinBudget == Retries!Spec

\* The status of every task moves along TaskLifecycle when no one cancels it:
\* along the edges each loop means to take, whatever row it listed before, and
\* not those of docs/schema.md:146-154, which lacks two of them.
Lifecycle == INSTANCE TaskLifecycle WITH status <- [t \in Task |-> task[t].status]
FollowsLifecycle == Lifecycle!Spec

\* Pending tasks are dispatched oldest first: no task is assigned while an
\* older one is pending, unless a retry put the older one back in the queue.
OldestFirstDispatch ==
  [][\A u \in Task :
       (task[u].status = "pending" /\ task'[u].status = "provisioning")
         => \A t \in Task :
              t < u /\ task[t].status = "pending" => task[t].uretry > 0]_vars

-----------------------------------------------------------------------------
(* EC2 instances.                                                           *)

InService == InstancesWith(inst, "pending") \cup InstancesWith(inst, "running")

\* The scaler never has more than MaxInstances instances launched and serving.
InstancesWithinLimit == Mode = "ec2" => Cardinality(InService) <= MaxInstances

\* Scale-down never terminates the host of an agent at work on its task.
BusyHostKept ==
  [][(phase = "evaluate" /\ phase' = "spot")
       => \A c \in LiveContainers :
            task[ctr[c].task].cont = c => c \in LiveContainers']_vars

-----------------------------------------------------------------------------
(* Progress, under Fairness.                                                *)

\* A cancelled task is cleaned up: it loses its assignment and can be retried.
\* A failed one can be retried too, unless the server crashes before it sets the
\* flag.
EndedIsRetryable ==
  \A t \in Task :
    /\ task[t].status = "cancelled" ~>
         \/ task[t].status # "cancelled"
         \/ task[t].ready /\ task[t].cont = NoContainer
    /\ task[t].status = "failed" ~>
         (task[t].status # "failed" \/ task[t].ready \/ crashes > 0)

\* Cancelling a task stops its agent, unless a crash has left one that the
\* task does not name.
CancelledIsStopped ==
  \A t \in Task : task[t].status = "cancelled" ~>
    (task[t].status # "cancelled" \/ ~ Busy(t) \/ crashes > 0)

\* No task is requeued that has a container: each time the slot of the synthetic
\* instance is lost.
SlotsNotLost == [](pc = "requeue" => snap[Current].cont = NoContainer)

\* Every task that enters the queue comes to an end: neither a cancel nor a crash
\* at any point, nor what recovery makes of its row, leaves it pending or
\* recovering for good.
EveryTaskEnds ==
  SlotsNotLost =>
    \A t \in Task : task[t].status \notin Absent ~> task[t].status \in Terminal \cup Absent

-----------------------------------------------------------------------------
(* Promises of the repository's texts that the code does not keep; the slots  *)
(* of an interrupted EC2 instance are another (SlotsAccounted fails).      *)

\* docs/schema.md: cancelled is a terminal state; only a retry leaves it.
CancelledIsTerminal ==
  [][\A t \in Task : task[t].status = "cancelled"
       => task'[t].status \in {"cancelled", "pending", "deleted"}]_vars

\* monitor.go: requeueTask puts a task back to pending "so it will be
\* dispatched", so that no task waits in the queue for good.
PendingIsDispatched ==
  \A t \in Task : task[t].status = "pending" ~> task[t].status # "pending"

=============================================================================
