---------------------------- MODULE ReadPipeline ----------------------------
(***************************************************************************)
(* Read tasks: from the duplicate check at dispatch, through the report of   *)
(* the reader container, to the row of the readings table that serves the   *)
(* duplicate check of later tasks and the lookups of later readers.         *)
(*                                                                         *)
(* The orchestrator is one goroutine: it handles one task at a time, while   *)
(* requests, readers and the loss of hosts go on beside it.  Its loops are   *)
(* those of module Orchestrator; here it may take the tasks in any order, and *)
(* what module Orchestrator splits into statements, a launch, the completion  *)
(* of a killed task or the clean-up of a cancelled one, is one step.         *)
(* Slots and the counting of failed inspections are left to that module.     *)
(* After a crash the recovering tasks go through the same two ways: their     *)
(* container has exited and is completed, or it is gone.                     *)
(*                                                                         *)
(* Bounds: MaxCrashes and MaxFaults limit crashes and failing calls,         *)
(* MaxRequests the requests in flight; BACKFLOW_MAX_USER_RETRIES limits       *)
(* retries.                                                                 *)
(***************************************************************************)
EXTENDS Naturals, FiniteSets

CONSTANTS
  NumTasks,        \* how many read tasks are submitted
  Url,             \* what there is to read
  MaxUserRetries,
  MaxRequests,     \* requests that handlers are working on at once
  MaxCrashes,      \* server crashes
  MaxFaults        \* calls and statements that fail, and containers that are lost

ASSUME ReadAssumption ==
  /\ NumTasks \in Nat /\ MaxUserRetries \in Nat
  /\ MaxRequests \in Nat /\ MaxCrashes \in Nat /\ MaxFaults \in Nat

Task == 1..NumTasks

VARIABLES
  task,       \* the tasks table
  readings,   \* the readings table, keyed by its unique url
  agent,      \* the container last launched for each task
  pc,         \* what the orchestrator is about to do
  cur,        \* the task it is doing it for
  seen,       \* the report InspectContainer returned
  result,     \* TaskResult.Status of that task
  requests,   \* the requests that have passed their check of the task
  undone,     \* the tasks that have been cancelled after they had completed
  fargate,    \* whether containers run on ECS, or under docker on hosts
  crashes, faults, storeFaults

tables == <<task, readings, requests, undone, fargate>>
orch   == <<pc, cur, seen, result>>
budget == <<crashes, faults, storeFaults>>
vars   == <<task, readings, requests, undone, agent, pc, cur, seen, result, fargate, crashes,
            faults, storeFaults>>

\* A url that no reading or report gives.
NoUrl == "none"

Row == [status : {"new", "pending", "running", "completed", "failed", "cancelled", "deleted"},
        url : Url \cup {NoUrl}, force : BOOLEAN, container : BOOLEAN, ready : BOOLEAN,
        uretry : 0..MaxUserRetries]

NewRow == [status |-> "new", url |-> NoUrl, force |-> FALSE, container |-> FALSE,
           ready |-> FALSE, uretry |-> 0]

\* A handler that has checked the task, and is about to write.
Request == [op : {"cancel", "delete", "retry"}, id : Task]

\* status.json as the reader writes it: what it is about, whether the reader
\* found it a duplicate, and whether it has read the page itself.
Report == [url : Url, duplicate : BOOLEAN, body : {"summary", "stub"}]

\* What the orchestrator knows of a report that it cannot read.
NoReport == [url |-> NoUrl, duplicate |-> FALSE, body |-> "empty"]

\* The reader has started, has looked up its url and found it or not, or has
\* exited; a container may also be lost with its host or to Spot.
Agent == [st : {"none", "started", "found", "clear", "exited", "lost"},
          exit : {"zero", "nonzero", "unknown"}, report : Report \cup {NoReport}]

NewAgent == [st |-> "started", exit |-> "unknown", report |-> NoReport]
NoAgent  == [NewAgent EXCEPT !.st = "none"]

Working(t) == agent[t].st \in {"started", "found", "clear"}

\* A row of the readings table that does not exist.
NoReading == [task |-> 0, body |-> "none"]

Captured(u) == readings[u] # NoReading

Fault == faults + storeFaults < MaxFaults /\ faults' = faults + 1 /\ UNCHANGED <<crashes, storeFaults>>

StoreFault ==
  /\ faults + storeFaults < MaxFaults
  /\ storeFaults' = storeFaults + 1
  /\ UNCHANGED <<crashes, faults>>

\* UPDATE tasks SET status = s WHERE id = t, and ready_for_retry with it.
Update(t, s, ready) ==
  task' = IF task[t].status = "deleted" THEN task
          ELSE [task EXCEPT ![t].status = s, ![t].ready = @ \/ ready]

SetStatus(t, s) == Update(t, s, FALSE)

Idle == pc' = "idle" /\ cur' = 0 /\ seen' = NoReport /\ result' = "none"

-----------------------------------------------------------------------------
(* Requests.  A handler reads the task, decides, and writes whatever has      *)
(* become of the task meanwhile.                                            *)

\* NewReadTask.
Submit(t, u, force) ==
  /\ task[t].status = "new"
  /\ \A s \in 1..(t - 1) : task[s].status # "new"
  /\ task' = [task EXCEPT ![t] =
                [NewRow EXCEPT !.status = "pending", !.url = u, !.force = force]]
  /\ UNCHANGED <<readings, requests, undone, fargate, agent, orch, budget>>

\* GetTask: a task that has not ended may be cancelled, a pending one deleted,
\* one that has failed or was cancelled retried.
Accepts(row, op) ==
  CASE op = "cancel" -> row.status \in {"pending", "running"}
    [] op = "delete" -> row.status = "pending"
    [] op = "retry"  -> row.status \in {"failed", "cancelled"} /\ row.uretry < MaxUserRetries

BeginRequest(t, op) ==
  /\ Cardinality(requests) < MaxRequests
  /\ Accepts(task[t], op)
  /\ requests' = requests \cup {[op |-> op, id |-> t]}
  /\ UNCHANGED <<task, readings, undone, fargate, agent, orch, budget>>

Finishes(t, op) ==
  /\ [op |-> op, id |-> t] \in requests
  /\ requests' = requests \ {[op |-> op, id |-> t]}
  /\ UNCHANGED <<fargate, agent, orch, budget>>

\* CancelTask.
Cancel(t) ==
  /\ Finishes(t, "cancel")
  /\ SetStatus(t, "cancelled")
  /\ undone' = IF task[t].status = "completed" THEN undone \cup {t} ELSE undone
  /\ UNCHANGED readings

\* DeleteTask and ON DELETE CASCADE.
Delete(t) ==
  /\ Finishes(t, "delete")
  /\ task' = [task EXCEPT ![t].status = "deleted"]
  /\ readings' = [u \in Url |-> IF readings[u].task = t THEN NoReading ELSE readings[u]]
  /\ UNCHANGED undone

Requeued(row) == [row EXCEPT !.status = "pending", !.container = FALSE, !.ready = FALSE]

\* RetryTask: the statement looks at the flag and the count, not at the status.
Retry(t) ==
  /\ Finishes(t, "retry")
  /\ task' = IF task[t].status # "deleted" /\ task[t].ready
                  /\ task[t].uretry < MaxUserRetries
                THEN [task EXCEPT ![t] = [Requeued(task[t]) EXCEPT !.uretry = @ + 1]]
                ELSE task
  /\ UNCHANGED <<readings, undone>>

-----------------------------------------------------------------------------
(* Dispatch.                                                                *)

Lookup_IgnoresRow(t) ==
  /\ pc = "idle" /\ task[t].status = "pending"
  /\ pc' = "launch" /\ cur' = t
  /\ UNCHANGED <<tables, agent, seen, result, budget>>

\* The duplicate check.  A duplicate fails the task, and so does a lookup that
\* fails; neither sets the retry flag.
Lookup(t) ==
  /\ pc = "idle" /\ task[t].status = "pending"
  /\ \/ /\ task[t].force \/ ~ Captured(task[t].url)
        /\ pc' = "launch" /\ cur' = t
        /\ UNCHANGED <<task, seen, result, budget>>
     \/ /\ ~ task[t].force
        /\ (Captured(task[t].url) /\ UNCHANGED budget) \/ Fault
        /\ SetStatus(t, "failed")
        /\ UNCHANGED orch
  /\ UNCHANGED <<readings, requests, undone, fargate, agent>>

\* StartTask.
Start(t) ==
  task' = IF task[t].status = "deleted" THEN task
          ELSE [task EXCEPT ![t].status = "running", ![t].container = TRUE]

\* AssignTask, RunAgent and StartTask, whatever the task has become since the
\* check.  ECS gets the task's id as the client token and may answer with the
\* container it has launched for it before.
Launch ==
  /\ pc = "launch"
  /\ \/ /\ agent' = [agent EXCEPT ![cur] = NewAgent]
        /\ Start(cur)
        /\ UNCHANGED budget
     \/ /\ fargate /\ agent[cur].st # "none"
        /\ Start(cur)
        /\ UNCHANGED <<agent, budget>>
     \/ /\ Fault
        /\ SetStatus(cur, "failed")
        /\ UNCHANGED agent
  /\ Idle
  /\ UNCHANGED <<readings, requests, undone, fargate>>

-----------------------------------------------------------------------------
(* The reader.                                                              *)

\* read-lookup.sh: the exact duplicate check, whatever FORCE says.
AgentLooksUp(t) ==
  /\ agent[t].st = "started"
  /\ agent' = [agent EXCEPT ![t].st = IF Captured(task[t].url) THEN "found" ELSE "clear"]
  /\ UNCHANGED <<tables, orch, budget>>

\* What the reader may report.  A found url is reported as a duplicate with
\* the tldr that the existing reading has; otherwise the page is read and may
\* be judged a duplicate of another one, or be given another url.
Reports(t) ==
  IF agent[t].st = "found"
    THEN {[url |-> task[t].url, duplicate |-> TRUE, body |-> "stub"]}
    ELSE {[url |-> task[t].url, duplicate |-> TRUE, body |-> "summary"]}
         \cup [url : Url, duplicate : {FALSE}, body : {"summary"}]

\* The reader writes status.json and exits with 0, or fails with no usable
\* result.  ECS may not know the exit code of a container that was stopped.
AgentExits(t) ==
  /\ \/ agent[t].st \in {"found", "clear"} /\ \E report \in Reports(t) :
          agent' = [agent EXCEPT ![t] = [st |-> "exited", exit |-> "zero", report |-> report]]
     \/ Working(t) /\ \E exit \in {"nonzero"} \cup (IF fargate THEN {"unknown"} ELSE {}) :
          agent' = [agent EXCEPT ![t] = [st |-> "exited", exit |-> exit, report |-> NoReport]]
  /\ UNCHANGED <<tables, orch, budget>>

\* Spot takes a working container back, or a host goes with all it has run.
LoseContainer(t) ==
  /\ Working(t) \/ (~ fargate /\ agent[t].st = "exited")
  /\ agent' = [agent EXCEPT ![t].st = "lost"]
  /\ Fault
  /\ UNCHANGED <<tables, orch>>

-----------------------------------------------------------------------------
(* Monitoring and completion.                                               *)

\* requeueTask, when the container is gone.
Requeue(t) ==
  /\ pc = "idle" /\ task[t].status = "running"
  /\ agent[t].st = "lost"
  /\ task' = [task EXCEPT ![t] = Requeued(@)]
  /\ agent' = [agent EXCEPT ![t] = IF fargate THEN @ ELSE NoAgent]
  /\ UNCHANGED <<readings, requests, undone, fargate, orch, budget>>

\* StopContainer, whatever the container does: docker removes it, ECS keeps it,
\* and the stop may fail.
Stop(t) ==
  \/ /\ agent' = [agent EXCEPT ![t] =
                    CASE ~ fargate                -> NoAgent
                      [] fargate /\ Working(t)    -> [NewAgent EXCEPT !.st = "exited"]
                      [] fargate /\ ~ Working(t)  -> @]
     /\ UNCHANGED budget
  \/ Fault /\ UNCHANGED agent

\* killTask, at the deadline or after inspections that fail.
Kill(t) ==
  /\ pc = "idle" /\ task[t].status = "running"
  /\ Update(t, "failed", TRUE)
  /\ Stop(t)
  /\ UNCHANGED <<readings, requests, undone, fargate, orch>>

\* monitorCancelled: the container is stopped, and only then a retry allowed.
CleanUp(t) ==
  /\ pc = "idle" /\ task[t].status = "cancelled"
  /\ \/ task[t].container /\ Stop(t)
     \/ ~ task[t].container /\ ~ task[t].ready /\ UNCHANGED <<agent, budget>>
  /\ task' = [task EXCEPT ![t].container = FALSE, ![t].ready = TRUE]
  /\ UNCHANGED <<readings, requests, undone, fargate, orch>>

\* Complete, or exit code 0, which is also what an unknown code is taken for.
Completed(t, report) == report # NoReport \/ agent[t].exit # "nonzero"

\* A duplicate is completed without a new row, unless the task is forced.
Skipped_Never(t, report) == FALSE

Skipped(t, report) == report.duplicate /\ ~ task[t].force

\* handleCompletion up to the upsert: where it goes on, and with what result.
Outcome(t, report, embedded) ==
  IF Completed(t, report) /\ ~ Skipped(t, report) /\ embedded
    THEN [pc |-> "store", result |-> "completed"]
    ELSE [pc |-> "finish",
          result |-> IF Completed(t, report) /\ Skipped(t, report) THEN "completed"
                                                                ELSE "failed"]

\* InspectContainer of a container that has exited: the report may stay unread
\* unnoticed.  The embedder may fail, and may refuse the empty tldr.
Inspect(t) ==
  /\ pc = "idle" /\ task[t].status = "running"
  /\ agent[t].st = "exited"
  /\ \E report \in {agent[t].report, NoReport}, embedded \in BOOLEAN :
       /\ seen' = report
       /\ pc' = Outcome(t, report, embedded).pc
       /\ result' = Outcome(t, report, embedded).result
       /\ IF report = agent[t].report /\ (embedded \/ report = NoReport)
            THEN UNCHANGED budget ELSE Fault
  /\ cur' = t
  /\ UNCHANGED <<tables, agent>>

\* The url the reader reported, or the prompt.
ReadUrl == IF seen.url = NoUrl THEN task[cur].url ELSE seen.url

NewReading == [task |-> cur, body |-> seen.body]

Store_Unnoticed ==
  /\ pc = "store"
  /\ \E written \in BOOLEAN :
       /\ readings' = IF written THEN [readings EXCEPT ![ReadUrl] = NewReading] ELSE readings
       /\ \/ written /\ UNCHANGED budget
          \/ StoreFault
  /\ pc' = "finish"
  /\ UNCHANGED <<task, requests, undone, fargate, agent, cur, seen, result>>

\* UpsertReading.  An error fails the task, and does not say whether the row
\* was written.  The row refers to that of the task, which may be gone.
Store ==
  /\ pc = "store"
  /\ \/ /\ task[cur].status # "deleted"
        /\ \E written \in BOOLEAN :
             /\ readings' = IF written
                              THEN [readings EXCEPT ![ReadUrl] = NewReading]
                              ELSE readings
             /\ \/ written /\ UNCHANGED <<result, budget>>
                \/ StoreFault /\ result' = "failed"
     \/ /\ task[cur].status = "deleted"
        /\ result' = "failed"
        /\ UNCHANGED <<readings, budget>>
  /\ pc' = "finish"
  /\ UNCHANGED <<task, requests, undone, fargate, agent, cur, seen>>

Finish_BeforeStore ==
  /\ pc \in {"store", "finish"}
  /\ Update(cur, result, result = "failed")
  /\ IF pc = "store" THEN pc' = "store" /\ UNCHANGED <<cur, seen, result>> ELSE Idle
  /\ UNCHANGED <<readings, requests, undone, fargate, agent, budget>>

\* CompleteTask, and markRetryReady for a failed task.  When CompleteTask fails
\* the task stays running and is inspected again.
Finish ==
  /\ pc = "finish"
  /\ \/ Update(cur, result, result = "failed") /\ UNCHANGED budget
     \/ Update(cur, task[cur].status, result = "failed") /\ StoreFault
  /\ Idle
  /\ UNCHANGED <<readings, requests, undone, fargate, agent>>

\* The server crashes, with the requests in flight, and is started again.
Crash ==
  /\ crashes < MaxCrashes
  /\ crashes' = crashes + 1
  /\ requests' = {}
  /\ Idle
  /\ UNCHANGED <<task, readings, undone, fargate, agent, faults, storeFaults>>

-----------------------------------------------------------------------------
Init ==
  /\ task = [t \in Task |-> NewRow]
  /\ readings = [u \in Url |-> NoReading]
  /\ agent = [t \in Task |-> NoAgent]
  /\ pc = "idle" /\ cur = 0 /\ seen = NoReport /\ result = "none"
  /\ requests = {} /\ undone = {}
  /\ fargate \in BOOLEAN
  /\ crashes = 0 /\ faults = 0 /\ storeFaults = 0

Next ==
  \/ \E t \in Task, u \in Url, force \in BOOLEAN : Submit(t, u, force)
  \/ \E t \in Task :
       \/ \E op \in {"cancel", "delete", "retry"} : BeginRequest(t, op)
       \/ Cancel(t) \/ Delete(t) \/ Retry(t)
       \/ Lookup(t) \/ AgentLooksUp(t) \/ AgentExits(t) \/ LoseContainer(t)
       \/ Requeue(t) \/ Kill(t) \/ CleanUp(t) \/ Inspect(t)
  \/ Launch \/ Store \/ Finish \/ Crash

Spec == Init /\ [][Next]_vars

-----------------------------------------------------------------------------
TypeOK ==
  /\ task \in [Task -> Row]
  /\ readings \in [Url -> [task : Task, body : {"summary", "stub", "empty"}] \cup {NoReading}]
  /\ agent \in [Task -> Agent]
  /\ pc \in {"idle", "launch", "store", "finish"}
  /\ cur \in Task \cup {0} /\ (pc # "idle" => cur \in Task)
  /\ seen \in Report \cup {NoReport}
  /\ result \in {"none", "completed", "failed"}
  /\ (pc \in {"store", "finish"} => result # "none")
  /\ requests \subseteq Request /\ undone \subseteq Task /\ fargate \in BOOLEAN
  /\ crashes \in 0..MaxCrashes /\ faults \in Nat /\ storeFaults \in Nat
  /\ faults + storeFaults <= MaxFaults

\* No task that is not forced starts a reader for a url that has a reading,
\* although the check and the launch are separate calls and a reading may be
\* stored for another task at any time.
LaunchedOnlyIfNew ==
  [][\A t \in Task :
       task[t].status # "running" /\ task'[t].status = "running"
         => task[t].force \/ ~ Captured(task[t].url)]_vars

\* A task has led to a reading, unless it was a duplicate, or a reading has gone
\* with the task that wrote it last.
Told(t) ==
  \/ agent[t].report.duplicate /\ ~ task[t].force
  \/ \E u \in {task[t].url, agent[t].report.url} \cap Url : Captured(u)
  \/ \E s \in Task \ {t} : task[s].status = "deleted"

\* The status of a read task tells whether its reading is there.  A completed
\* one has it in the table, whatever crashed or failed on the way: the row comes
\* before the status.  Only a duplicate has none, and a reading goes with the
\* task that wrote it last.  A failed one has left none behind, unless a crash
\* came between, the answer of a completing statement was lost, or a cancel
\* undid its completion and it was retried: it then finds the reading it left.
StatusTellsReading ==
  \A t \in Task :
    /\ task[t].status = "completed" => Told(t)
    /\ task[t].status = "failed" /\ crashes + storeFaults = 0 /\ t \notin undone =>
         \A u \in Url : readings[u].task # t

\* What a reader wrote about a page is replaced by the stub of a duplicate
\* only for a forced task, by nothing only when a report was not seen, and
\* goes only with its task.
SummaryKept ==
  [][\A u \in Url : readings[u].body = "summary" =>
       \/ readings'[u].body = "summary"
       \/ readings'[u].body = "stub" /\ task[readings'[u].task].force
       \/ readings'[u].body = "empty" /\ (faults > 0 \/ fargate)
       \/ readings'[u] = NoReading /\ task'[readings[u].task].status = "deleted"]_vars

-----------------------------------------------------------------------------
(* Why these hold: the inductive invariant of the proofs.                   *)

TaskSound(t) ==
  /\ IF task[t].status = "new"
       THEN agent[t] = NoAgent /\ \A r \in requests : r.id # t
       ELSE task[t].url \in Url
  /\ task[t].status = "completed" => ~ Working(t) /\ Told(t)
  /\ task[t].ready => task[t].status \in {"failed", "cancelled", "deleted"} \/ storeFaults > 0
  /\ agent[t].report.body = "stub" => agent[t].report.duplicate
  /\ agent[t].st = "exited" /\ agent[t].exit # "nonzero" /\ agent[t].report = NoReport
       => fargate

TasksSound == \A t \in Task : TaskSound(t)

\* Until it is launched, a url has no reading but for a task that is forced.
LaunchSound ==
  pc = "launch" =>
    \/ task[cur].status = "deleted"
    \/ /\ task[cur].status \in {"pending", "cancelled"}
       /\ task[cur].ready => storeFaults > 0
       /\ task[cur].force \/ ~ Captured(task[cur].url)

\* From the inspection on, the task keeps its report, is at most cancelled or
\* deleted, and what is about to be stored, or has been, is the report's.  Only
\* one that is still flagged from a completion that failed can be retried.
CompletionSound ==
  pc \in {"store", "finish"} =>
    /\ task[cur].status \in {"running", "cancelled", "pending", "deleted"}
    /\ task[cur].status = "pending" \/ task[cur].ready =>
         task[cur].status = "deleted" \/ storeFaults > 0
    /\ agent[cur].st \in {"exited", "lost"}
    /\ seen \in {agent[cur].report, NoReport}
    /\ pc = "store" => /\ result = "completed"
                       /\ seen.duplicate => task[cur].force
                       /\ seen = NoReport => faults > 0 \/ fargate
    /\ pc = "finish" /\ result = "completed" /\ task[cur].status # "deleted" => Told(cur)

\* A reading belongs to a task that is completed, was so before it was
\* cancelled, or is about to be.
ReadingsSound ==
  crashes + storeFaults = 0 =>
    \A u \in Url : Captured(u) =>
      \/ readings[u].task \in undone
      \/ task[readings[u].task].status = "completed"
      \/ /\ pc = "finish" /\ cur = readings[u].task /\ result = "completed"
         /\ task[cur].status \in {"running", "cancelled"}

ReadInv == TypeOK /\ TasksSound /\ LaunchSound /\ CompletionSound /\ ReadingsSound

=============================================================================
