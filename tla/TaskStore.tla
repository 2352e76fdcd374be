----------------------------- MODULE TaskStore -----------------------------
(***************************************************************************)
(* The two Postgres tables the orchestrator and the API share, and one      *)
(* operator per SQL statement of internal/store/postgres.go.  A table is a  *)
(* function from keys to rows, and a statement is an operator from a table  *)
(* to the table it leaves behind; the modules that extend this one decide   *)
(* when a statement runs and which process runs it.                         *)
(*                                                                         *)
(* A row keeps the columns control depends on.  Texts (error, prompt, URLs, *)
(* costs, timestamps other than "is started_at NULL") are left out.  Every  *)
(* UPDATE of postgres.go selects its row by primary key only: on a missing  *)
(* row it changes nothing and reports no error.                             *)
(*                                                                         *)
(* An operator whose name ends in a fault (OldestFirst_OneMore) is what the  *)
(* operator after it must not be: no specification uses it, and the runs     *)
(* show that a property fails when it takes the other's place.              *)
(***************************************************************************)
EXTENDS Naturals, FiniteSets

CONSTANTS
  NumTasks,        \* tasks 1..NumTasks, numbered in created_at order
  NumInstances,    \* instances 1..NumInstances, numbered in created_at order
  MaxUserRetries   \* BACKFLOW_MAX_USER_RETRIES

ASSUME StoreAssumption ==
  /\ NumTasks \in Nat
  /\ NumInstances \in Nat
  /\ MaxUserRetries \in Nat

Task     == 1..NumTasks
Instance == 1..NumInstances

NoInstance  == 0     \* the empty instance_id
NoContainer == 0     \* the empty container_id

\* models.TaskStatus, and two values for an id that has no row: "new" before
\* CreateTask inserts it and "deleted" after DeleteTask removes it.  Ids are
\* ULIDs, so a deleted id never comes back.
TaskStatus == {"pending", "provisioning", "running", "interrupted",
               "completed", "failed", "cancelled", "recovering"}
Absent     == {"new", "deleted"}

Row == [status  : TaskStatus \cup Absent,
        inst    : Instance \cup {NoInstance},
        cont    : Nat,
        started : BOOLEAN,
        ready   : BOOLEAN,
        uretry  : Nat]

EmptyRow == [status |-> "new", inst |-> NoInstance, cont |-> NoContainer,
             started |-> FALSE, ready |-> FALSE, uretry |-> 0]

InstanceStatus == {"none", "pending", "running", "draining", "terminated"}

InstanceRow == [status : InstanceStatus, count : Nat]

\* A task without a row has no retry flag and has used no retry.
TaskTable == {db \in [Task -> Row] :
                \A t \in Task : db[t].status \in Absent =>
                                 ~ db[t].ready /\ db[t].uretry = 0}

InstanceTable == [Instance -> InstanceRow]

-----------------------------------------------------------------------------
(* Statements on the tasks table.                                           *)

InTable(db, t) == db[t].status \notin Absent

\* UPDATE tasks SET ... WHERE id = t
UpdateRow(db, t, row) == IF InTable(db, t) THEN [db EXCEPT ![t] = row] ELSE db

\* The tasks ListTasks returns for a status filter.
WithStatus(db, s) == {t \in Task : db[t].status = s}

OldestFirst_OneMore(S, k)  == {t \in S : Cardinality({u \in S : u < t}) <= k}
OldestFirst_Youngest(S, k) == {t \in S : Cardinality({u \in S : u > t}) < k}

\* ORDER BY created_at ASC LIMIT k on a set of tasks.
OldestFirst(S, k) == {t \in S : Cardinality({u \in S : u < t}) < k}

CreateTask(db, t) == [db EXCEPT ![t] = [EmptyRow EXCEPT !.status = "pending"]]

DeleteTask(db, t) ==
  UpdateRow(db, t, [EmptyRow EXCEPT !.status = "deleted"])

UpdateTaskStatus(db, t, s) == UpdateRow(db, t, [db[t] EXCEPT !.status = s])

AssignTask(db, t, i) ==
  UpdateRow(db, t, [db[t] EXCEPT !.status = "provisioning", !.inst = i])

StartTask(db, t, c) ==
  UpdateRow(db, t, [db[t] EXCEPT !.status = "running", !.cont = c,
                                 !.started = TRUE])

CompleteTask(db, t, result) == UpdateTaskStatus(db, t, result)

RequeueTask_Interrupted(db, t) ==
  UpdateRow(db, t, [db[t] EXCEPT !.status = "interrupted", !.inst = NoInstance,
                                 !.cont = NoContainer, !.started = FALSE,
                                 !.ready = FALSE])

RequeueTask(db, t) ==
  UpdateRow(db, t, [db[t] EXCEPT !.status = "pending", !.inst = NoInstance,
                                 !.cont = NoContainer, !.started = FALSE,
                                 !.ready = FALSE])

CancelTask(db, t) == UpdateTaskStatus(db, t, "cancelled")

ClearTaskAssignment_InstanceOnly(db, t) ==
  UpdateRow(db, t, [db[t] EXCEPT !.inst = NoInstance])

ClearTaskAssignment(db, t) ==
  UpdateRow(db, t, [db[t] EXCEPT !.inst = NoInstance, !.cont = NoContainer])

MarkReadyForRetry(db, t) == UpdateRow(db, t, [db[t] EXCEPT !.ready = TRUE])

RetryAllowed_CapOnly(row) == row.uretry < MaxUserRetries

\* The WHERE clause of RetryTask tests the flag and the cap, and no status.
RetryAllowed(row) == row.ready /\ row.uretry < MaxUserRetries

RetryTask(db, t) ==
  IF RetryAllowed(db[t])
    THEN UpdateRow(db, t,
           [db[t] EXCEPT !.status = "pending", !.inst = NoInstance,
                         !.cont = NoContainer, !.started = FALSE,
                         !.ready = FALSE, !.uretry = @ + 1])
    ELSE db

-----------------------------------------------------------------------------
(* Statements on the instances table.                                       *)

InstancesWith(tbl, s) == {i \in Instance : tbl[i].status = s}

\* Setting "terminated" also clears running_containers.
UpdateInstanceStatus(tbl, i, s) ==
  [tbl EXCEPT ![i] = [status |-> s,
                      count  |-> IF s = "terminated" THEN 0 ELSE @.count]]

IncrementRunningContainers_SetsOne(tbl, i) == [tbl EXCEPT ![i].count = 1]
IncrementRunningContainers_Lost(tbl, i)    == tbl

IncrementRunningContainers(tbl, i) == [tbl EXCEPT ![i].count = @ + 1]

\* GREATEST(running_containers - 1, 0); nothing when instance_id is empty.
DecrementRunningContainers(tbl, i) ==
  IF i = NoInstance
    THEN tbl
    ELSE [tbl EXCEPT ![i].count = IF @ = 0 THEN 0 ELSE @ - 1]

=============================================================================
