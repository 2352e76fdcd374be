----------------------------- MODULE ReadProofs -----------------------------
(***************************************************************************)
(* The status of a read task tells whether its reading is there, no reader   *)
(* starts for a known url, and a summary gives way only for a cause: for any *)
(* number of tasks and urls, crashes, failing calls and retries.            *)
(***************************************************************************)
EXTENDS ReadPipeline, TLAPS

USE DEF NoReport, NoReading

-----------------------------------------------------------------------------
(* Rows and reports.                                                        *)

LEMMA TaskIsNat == Task \subseteq Nat \ {0} /\ 0 \notin Task
BY ReadAssumption DEF Task

LEMMA RowTyped ==
  ASSUME TypeOK, NEW t \in Task
  PROVE  task[t] \in Row /\ agent[t] \in Agent
BY DEF TypeOK

\* What every step leaves of the rows that there are.
RowsStay ==
  \A t \in Task :
    task[t].status # "new" =>
      /\ task'[t].url = task[t].url /\ task'[t].force = task[t].force
      /\ task'[t].status # "new"
      /\ task[t].status = "deleted" => task'[t].status = "deleted"

\* A step that writes one row, and neither its url nor that it is forced.
LEMMA Written ==
  ASSUME TypeOK, NEW t \in Task, NEW row \in Row, task' = [task EXCEPT ![t] = row],
         row.url = task[t].url, row.force = task[t].force,
         task[t].status # "new", row.status # "new",
         task[t].status = "deleted" => row.status = "deleted"
  PROVE  /\ task' \in [Task -> Row] /\ RowsStay /\ task'[t] = row
         /\ \A u \in Task \ {t} : task'[u] = task[u]
<1>1. /\ task' \in [Task -> Row] /\ task'[t] = row
      /\ \A u \in Task \ {t} : task'[u] = task[u]
  BY DEF TypeOK
<1> QED
  BY <1>1 DEF RowsStay

LEMMA Updated ==
  ASSUME TypeOK, NEW t \in Task,
         NEW s \in {"pending", "running", "completed", "failed", "cancelled", "deleted"},
         NEW ready \in BOOLEAN, Update(t, s, ready), task[t].status # "new"
  PROVE  /\ task' \in [Task -> Row]
         /\ RowsStay
         /\ \A u \in Task \ {t} : task'[u] = task[u]
         /\ task'[t].status = IF task[t].status = "deleted" THEN "deleted" ELSE s
         /\ ~ ready => task'[t].ready = task[t].ready
<1>1. task[t] \in Row
  BY RowTyped
<1>2. CASE task[t].status = "deleted"
  BY <1>1, <1>2 DEF Update, RowsStay, TypeOK
<1>3. CASE task[t].status # "deleted"
  <2> DEFINE flag == task[t].ready \/ ready
             row  == [[task[t] EXCEPT !.status = s] EXCEPT !.ready = flag]
  <2>1. flag \in BOOLEAN /\ (~ ready => flag = task[t].ready)
    BY <1>1 DEF Row
  <2> HIDE DEF flag
  <2>2. /\ row \in Row /\ row.status = s /\ row.ready = flag
        /\ row.url = task[t].url /\ row.force = task[t].force
    BY <1>1, <2>1 DEF Row
  <2>3. task' = [task EXCEPT ![t] = row]
    BY <1>3 DEF Update, TypeOK, flag
  <2> HIDE DEF row
  <2>4. /\ task' \in [Task -> Row] /\ RowsStay /\ task'[t] = row
        /\ \A u \in Task \ {t} : task'[u] = task[u]
    BY <1>3, <2>2, <2>3, Written
  <2> QED
    BY <1>3, <2>1, <2>2, <2>4
<1> QED
  BY <1>2, <1>3

\* StartTask writes one row.
LEMMA Started ==
  ASSUME TypeOK, NEW t \in Task, Start(t), task[t].status # "new"
  PROVE  /\ task' \in [Task -> Row] /\ RowsStay
         /\ \A u \in Task \ {t} : task'[u] = task[u]
         /\ task'[t].status = IF task[t].status = "deleted" THEN "deleted" ELSE "running"
         /\ task'[t].ready = task[t].ready
<1>1. CASE task[t].status = "deleted"
  BY <1>1 DEF Start, RowsStay, TypeOK
<1>2. CASE task[t].status # "deleted"
  <2> DEFINE row == [task[t] EXCEPT !.status = "running", !.container = TRUE]
  <2>1. /\ row \in Row /\ row.status = "running" /\ row.ready = task[t].ready
        /\ row.url = task[t].url /\ row.force = task[t].force
    BY RowTyped DEF Row
  <2>2. task' = [task EXCEPT ![t] = row]
    BY <1>2 DEF Start, TypeOK
  <2> HIDE DEF row
  <2> QED
    BY <1>2, <2>1, <2>2, Written
<1> QED
  BY <1>1, <1>2

\* What a task has led to stays while readings do.
LEMMA ToldStays ==
  ASSUME RowsStay, NEW t \in Task, task[t].status # "new", Told(t), agent'[t].report = agent[t].report,
         \A u \in Url : Captured(u) => Captured(u)'
  PROVE  Told(t)'
BY DEF Told, RowsStay

\* A task keeps what is known of it while its status and its report stay.
LEMMA TaskStays ==
  ASSUME RowsStay, NEW t \in Task, TaskSound(t), task'[t].status = task[t].status,
         task'[t].ready = task[t].ready, storeFaults > 0 => storeFaults' > 0,
         agent'[t] = agent[t], fargate' = fargate, \A q \in requests' : q \in requests \/ q.id # t,
         \A u \in Url : Captured(u) => Captured(u)'
  PROVE  TaskSound(t)'
<1>1. task[t].status # "new" /\ Told(t) => Told(t)'
  BY ToldStays
<1> QED
  BY <1>1 DEF TaskSound, RowsStay, Working

\* The bounds are kept by a call that fails and by one that does not.
BudgetStep == UNCHANGED budget \/ Fault \/ StoreFault

LEMMA Budgeted ==
  ASSUME TypeOK, BudgetStep
  PROVE  /\ crashes' \in 0..MaxCrashes /\ faults' \in Nat /\ storeFaults' \in Nat
         /\ faults' + storeFaults' <= MaxFaults
         /\ faults > 0 => faults' > 0
         /\ storeFaults > 0 => storeFaults' > 0
         /\ crashes' = crashes
         /\ crashes' + storeFaults' = 0 => crashes + storeFaults = 0 /\ ~ (storeFaults' > 0)
<1>1. crashes \in Nat /\ faults \in Nat /\ storeFaults \in Nat /\ MaxFaults \in Nat
  BY ReadAssumption DEF TypeOK
<1> QED
  BY <1>1 DEF TypeOK, BudgetStep, Fault, StoreFault, budget

\* What the orchestrator has seen of a container that has ended.
ReportStays(t) ==
  /\ agent'[t].report = agent[t].report
  /\ agent[t].st \in {"exited", "lost"} => agent'[t].st \in {"exited", "lost"}

\* What a request may do to the row that the orchestrator is at work on.
Meddled(t) ==
  \/ task'[t].status \in {task[t].status, "cancelled"} /\ task'[t].ready = task[t].ready
  \/ /\ task[t].status # "deleted" /\ task[t].ready
     /\ task'[t].status = "pending" /\ ~ task'[t].ready

\* What is known of a task that the orchestrator is at work on does not depend
\* on the rest.
LEMMA WorkStays ==
  ASSUME ReadInv, BudgetStep, RowsStay, UNCHANGED <<readings, fargate, orch>>,
         pc # "idle" => Meddled(cur),
         pc \in {"store", "finish"} => ReportStays(cur)
  PROVE  LaunchSound' /\ CompletionSound'
<1>1. pc # "idle" => cur \in Task
  BY DEF ReadInv, TypeOK
<1>2. pc = "launch" \/ pc \in {"store", "finish"} => pc # "idle"
  OBVIOUS
<1>3. (faults > 0 => faults' > 0) /\ (storeFaults > 0 => storeFaults' > 0)
  BY Budgeted DEF ReadInv
<1>4. LaunchSound'
  BY <1>1, <1>2, <1>3 DEF ReadInv, LaunchSound, RowsStay, Captured, orch, Meddled
<1>5. pc \in {"store", "finish"} /\ Told(cur) => Told(cur)'
  BY <1>1, <1>2, ToldStays DEF ReadInv, CompletionSound, Captured, ReportStays, orch
<1>6. ASSUME pc \in {"store", "finish"}
      PROVE  /\ task'[cur].status \in {"running", "cancelled", "pending", "deleted"}
             /\ task'[cur].status = "pending" \/ task'[cur].ready =>
                  task'[cur].status = "deleted" \/ storeFaults' > 0
             /\ task'[cur].status # "deleted" => task[cur].status # "deleted"
             /\ task'[cur].force = task[cur].force
  BY <1>1, <1>2, <1>3, <1>6 DEF ReadInv, CompletionSound, RowsStay, Meddled
<1>7. CompletionSound'
  BY <1>1, <1>2, <1>3, <1>5, <1>6 DEF ReadInv, CompletionSound, ReportStays, orch
<1> QED
  BY <1>4, <1>7

\* A task that is completed stays so, or is known to have been.
CompletedStay ==
  /\ undone \subseteq undone'
  /\ \A t \in Task : task[t].status = "completed" =>
       task'[t].status = "completed" \/ t \in undone' \/ storeFaults' > 0

\* Readings stay those of completed tasks while these are known.
LEMMA ReadingsStay ==
  ASSUME ReadInv, BudgetStep, UNCHANGED readings, CompletedStay,
         \/ UNCHANGED orch /\ (pc = "finish" => Meddled(cur))
         \/ pc # "finish"
  PROVE  ReadingsSound'
<1>1. crashes' + storeFaults' = 0 => crashes + storeFaults = 0 /\ ~ (storeFaults' > 0)
  BY Budgeted DEF ReadInv
<1>2. crashes + storeFaults = 0 => ~ (storeFaults > 0)
  BY DEF ReadInv, TypeOK
<1> SUFFICES ASSUME crashes' + storeFaults' = 0, NEW u \in Url, Captured(u)'
             PROVE  \/ readings[u].task \in undone'
                    \/ task'[readings[u].task].status = "completed"
                    \/ /\ pc' = "finish" /\ cur' = readings[u].task /\ result' = "completed"
                       /\ task'[cur'].status \in {"running", "cancelled"}
  BY DEF ReadingsSound, Captured
<1>3. Captured(u) /\ readings[u].task \in Task
  BY DEF ReadInv, TypeOK, Captured
<1>4. CASE readings[u].task \in undone \/ task[readings[u].task].status = "completed"
  BY <1>1, <1>3, <1>4 DEF CompletedStay
<1>5. CASE /\ pc = "finish" /\ cur = readings[u].task /\ result = "completed"
           /\ task[cur].status \in {"running", "cancelled"}
  <2>1. Meddled(cur) /\ UNCHANGED orch
    BY <1>5
  <2>2. ~ task[cur].ready
    BY <1>1, <1>2, <1>5 DEF ReadInv, CompletionSound
  <2> QED
    BY <1>5, <2>1, <2>2 DEF Meddled, orch
<1> QED
  BY <1>1, <1>3, <1>4, <1>5 DEF ReadInv, ReadingsSound

-----------------------------------------------------------------------------
(* Requests.                                                                *)

LEMMA SubmitKeeps ==
  ASSUME ReadInv, NEW t \in Task, NEW u \in Url, NEW force \in BOOLEAN, Submit(t, u, force)
  PROVE  ReadInv'
<1> DEFINE row == [NewRow EXCEPT !.status = "pending", !.url = u, !.force = force]
<1>0. 0 \in 0..MaxUserRetries
  BY ReadAssumption
<1>a. row \in Row /\ row.status = "pending" /\ row.url = u /\ ~ row.ready
  BY <1>0 DEF NewRow, Row
<1>b. task' = [task EXCEPT ![t] = row] /\ task[t].status = "new"
  BY DEF Submit
<1> HIDE DEF row
<1>1. /\ row \in Row /\ row.status = "pending" /\ row.url = u /\ ~ row.ready
      /\ task' = [task EXCEPT ![t] = row] /\ task[t].status = "new"
  BY <1>a, <1>b
<1>2. UNCHANGED <<readings, requests, undone, fargate, agent, orch, budget>> /\ BudgetStep
  BY DEF Submit, BudgetStep
<1>3. /\ task' \in [Task -> Row] /\ task'[t] = row
      /\ \A s \in Task \ {t} : task'[s] = task[s]
  BY <1>1 DEF ReadInv, TypeOK
<1>4. TypeOK'
  BY <1>2, <1>3 DEF ReadInv, TypeOK, orch, budget
<1>5. RowsStay
  BY <1>1, <1>3 DEF RowsStay
<1>6. TaskSound(t)'
  BY <1>1, <1>2, <1>3 DEF ReadInv, TasksSound, TaskSound, NoAgent, NewAgent
<1>7. TasksSound'
  <2>1. ASSUME NEW s \in Task, s # t
        PROVE  TaskSound(s)'
    <3>1. /\ TaskSound(s) /\ task'[s] = task[s] /\ agent'[s] = agent[s]
          /\ UNCHANGED <<requests, fargate, storeFaults, readings>>
      BY <1>2, <1>3, <2>1 DEF ReadInv, TasksSound, budget
    <3> QED
      BY <1>5, <3>1, TaskStays DEF Captured
  <2> QED
    BY <1>6, <2>1 DEF TasksSound
<1>8. pc # "idle" => task[cur].status # "new" /\ cur \in Task
  BY DEF ReadInv, TypeOK, LaunchSound, CompletionSound
<1>c. pc # "idle" => Meddled(cur)
  BY <1>1, <1>3, <1>8 DEF Meddled
<1>9. LaunchSound' /\ CompletionSound'
  BY <1>2, <1>5, <1>c, WorkStays DEF ReportStays
<1>10. ReadingsSound'
  <2>1. CompletedStay
    BY <1>1, <1>2, <1>3 DEF CompletedStay
  <2>2. pc = "finish" => pc # "idle"
    OBVIOUS
  <2> QED
    BY <1>2, <1>c, <2>1, <2>2, ReadingsStay
<1> QED
  BY <1>4, <1>7, <1>9, <1>10 DEF ReadInv

\* A step beside the orchestrator's work, on one task: one that it is not at
\* work on, or one that is only cancelled or retried meanwhile.
LEMMA BesideKeeps ==
  ASSUME ReadInv, TypeOK', BudgetStep, RowsStay, NEW t \in Task, TaskSound(t)',
         UNCHANGED <<readings, fargate, orch>>,
         \A s \in Task \ {t} : task'[s] = task[s] /\ agent'[s] = agent[s],
         pc = "idle" \/ cur # t \/ Meddled(t),
         task[t].status = "completed" =>
           task'[t].status = "completed" \/ t \in undone' \/ storeFaults' > 0,
         undone \subseteq undone',
         pc \in {"idle", "launch"} \/ cur # t \/ ReportStays(t),
         \A q \in requests' : q \in requests \/ q.id = t
  PROVE  ReadInv'
<1>a. \A u \in Url : Captured(u) => Captured(u)'
  BY DEF Captured
<1>d. fargate' = fargate /\ TasksSound /\ (storeFaults > 0 => storeFaults' > 0)
  BY Budgeted DEF ReadInv
<1>b. ASSUME NEW s \in Task, s # t
      PROVE  TaskSound(s)'
  <2>1. /\ TaskSound(s) /\ task'[s].status = task[s].status /\ agent'[s] = agent[s]
        /\ task'[s].ready = task[s].ready /\ \A q \in requests' : q \in requests \/ q.id # s
    BY <1>b, <1>d DEF TasksSound
  <2> QED
    BY <1>a, <1>d, <2>1, TaskStays
<1>1. TasksSound'
  BY <1>b DEF TasksSound
<1>2. pc # "idle" => cur \in Task
  BY DEF ReadInv, TypeOK
<1>c. /\ pc # "idle" => Meddled(cur)
      /\ pc \in {"store", "finish"} => ReportStays(cur)
  BY <1>2 DEF ReportStays, Meddled
<1>3. LaunchSound' /\ CompletionSound'
  BY <1>c, WorkStays
<1>4. pc = "finish" => pc # "idle"
  OBVIOUS
<1>5. CompletedStay
  BY DEF CompletedStay
<1>6. ReadingsSound'
  BY <1>c, <1>4, <1>5, ReadingsStay
<1> QED
  BY <1>1, <1>3, <1>6 DEF ReadInv

\* A request in flight is about a task that exists.
LEMMA Requested ==
  ASSUME ReadInv, NEW t \in Task, NEW op \in {"cancel", "delete", "retry"}, Finishes(t, op)
  PROVE  /\ task[t].status # "new" /\ task[t] \in Row /\ BudgetStep
         /\ UNCHANGED <<fargate, agent, orch, budget>>
         /\ requests' \subseteq requests /\ requests' \subseteq Request
<1>1. [op |-> op, id |-> t] \in requests /\ requests' = requests \ {[op |-> op, id |-> t]}
      /\ UNCHANGED <<fargate, agent, orch, budget>>
  BY DEF Finishes
<1>2. TaskSound(t)
  BY DEF ReadInv, TasksSound
<1>3. task[t].status # "new"
  BY <1>1, <1>2 DEF TaskSound
<1> QED
  BY <1>1, <1>3, RowTyped DEF BudgetStep, ReadInv, TypeOK

LEMMA BeginRequestKeeps ==
  ASSUME ReadInv, NEW t \in Task, NEW op \in {"cancel", "delete", "retry"}, BeginRequest(t, op)
  PROVE  ReadInv'
<1> DEFINE q == [op |-> op, id |-> t]
<1>0. q \in Request /\ q.id = t
  BY DEF Request
<1>1. /\ UNCHANGED <<task, readings, undone, fargate, agent, orch, budget>> /\ BudgetStep
      /\ requests' = requests \cup {q} /\ task[t].status # "new"
  BY DEF BeginRequest, BudgetStep, Accepts
<1> HIDE DEF q
<1>2. TypeOK'
  BY <1>0, <1>1 DEF ReadInv, TypeOK, orch, budget
<1>3. RowsStay
  BY <1>1 DEF RowsStay
<1>4. TaskSound(t)'
  BY <1>1 DEF ReadInv, TasksSound, TaskSound, Working, Told, Captured, budget
<1> QED
  BY <1>0, <1>1, <1>2, <1>3, <1>4, BesideKeeps DEF ReportStays, Meddled

LEMMA CancelKeeps ==
  ASSUME ReadInv, NEW t \in Task, Cancel(t)
  PROVE  ReadInv'
<1>1. /\ task[t].status # "new" /\ task[t] \in Row /\ BudgetStep
      /\ UNCHANGED <<readings, fargate, agent, orch, budget>>
      /\ requests' \subseteq requests /\ requests' \subseteq Request
      /\ Update(t, "cancelled", FALSE)
      /\ undone' = IF task[t].status = "completed" THEN undone \cup {t} ELSE undone
  BY Requested DEF Cancel, SetStatus
<1>2. /\ task' \in [Task -> Row] /\ RowsStay
      /\ \A u \in Task \ {t} : task'[u] = task[u]
      /\ task'[t].status = IF task[t].status = "deleted" THEN "deleted" ELSE "cancelled"
      /\ task'[t].ready = task[t].ready
  BY <1>1, Updated DEF ReadInv
<1>3. TypeOK'
  BY <1>1, <1>2 DEF ReadInv, TypeOK, orch, budget
<1>4. TaskSound(t)'
  BY <1>1, <1>2 DEF ReadInv, TasksSound, TaskSound, RowsStay, budget
<1>5. Meddled(t)
  BY <1>2 DEF Meddled
<1> QED
  BY <1>1, <1>2, <1>3, <1>4, <1>5, BesideKeeps DEF ReportStays

\* What a requeue leaves of a row.
LEMMA RequeuedRow ==
  ASSUME NEW row \in Row
  PROVE  /\ Requeued(row) \in Row /\ Requeued(row).status = "pending" /\ ~ Requeued(row).ready
         /\ Requeued(row).url = row.url /\ Requeued(row).force = row.force
         /\ Requeued(row).uretry = row.uretry
BY DEF Requeued, Row

LEMMA RetryKeeps ==
  ASSUME ReadInv, NEW t \in Task, Retry(t)
  PROVE  ReadInv'
<1>1. /\ task[t].status # "new" /\ task[t] \in Row /\ BudgetStep
      /\ UNCHANGED <<readings, undone, fargate, agent, orch, budget>>
      /\ requests' \subseteq requests /\ requests' \subseteq Request
  BY Requested DEF Retry
<1>2. CASE task' = task
  <2>1. TypeOK'
    BY <1>1, <1>2 DEF ReadInv, TypeOK, orch, budget
  <2>2. RowsStay
    BY <1>2 DEF RowsStay
  <2>3. TaskSound(t)'
    BY <1>1, <1>2 DEF ReadInv, TasksSound, TaskSound, Working, Told, Captured, budget
  <2> QED
    BY <1>1, <1>2, <2>1, <2>2, <2>3, BesideKeeps DEF ReportStays, Meddled
<1>3. CASE task' # task
  <2> DEFINE n   == Requeued(task[t]).uretry + 1
             row == [Requeued(task[t]) EXCEPT !.uretry = n]
  <2>1. /\ task[t].ready /\ task[t].status # "deleted" /\ task[t].uretry < MaxUserRetries
        /\ task' = [task EXCEPT ![t] = row]
    BY <1>3 DEF Retry, ReadInv, TypeOK
  <2>2. n \in 0..MaxUserRetries
    <3>1. n = task[t].uretry + 1
      BY <1>1, RequeuedRow
    <3> QED
      BY <1>1, <2>1, <3>1, ReadAssumption DEF Row
  <2> HIDE DEF n
  <2>3. /\ row \in Row /\ row.status = "pending" /\ ~ row.ready
        /\ row.url = task[t].url /\ row.force = task[t].force
    BY <1>1, <2>2, RequeuedRow DEF Row
  <2> HIDE DEF row
  <2>4. /\ task' \in [Task -> Row] /\ RowsStay /\ task'[t] = row
        /\ \A s \in Task \ {t} : task'[s] = task[s]
    BY <1>1, <2>1, <2>3, Written DEF ReadInv
  <2>5. TypeOK'
    BY <1>1, <2>4 DEF ReadInv, TypeOK, orch, budget
  <2>6. TaskSound(t)'
    BY <1>1, <2>3, <2>4 DEF ReadInv, TasksSound, TaskSound
  <2>7. Meddled(t)
    BY <2>1, <2>3, <2>4 DEF Meddled
  <2>8. task[t].status = "completed" => storeFaults' > 0
    BY <1>1, <2>1 DEF ReadInv, TasksSound, TaskSound, budget
  <2> QED
    BY <1>1, <2>4, <2>5, <2>6, <2>7, <2>8, BesideKeeps DEF ReportStays
<1> QED
  BY <1>2, <1>3

\* Delete takes a row and its readings away.
LEMMA DeleteKeeps ==
  ASSUME ReadInv, NEW d \in Task, Delete(d)
  PROVE  ReadInv'
<1>1. /\ task[d].status # "new" /\ task[d] \in Row /\ BudgetStep
      /\ UNCHANGED <<undone, fargate, agent, orch, budget>>
      /\ requests' \subseteq requests /\ requests' \subseteq Request
  BY Requested DEF Delete
<1>2. /\ task' \in [Task -> Row] /\ task'[d].status = "deleted"
      /\ task'[d].url = task[d].url /\ task'[d].force = task[d].force
      /\ RowsStay /\ \A s \in Task \ {d} : task'[s] = task[s]
  <2> DEFINE row == [task[d] EXCEPT !.status = "deleted"]
  <2>1. row \in Row /\ row.status = "deleted" /\ row.url = task[d].url /\ row.force = task[d].force
    BY <1>1 DEF Row
  <2>2. task' = [task EXCEPT ![d] = row]
    BY DEF Delete
  <2> HIDE DEF row
  <2> QED
    BY <1>1, <2>1, <2>2, Written DEF ReadInv
<1>3. \A u \in Url : readings'[u] = IF readings[u].task = d THEN NoReading ELSE readings[u]
  BY DEF Delete
<1>4. readings' \in [Url -> [task : Task, body : {"summary", "stub", "empty"}] \cup {NoReading}]
  BY DEF Delete, ReadInv, TypeOK
<1>5. TypeOK'
  BY <1>1, <1>2, <1>4 DEF ReadInv, TypeOK, orch, budget
<1>7. TasksSound'
  <2>1. ASSUME NEW s \in Task, s # d
        PROVE  TaskSound(s)'
    <3>1. /\ TaskSound(s) /\ task'[s] = task[s] /\ agent'[s] = agent[s]
          /\ fargate' = fargate /\ storeFaults' = storeFaults
      BY <1>1, <1>2, <2>1 DEF ReadInv, TasksSound, budget
    <3>2. Told(s)'
      BY <1>1, <1>2, <2>1 DEF Told
    <3> QED
      BY <1>1, <3>1, <3>2 DEF TaskSound, Working
  <2>2. TaskSound(d)'
    <3>1. TaskSound(d)
      BY <1>1 DEF ReadInv, TasksSound
    <3> QED
      BY <1>1, <1>2, <3>1 DEF TaskSound, RowsStay
  <2> QED
    BY <2>1, <2>2 DEF TasksSound
<1>8. pc # "idle" => cur \in Task /\ task[cur].status # "new"
  BY DEF ReadInv, TypeOK, LaunchSound, CompletionSound
<1>9. \A u \in Url : Captured(u)' => Captured(u) /\ readings'[u] = readings[u] /\ readings[u].task # d
  BY <1>3 DEF Captured
<1>a. pc' = pc /\ cur' = cur /\ seen' = seen /\ result' = result
  BY <1>1 DEF orch
<1>10. LaunchSound'
  <2> SUFFICES ASSUME pc = "launch", task'[cur].status # "deleted"
               PROVE  /\ task'[cur].status \in {"pending", "cancelled"}
                      /\ task'[cur].ready => storeFaults' > 0
                      /\ task'[cur].force \/ readings'[task'[cur].url] = NoReading
    BY <1>a DEF LaunchSound, Captured
  <2>1. cur # d /\ task'[cur] = task[cur]
    BY <1>2, <1>8
  <2>2. /\ task[cur].status \in {"pending", "cancelled"}
        /\ task[cur].ready => storeFaults' > 0
        /\ task[cur].force \/ ~ Captured(task[cur].url)
    BY <1>1, <2>1 DEF ReadInv, LaunchSound, budget
  <2>3. task[cur].url \in Url
    BY <1>8, <2>2 DEF ReadInv, TasksSound, TaskSound
  <2> QED
    BY <1>9, <2>1, <2>2, <2>3 DEF Captured
<1>11. CompletionSound'
  <2> SUFFICES ASSUME pc \in {"store", "finish"}
               PROVE  CompletionSound'
    BY <1>a DEF CompletionSound
  <2>1. cur \in Task /\ task[cur].status \in {"running", "cancelled", "pending", "deleted"}
    BY <1>8 DEF ReadInv, CompletionSound
  <2>2. /\ task'[cur].force = task[cur].force
        /\ task'[cur] = task[cur] \/ task'[cur].status = "deleted"
    BY <1>2, <2>1
  <2>3. task'[cur].status # "deleted" => Told(cur)'
    BY <1>1, <1>2, <1>a, <2>1 DEF Told
  <2>4. agent' = agent /\ faults' = faults /\ storeFaults' = storeFaults /\ fargate' = fargate
    BY <1>1 DEF budget
  <2> QED
    BY <1>a, <2>1, <2>2, <2>3, <2>4 DEF ReadInv, CompletionSound
<1>12. ReadingsSound'
  <2>1. \A u \in Url : Captured(u) => readings[u].task \in Task
    BY DEF ReadInv, TypeOK, Captured
  <2>2. \A s \in Task \ {d} : task'[s].status = task[s].status
    BY <1>2
  <2>3. crashes' = crashes /\ storeFaults' = storeFaults
    BY <1>1 DEF budget
  <2>4. ASSUME crashes + storeFaults = 0, NEW u \in Url, Captured(u)'
        PROVE  \/ readings'[u].task \in undone'
               \/ task'[readings'[u].task].status = "completed"
               \/ /\ pc' = "finish" /\ cur' = readings'[u].task /\ result' = "completed"
                  /\ task'[cur'].status \in {"running", "cancelled"}
    <3>1. /\ Captured(u) /\ readings'[u] = readings[u] /\ readings[u].task \in Task \ {d}
          /\ task'[readings[u].task].status = task[readings[u].task].status
      BY <1>9, <2>1, <2>2, <2>4
    <3>2. \/ readings[u].task \in undone
          \/ task[readings[u].task].status = "completed"
          \/ /\ pc = "finish" /\ cur = readings[u].task /\ result = "completed"
             /\ task[cur].status \in {"running", "cancelled"}
      BY <2>4, <3>1 DEF ReadInv, ReadingsSound
    <3> QED
      BY <1>1, <1>a, <3>1, <3>2
  <2> QED
    BY <2>3, <2>4 DEF ReadingsSound
<1> QED
  BY <1>5, <1>7, <1>10, <1>11, <1>12 DEF ReadInv

-----------------------------------------------------------------------------
(* The reader.                                                              *)

\* A container changes that may, and that no completion is under way for.
LEMMA AgentKeeps ==
  ASSUME ReadInv, NEW t \in Task, NEW a \in Agent, agent' = [agent EXCEPT ![t] = a],
         UNCHANGED tables, UNCHANGED orch, BudgetStep,
         agent[t].st # "none",
         Working(t) \/ (a.report = agent[t].report /\ a.st = "lost"),
         a.report.body = "stub" => a.report.duplicate,
         a.st = "exited" /\ a.exit # "nonzero" /\ a.report = NoReport => fargate
  PROVE  ReadInv'
<1>1. UNCHANGED <<task, readings, requests, undone, fargate>>
  BY DEF tables
<1>s. storeFaults > 0 => storeFaults' > 0
  BY Budgeted DEF ReadInv
<1>2. agent' \in [Task -> Agent] /\ agent'[t] = a /\ \A s \in Task \ {t} : agent'[s] = agent[s]
  BY DEF ReadInv, TypeOK
<1>3. TypeOK'
  BY <1>1, <1>2, Budgeted DEF ReadInv, TypeOK, orch
<1>4. RowsStay
  BY <1>1 DEF RowsStay
<1>5. TaskSound(t)'
  <2>1. TaskSound(t)
    BY DEF ReadInv, TasksSound
  <2>2. task[t].status # "new"
    BY <2>1 DEF TaskSound, NoAgent, NewAgent
  <2>3. CASE Working(t)
    BY <1>1, <1>2, <1>s, <2>1, <2>2, <2>3 DEF TaskSound
  <2>4. CASE a.report = agent[t].report /\ a.st = "lost"
    <3>1. Told(t) => Told(t)'
      BY <1>1, <1>2, <2>4 DEF Told, Captured
    <3> QED
      BY <1>1, <1>2, <1>s, <2>1, <2>2, <2>4, <3>1 DEF TaskSound, Working
  <2> QED
    BY <2>3, <2>4
<1>6. pc \in {"idle", "launch"} \/ cur # t \/ ReportStays(t)
  BY <1>2 DEF ReadInv, TypeOK, CompletionSound, Working, ReportStays
<1> QED
  BY <1>1, <1>2, <1>3, <1>4, <1>5, <1>6, BesideKeeps DEF Meddled

LEMMA AgentTyped ==
  ASSUME ReadInv, NEW t \in Task
  PROVE  /\ agent[t] \in Agent /\ (agent[t].report.body = "stub" => agent[t].report.duplicate)
         /\ task[t].status # "new" => task[t].url \in Url
         /\ Working(t) => task[t].status # "new"
BY DEF ReadInv, TypeOK, TasksSound, TaskSound, Working, NoAgent, NewAgent

LEMMA AgentLooksUpKeeps ==
  ASSUME ReadInv, NEW t \in Task, AgentLooksUp(t)
  PROVE  ReadInv'
<1> DEFINE a == [agent[t] EXCEPT !.st = IF Captured(task[t].url) THEN "found" ELSE "clear"]
<1>1. /\ a \in Agent /\ a.report = agent[t].report /\ a.st # "exited"
  BY AgentTyped DEF Agent
<1>2. agent' = [agent EXCEPT ![t] = a]
  BY DEF AgentLooksUp
<1> HIDE DEF a
<1>3. Working(t) /\ agent[t].st # "none" /\ UNCHANGED <<tables, orch>> /\ BudgetStep
  BY DEF AgentLooksUp, Working, BudgetStep
<1> QED
  BY <1>1, <1>2, <1>3, AgentTyped, AgentKeeps

LEMMA AgentExitsKeeps ==
  ASSUME ReadInv, NEW t \in Task, AgentExits(t)
  PROVE  ReadInv'
<1>1. PICK exit \in {"zero", "nonzero", "unknown"}, report \in Report \cup {NoReport} :
        /\ agent' = [agent EXCEPT ![t] = [st |-> "exited", exit |-> exit, report |-> report]]
        /\ report.body = "stub" => report.duplicate
        /\ report = NoReport /\ exit # "nonzero" => fargate
  <2>1. CASE agent[t].st \in {"found", "clear"} /\ \E report \in Reports(t) :
               agent' = [agent EXCEPT ![t] = [st |-> "exited", exit |-> "zero", report |-> report]]
    <3>1. task[t].url \in Url
      BY <2>1, AgentTyped DEF Working
    <3>2. PICK report \in Reports(t) :
               agent' = [agent EXCEPT ![t] = [st |-> "exited", exit |-> "zero", report |-> report]]
      BY <2>1
    <3>3. report \in Report /\ (report.body = "stub" => report.duplicate)
      <4>1. \/ report = [url |-> task[t].url, duplicate |-> TRUE, body |-> "stub"]
            \/ report = [url |-> task[t].url, duplicate |-> TRUE, body |-> "summary"]
            \/ report \in [url : Url, duplicate : {FALSE}, body : {"summary"}]
        BY DEF Reports
      <4>2. PICK u \in Url, duplicate \in BOOLEAN, body \in {"summary", "stub"} :
              /\ report = [url |-> u, duplicate |-> duplicate, body |-> body]
              /\ body = "stub" => duplicate
        <5>1. report \in [url : Url, duplicate : {FALSE}, body : {"summary"}]
                => \E u \in Url : report = [url |-> u, duplicate |-> FALSE, body |-> "summary"]
          OBVIOUS
        <5> QED
          BY <3>1, <4>1, <5>1
      <4> QED
        BY <4>2 DEF Report
    <3>4. report # NoReport
      BY <3>3 DEF Report
    <3> QED
      BY <3>2, <3>3, <3>4
  <2>2. CASE Working(t) /\ \E exit \in {"nonzero"} \cup (IF fargate THEN {"unknown"} ELSE {}) :
               agent' = [agent EXCEPT ![t] = [st |-> "exited", exit |-> exit, report |-> NoReport]]
    <3>1. PICK exit \in {"nonzero"} \cup (IF fargate THEN {"unknown"} ELSE {}) :
               agent' = [agent EXCEPT ![t] = [st |-> "exited", exit |-> exit, report |-> NoReport]]
      BY <2>2
    <3>2. exit \in {"nonzero", "unknown"} /\ (exit # "nonzero" => fargate)
      BY DEF TypeOK, ReadInv
    <3>3. NoReport.body # "stub"
      OBVIOUS
    <3> HIDE DEF NoReport
    <3> QED
      BY <3>1, <3>2, <3>3
  <2> QED
    BY <2>1, <2>2 DEF AgentExits
<1> DEFINE a == [st |-> "exited", exit |-> exit, report |-> report]
<1>2. a \in Agent /\ a.exit = exit /\ a.report = report
  BY DEF Agent
<1>3. agent' = [agent EXCEPT ![t] = a]
  BY <1>1
<1> HIDE DEF a
<1>4. Working(t) /\ agent[t].st # "none" /\ UNCHANGED <<tables, orch>> /\ BudgetStep
  BY DEF AgentExits, Working, BudgetStep
<1> QED
  BY <1>1, <1>2, <1>3, <1>4, AgentKeeps

LEMMA LoseContainerKeeps ==
  ASSUME ReadInv, NEW t \in Task, LoseContainer(t)
  PROVE  ReadInv'
<1> DEFINE a == [agent[t] EXCEPT !.st = "lost"]
<1>1. a \in Agent /\ a.report = agent[t].report /\ a.st = "lost"
  BY AgentTyped DEF Agent
<1>2. agent' = [agent EXCEPT ![t] = a]
  BY DEF LoseContainer
<1> HIDE DEF a
<1>3. agent[t].st # "none" /\ UNCHANGED <<tables, orch>> /\ BudgetStep
  BY DEF LoseContainer, Working, BudgetStep
<1> QED
  BY <1>1, <1>2, <1>3, AgentTyped, AgentKeeps

-----------------------------------------------------------------------------
(* The orchestrator, between two tasks.                                     *)

\* A step of the idle orchestrator on a row and its container.
LEMMA IdleKeeps ==
  ASSUME ReadInv, pc = "idle", NEW t \in Task, task[t].status \notin {"new", "completed"},
         task' \in [Task -> Row], RowsStay, \A u \in Task \ {t} : task'[u] = task[u],
         task'[t].status # "completed",
         task'[t].ready => task'[t].status \in {"failed", "cancelled", "deleted"} \/ storeFaults > 0,
         NEW a \in Agent, agent' = [agent EXCEPT ![t] = a],
         a.report.body = "stub" => a.report.duplicate,
         a.st = "exited" /\ a.exit # "nonzero" /\ a.report = NoReport => fargate,
         UNCHANGED <<readings, requests, undone, fargate, orch>>, BudgetStep
  PROVE  ReadInv'
<1>1. agent' \in [Task -> Agent] /\ agent'[t] = a /\ \A u \in Task \ {t} : agent'[u] = agent[u]
  BY DEF ReadInv, TypeOK
<1>2. TypeOK'
  BY <1>1, Budgeted DEF ReadInv, TypeOK, orch
<1>3. TaskSound(t)'
  BY <1>1, Budgeted DEF ReadInv, TasksSound, TaskSound, RowsStay
<1> QED
  BY <1>1, <1>2, <1>3, BesideKeeps

LEMMA RequeueKeeps ==
  ASSUME ReadInv, NEW t \in Task, Requeue(t)
  PROVE  ReadInv'
<1> DEFINE a == IF fargate THEN agent[t] ELSE NoAgent
           row == Requeued(task[t])
<1>1. /\ a \in Agent /\ a.st # "exited" /\ (a.report.body = "stub" => a.report.duplicate)
  BY AgentTyped DEF Requeue, NoAgent, NewAgent, Agent
<1>2. agent' = [agent EXCEPT ![t] = a] /\ task' = [task EXCEPT ![t] = row]
  BY DEF Requeue, ReadInv, TypeOK
<1>3. /\ BudgetStep /\ task[t].status = "running" /\ pc = "idle"
      /\ UNCHANGED <<readings, requests, undone, fargate, orch>>
  BY DEF Requeue, BudgetStep
<1>4. /\ row \in Row /\ row.status = "pending" /\ ~ row.ready
      /\ row.url = task[t].url /\ row.force = task[t].force
  BY RowTyped, RequeuedRow DEF ReadInv
<1> HIDE DEF a, row
<1>5. /\ task' \in [Task -> Row] /\ RowsStay /\ task'[t] = row
      /\ \A u \in Task \ {t} : task'[u] = task[u]
  BY <1>2, <1>3, <1>4, Written DEF ReadInv
<1> QED
  BY <1>1, <1>2, <1>3, <1>4, <1>5, IdleKeeps

\* What a stop leaves of a container.
LEMMA Stopped ==
  ASSUME ReadInv, NEW t \in Task, Stop(t)
  PROVE  /\ BudgetStep
         /\ \E a \in Agent :
              /\ agent' = [agent EXCEPT ![t] = a]
              /\ a.report.body = "stub" => a.report.duplicate
              /\ a.st = "exited" /\ a.exit # "nonzero" /\ a.report = NoReport => fargate
<1>1. PICK a \in Agent :
        /\ agent' = [agent EXCEPT ![t] = a]
        /\ a \in {NoAgent, agent[t]} \/ (fargate /\ a = [NewAgent EXCEPT !.st = "exited"])
  <2>1. NoAgent \in Agent /\ [NewAgent EXCEPT !.st = "exited"] \in Agent /\ agent[t] \in Agent
    BY AgentTyped DEF NoAgent, NewAgent, Agent
  <2>2. CASE UNCHANGED agent
    BY <2>1, <2>2 DEF ReadInv, TypeOK
  <2>3. CASE agent' # agent
    BY <2>1, <2>3 DEF Stop
  <2> QED
    BY <2>2, <2>3
<1>2. /\ a.report.body = "stub" => a.report.duplicate
      /\ a.st = "exited" /\ a.exit # "nonzero" /\ a.report = NoReport => fargate
  <2>1. CASE a = agent[t]
    BY <2>1 DEF ReadInv, TasksSound, TaskSound
  <2>2. CASE a = NoAgent
    BY <2>2 DEF NoAgent, NewAgent
  <2>3. CASE fargate /\ a = [NewAgent EXCEPT !.st = "exited"]
    BY <2>3 DEF NewAgent
  <2> QED
    BY <1>1, <2>1, <2>2, <2>3
<1>3. BudgetStep
  BY DEF Stop, BudgetStep
<1> QED
  BY <1>1, <1>2, <1>3

LEMMA KillKeeps ==
  ASSUME ReadInv, NEW t \in Task, Kill(t)
  PROVE  ReadInv'
<1>1. PICK a \in Agent :
        /\ agent' = [agent EXCEPT ![t] = a] /\ BudgetStep
        /\ a.report.body = "stub" => a.report.duplicate
        /\ a.st = "exited" /\ a.exit # "nonzero" /\ a.report = NoReport => fargate
  BY Stopped DEF Kill
<1>2. Update(t, "failed", TRUE) /\ task[t].status = "running" /\ pc = "idle"
      /\ UNCHANGED <<readings, requests, undone, fargate, orch>>
  BY DEF Kill
<1>3. /\ task' \in [Task -> Row] /\ RowsStay /\ task'[t].status = "failed"
      /\ \A u \in Task \ {t} : task'[u] = task[u]
  BY <1>2, Updated DEF ReadInv
<1> QED
  BY <1>1, <1>2, <1>3, IdleKeeps

LEMMA CleanUpKeeps ==
  ASSUME ReadInv, NEW t \in Task, CleanUp(t)
  PROVE  ReadInv'
<1>1. PICK a \in Agent :
        /\ agent' = [agent EXCEPT ![t] = a] /\ BudgetStep
        /\ a.report.body = "stub" => a.report.duplicate
        /\ a.st = "exited" /\ a.exit # "nonzero" /\ a.report = NoReport => fargate
  <2>1. CASE Stop(t)
    BY <2>1, Stopped
  <2>2. CASE UNCHANGED <<agent, budget>>
    <3>1. agent' = [agent EXCEPT ![t] = agent[t]] /\ agent[t] \in Agent /\ BudgetStep
      BY <2>2 DEF ReadInv, TypeOK, BudgetStep
    <3>2. TaskSound(t)
      BY DEF ReadInv, TasksSound
    <3> QED
      BY <3>1, <3>2 DEF TaskSound
  <2> QED
    BY <2>1, <2>2 DEF CleanUp
<1> DEFINE row == [task[t] EXCEPT !.container = FALSE, !.ready = TRUE]
<1>2. /\ task' = [task EXCEPT ![t] = row] /\ task[t].status = "cancelled" /\ pc = "idle"
      /\ UNCHANGED <<readings, requests, undone, fargate, orch>>
  BY DEF CleanUp, ReadInv, TypeOK
<1>3. /\ row \in Row /\ row.status = task[t].status
      /\ row.url = task[t].url /\ row.force = task[t].force
  BY RowTyped DEF Row, ReadInv
<1> HIDE DEF row
<1>4. /\ task' \in [Task -> Row] /\ RowsStay /\ task'[t] = row
      /\ \A u \in Task \ {t} : task'[u] = task[u]
  BY <1>2, <1>3, Written DEF ReadInv
<1> QED
  BY <1>1, <1>2, <1>3, <1>4, IdleKeeps

\* A step that leaves the tables and the containers alone.
LEMMA TasksAlone ==
  ASSUME TasksSound, UNCHANGED <<task, readings, agent, fargate>>, requests' \subseteq requests,
         storeFaults > 0 => storeFaults' > 0
  PROVE  TasksSound'
<1>1. RowsStay
  BY DEF RowsStay
<1>2. \A u \in Url : Captured(u) => Captured(u)'
  BY DEF Captured
<1> QED
  BY <1>1, <1>2, TaskStays DEF TasksSound

\* While the orchestrator is not completing a task, readings are those of
\* completed ones.
LEMMA ReadingsOfCompleted ==
  ASSUME ReadInv, pc # "finish", crashes + storeFaults = 0, NEW u \in Url, Captured(u)
  PROVE  readings[u].task \in undone \/ task[readings[u].task].status = "completed"
BY DEF ReadInv, ReadingsSound

LEMMA LookupKeeps ==
  ASSUME ReadInv, NEW t \in Task, Lookup(t)
  PROVE  ReadInv'
<1>1. CASE /\ task[t].force \/ ~ Captured(task[t].url)
           /\ pc' = "launch" /\ cur' = t
           /\ UNCHANGED <<task, seen, result, budget>>
  <2>1. UNCHANGED <<readings, requests, undone, fargate, agent>> /\ task[t].status = "pending" /\ pc = "idle"
    BY DEF Lookup
  <2>2. TypeOK'
    BY <1>1, <2>1 DEF ReadInv, TypeOK, budget
  <2>3. TasksSound'
    BY <1>1, <2>1, TasksAlone DEF ReadInv, budget
  <2>a. task[t].ready => storeFaults > 0
    BY <2>1 DEF ReadInv, TasksSound, TaskSound
  <2>4. LaunchSound' /\ CompletionSound'
    BY <1>1, <2>1, <2>a DEF LaunchSound, CompletionSound, Captured, budget
  <2>5. ReadingsSound'
    BY <1>1, <2>1, ReadingsOfCompleted DEF ReadingsSound, Captured, budget
  <2> QED
    BY <2>2, <2>3, <2>4, <2>5 DEF ReadInv
<1>2. CASE /\ (Captured(task[t].url) /\ UNCHANGED budget) \/ Fault
           /\ SetStatus(t, "failed")
           /\ UNCHANGED orch
  <2>1. /\ UNCHANGED <<readings, requests, undone, fargate, orch>> /\ BudgetStep
        /\ task[t].status = "pending" /\ pc = "idle" /\ Update(t, "failed", FALSE)
    BY <1>2 DEF Lookup, SetStatus, BudgetStep
  <2>2. agent' = [agent EXCEPT ![t] = agent[t]] /\ agent[t] \in Agent
    BY DEF Lookup, ReadInv, TypeOK
  <2>3. TaskSound(t)
    BY DEF ReadInv, TasksSound
  <2>4. /\ task' \in [Task -> Row] /\ RowsStay /\ task'[t].status = "failed"
        /\ \A u \in Task \ {t} : task'[u] = task[u]
    BY <2>1, Updated DEF ReadInv
  <2> QED
    BY <2>1, <2>2, <2>3, <2>4, IdleKeeps DEF TaskSound
<1> QED
  BY <1>1, <1>2 DEF Lookup

\* What the orchestrator is done with it leaves behind.
LEMMA EndKeeps ==
  ASSUME ReadInv, TypeOK', BudgetStep, RowsStay, NEW t \in Task, TaskSound(t)', Idle,
         UNCHANGED <<readings, requests, undone, fargate>>,
         \A s \in Task \ {t} : task'[s] = task[s] /\ agent'[s] = agent[s],
         \/ pc # "finish" /\ task[t].status # "completed"
         \/ cur = t /\ task[t].status # "completed"
              /\ (task[t].status \in {"running", "cancelled"} /\ result = "completed"
                    => storeFaults' > 0 \/ task'[t].status = "completed")
  PROVE  ReadInv'
<1>1. TasksSound'
  <2>1. \A u \in Url : Captured(u) => Captured(u)'
    BY DEF Captured
  <2>2. ASSUME NEW s \in Task, s # t
        PROVE  TaskSound(s)'
    <3>1. /\ TaskSound(s) /\ task'[s].status = task[s].status /\ agent'[s] = agent[s]
          /\ task'[s].ready = task[s].ready
      BY <2>2 DEF ReadInv, TasksSound
    <3>2. /\ fargate' = fargate /\ requests' = requests
          /\ storeFaults > 0 => storeFaults' > 0
      BY Budgeted DEF ReadInv
    <3> QED
      BY <2>1, <3>1, <3>2, TaskStays
  <2> QED
    BY <2>2 DEF TasksSound
<1>2. LaunchSound' /\ CompletionSound'
  BY DEF Idle, LaunchSound, CompletionSound
<1>3. ReadingsSound'
  <2>2. crashes' + storeFaults' = 0 => crashes + storeFaults = 0 /\ ~ (storeFaults' > 0)
    BY Budgeted DEF ReadInv
  <2>3. ASSUME crashes' + storeFaults' = 0, NEW u \in Url, Captured(u)
        PROVE  readings[u].task \in undone \/ task'[readings[u].task].status = "completed"
    <3>1. readings[u].task \in Task
      BY <2>3 DEF ReadInv, TypeOK, Captured
    <3>2. \/ readings[u].task \in undone
          \/ task[readings[u].task].status = "completed"
          \/ /\ pc = "finish" /\ cur = readings[u].task /\ result = "completed"
             /\ task[cur].status \in {"running", "cancelled"}
      BY <2>2, <2>3 DEF ReadInv, ReadingsSound
    <3> QED
      BY <2>2, <2>3, <3>1, <3>2
  <2> QED
    BY <2>3 DEF ReadingsSound, Captured
<1> QED
  BY <1>1, <1>2, <1>3 DEF ReadInv

LEMMA LaunchKeeps ==
  ASSUME ReadInv, Launch
  PROVE  ReadInv'
<1>1. PICK c \in Task :
        /\ c = cur /\ task[c].status \in {"pending", "cancelled", "deleted"}
        /\ task[c].ready => task[c].status = "deleted" \/ storeFaults > 0
  BY DEF Launch, ReadInv, TypeOK, LaunchSound
<1>2. PICK a \in {NewAgent, agent[c]} :
        /\ Start(c) \/ Update(c, "failed", FALSE)
        /\ agent' = [agent EXCEPT ![c] = a] /\ BudgetStep
  <2>1. agent = [agent EXCEPT ![c] = agent[c]]
    BY DEF ReadInv, TypeOK
  <2> QED
    BY <1>1, <2>1 DEF Launch, SetStatus, BudgetStep
<1>3. Idle /\ UNCHANGED <<readings, requests, undone, fargate>> /\ pc = "launch"
  BY DEF Launch
<1>4. /\ task' \in [Task -> Row] /\ RowsStay
      /\ task'[c].status \in {"running", "failed", "deleted"}
      /\ task'[c].ready = task[c].ready
      /\ \A u \in Task \ {c} : task'[u] = task[u]
  <2>1. task[c].status # "new" /\ TypeOK
    BY <1>1 DEF ReadInv
  <2>2. CASE Start(c)
    BY <2>1, <2>2, Started
  <2>3. CASE Update(c, "failed", FALSE)
    BY <2>1, <2>3, Updated
  <2> QED
    BY <1>2, <2>2, <2>3
<1>5. TaskSound(c)
  BY DEF ReadInv, TasksSound
<1>6. /\ agent' \in [Task -> Agent] /\ agent'[c] = a
      /\ \A u \in Task \ {c} : agent'[u] = agent[u]
  BY <1>2 DEF ReadInv, TypeOK, NewAgent, Agent
<1>7. TypeOK'
  BY <1>2, <1>3, <1>4, <1>6, Budgeted DEF ReadInv, TypeOK, Idle
<1>8. TaskSound(c)'
  <2>1. storeFaults > 0 => storeFaults' > 0
    BY <1>2, Budgeted DEF ReadInv
  <2> QED
    BY <1>1, <1>2, <1>3, <1>4, <1>5, <1>6, <2>1 DEF TaskSound, RowsStay, NewAgent
<1> QED
  BY <1>1, <1>2, <1>3, <1>4, <1>6, <1>7, <1>8, EndKeeps

-----------------------------------------------------------------------------
(* Completion.                                                              *)

\* What Outcome makes of a report: a duplicate is stored only for a forced task,
\* and is otherwise all that completes one without a row.
LEMMA Outcomes ==
  ASSUME NEW t \in Task, NEW report \in Report \cup {NoReport}, NEW embedded \in BOOLEAN,
         NEW o, o = Outcome(t, report, embedded)
  PROVE  /\ o.pc \in {"store", "finish"} /\ o.result \in {"completed", "failed"}
         /\ o.pc = "store" => /\ o.result = "completed" /\ Completed(t, report) /\ embedded
                              /\ report.duplicate => task[t].force
         /\ o.pc = "finish" /\ o.result = "completed" => report.duplicate /\ ~ task[t].force
BY DEF Outcome, Skipped

LEMMA InspectKeeps ==
  ASSUME ReadInv, NEW t \in Task, Inspect(t)
  PROVE  ReadInv'
<1>1. PICK report \in {agent[t].report, NoReport}, embedded \in BOOLEAN :
        /\ seen' = report
        /\ pc' = Outcome(t, report, embedded).pc
        /\ result' = Outcome(t, report, embedded).result
        /\ IF report = agent[t].report /\ (embedded \/ report = NoReport)
             THEN UNCHANGED budget ELSE Fault
  BY DEF Inspect
<1>2. /\ UNCHANGED <<task, readings, requests, undone, fargate, agent>> /\ cur' = t /\ pc = "idle"
      /\ task[t].status = "running" /\ agent[t].st = "exited" /\ BudgetStep
  BY <1>1 DEF Inspect, tables, BudgetStep
<1>3. agent[t].report \in Report \cup {NoReport}
  BY AgentTyped DEF Agent
<1>4. /\ pc' \in {"store", "finish"} /\ result' \in {"completed", "failed"}
      /\ pc' = "store" => /\ result' = "completed" /\ Completed(t, report) /\ embedded
                          /\ report.duplicate => task[t].force
      /\ pc' = "finish" /\ result' = "completed" => report.duplicate /\ ~ task[t].force
  BY <1>1, <1>3, Outcomes
<1>5. TypeOK'
  BY <1>1, <1>2, <1>3, <1>4, Budgeted DEF ReadInv, TypeOK
<1>6. TasksSound'
  BY <1>2, TasksAlone, Budgeted DEF ReadInv
<1>7. LaunchSound'
  BY <1>4 DEF LaunchSound
<1>8. CompletionSound'
  <2>1. pc' = "store" /\ report = NoReport => faults' > 0 \/ fargate
    <3> SUFFICES ASSUME pc' = "store", report = NoReport, ~ fargate
                 PROVE  faults' > 0
      OBVIOUS
    <3>1. agent[t].exit # "nonzero"
      BY <1>4 DEF Completed
    <3>2. agent[t].report # NoReport
      BY <1>2, <3>1 DEF ReadInv, TasksSound, TaskSound
    <3>3. Fault
      BY <1>1, <3>2
    <3> QED
      BY <3>3 DEF Fault, ReadInv, TypeOK
  <2>2. pc' = "finish" /\ result' = "completed" => Told(t)'
    <3> SUFFICES ASSUME pc' = "finish", result' = "completed"
                 PROVE  Told(t)'
      OBVIOUS
    <3>1. report.duplicate /\ ~ task[t].force
      BY <1>4
    <3>2. report = agent[t].report
      BY <3>1
    <3> QED
      BY <1>2, <3>1, <3>2 DEF Told
  <2>3. Told(cur)' <=> Told(t)'
    BY <1>2 DEF Told
  <2>4. task[t].ready => storeFaults' > 0
    BY <1>2, Budgeted DEF ReadInv, TasksSound, TaskSound
  <2> QED
    BY <1>1, <1>2, <1>4, <2>1, <2>2, <2>3, <2>4 DEF CompletionSound
<1>9. ReadingsSound'
  <2>1. crashes' + storeFaults' = 0 => crashes + storeFaults = 0
    BY <1>2, Budgeted DEF ReadInv
  <2> QED
    BY <1>2, <2>1, ReadingsOfCompleted DEF ReadingsSound, Captured
<1> QED
  BY <1>5, <1>6, <1>7, <1>8, <1>9 DEF ReadInv

\* What is stored is about a url, and is what the report says.
LEMMA StoreWrites ==
  ASSUME ReadInv, pc = "store"
  PROVE  /\ cur \in Task /\ ReadUrl \in {task[cur].url, agent[cur].report.url} \cap Url
         /\ NewReading \in [task : Task, body : {"summary", "stub", "empty"}]
         /\ NewReading # NoReading /\ NewReading.task = cur /\ NewReading.body = seen.body
         /\ seen.body = "stub" => task[cur].force
         /\ seen.body = "empty" => faults > 0 \/ fargate
<1>1. /\ cur \in Task /\ seen \in {agent[cur].report, NoReport} /\ seen \in Report \cup {NoReport}
      /\ task[cur].status # "new" /\ (seen.duplicate => task[cur].force)
      /\ (seen = NoReport => faults > 0 \/ fargate)
  BY DEF ReadInv, TypeOK, CompletionSound
<1>2. seen \in Report => seen.body \in {"summary", "stub"} /\ seen.url \in Url
  BY DEF Report
<1>3. task[cur].url \in Url /\ (agent[cur].report.body = "stub" => agent[cur].report.duplicate)
  BY <1>1, AgentTyped
<1>4. ReadUrl \in {task[cur].url, agent[cur].report.url} \cap Url
  BY <1>1, <1>2, <1>3 DEF ReadUrl
<1>5. NewReading \in [task : Task, body : {"summary", "stub", "empty"}] /\ NewReading # NoReading
  BY <1>1, <1>2, TaskIsNat DEF NewReading
<1>6. NewReading.task = cur /\ NewReading.body = seen.body
  BY DEF NewReading
<1>7. (seen.body = "stub" => task[cur].force) /\ (seen.body = "empty" => faults > 0 \/ fargate)
  BY <1>1, <1>2, <1>3
<1> QED
  BY <1>1, <1>4, <1>5, <1>6, <1>7

LEMMA StoreKeeps ==
  ASSUME ReadInv, Store
  PROVE  ReadInv'
<1>1. /\ UNCHANGED <<task, requests, undone, fargate, agent, cur, seen>> /\ pc = "store" /\ pc' = "finish"
      /\ BudgetStep /\ result = "completed" /\ result' \in {"completed", "failed"}
  BY DEF Store, BudgetStep, ReadInv, CompletionSound
<1>2. PICK c \in Task, u0 \in Url, row \in [task : Task, body : {"summary", "stub", "empty"}] :
        /\ c = cur /\ u0 = ReadUrl /\ row = NewReading
        /\ row # NoReading /\ row.task = c
        /\ u0 \in {task[c].url, agent[c].report.url}
  BY <1>1, StoreWrites
<1>3. \/ readings' = readings /\ (storeFaults' > 0 \/ task[c].status = "deleted") /\ result' = "failed"
      \/ /\ readings' = [readings EXCEPT ![u0] = row]
         /\ \/ storeFaults' > 0 /\ result' = "failed"
            \/ result' = "completed" /\ task[c].status # "deleted"
  <2>1. StoreFault => storeFaults' > 0
    BY DEF StoreFault, ReadInv, TypeOK
  <2> QED
    BY <1>1, <1>2, <2>1 DEF Store
<1>4. /\ \A u \in Url : Captured(u) => Captured(u)'
      /\ result' = "completed" => Captured(u0)'
      /\ readings' \in [Url -> [task : Task, body : {"summary", "stub", "empty"}] \cup {NoReading}]
      /\ \A u \in Url : readings'[u] = readings[u] \/ readings'[u] = row
  BY <1>2, <1>3 DEF Captured, ReadInv, TypeOK
<1>5. TypeOK'
  BY <1>1, <1>4, Budgeted DEF ReadInv, TypeOK
<1>6. TasksSound'
  <2>1. RowsStay /\ (storeFaults > 0 => storeFaults' > 0)
    BY <1>1, Budgeted DEF RowsStay, ReadInv
  <2> QED
    BY <1>1, <1>4, <2>1, TaskStays DEF ReadInv, TasksSound
<1>7. LaunchSound'
  BY <1>1 DEF LaunchSound
<1>8. CompletionSound'
  <2>1. result' = "completed" => Told(c)'
    BY <1>1, <1>2, <1>4 DEF Told
  <2>2. Told(cur)' <=> Told(c)'
    BY <1>1, <1>2 DEF Told
  <2>3. storeFaults > 0 => storeFaults' > 0
    BY <1>1, Budgeted DEF ReadInv
  <2> QED
    BY <1>1, <1>2, <2>1, <2>2, <2>3 DEF ReadInv, CompletionSound
<1>9. ReadingsSound'
  <2>1. crashes' + storeFaults' = 0 => crashes + storeFaults = 0 /\ ~ (storeFaults' > 0)
    BY <1>1, Budgeted DEF ReadInv
  <2>2. task[c].status \in {"running", "cancelled", "deleted"} \/ storeFaults' > 0
    BY <1>1, <1>2, Budgeted DEF ReadInv, CompletionSound
  <2>3. ASSUME crashes' + storeFaults' = 0, NEW u \in Url, Captured(u)'
        PROVE  \/ readings'[u].task \in undone
               \/ task[readings'[u].task].status = "completed"
               \/ /\ c = readings'[u].task /\ result' = "completed"
                  /\ task[c].status \in {"running", "cancelled"}
    <3>1. CASE readings'[u] = readings[u]
      BY <1>1, <2>1, <2>3, <3>1, ReadingsOfCompleted DEF Captured
    <3>2. CASE readings'[u] # readings[u]
      BY <1>2, <1>3, <1>4, <2>1, <2>2, <2>3, <3>2
    <3> QED
      BY <3>1, <3>2
  <2> QED
    BY <1>1, <1>2, <2>3 DEF ReadingsSound
<1> QED
  BY <1>5, <1>6, <1>7, <1>8, <1>9 DEF ReadInv

LEMMA FinishKeeps ==
  ASSUME ReadInv, Finish
  PROVE  ReadInv'
<1>1. PICK c \in Task : c = cur
  BY DEF Finish, ReadInv, TypeOK
<1>2. /\ pc = "finish" /\ Idle /\ UNCHANGED <<readings, requests, undone, fargate, agent>> /\ BudgetStep
      /\ task[c].status \in {"running", "cancelled", "pending", "deleted"}
      /\ task[c].ready => task[c].status = "deleted" \/ storeFaults > 0
      /\ agent[c].st \in {"exited", "lost"}
      /\ result \in {"completed", "failed"}
      /\ result = "completed" /\ task[c].status # "deleted" => Told(c)
  BY <1>1 DEF Finish, BudgetStep, ReadInv, TypeOK, CompletionSound
<1>3. PICK s \in {result, task[c].status}, ready \in BOOLEAN :
        Update(c, s, ready) /\ ((s = result /\ (ready => s = "failed")) \/ storeFaults' > 0)
  <2>1. StoreFault => storeFaults' > 0
    BY DEF StoreFault, ReadInv, TypeOK
  <2> QED
    BY <1>1, <2>1 DEF Finish
<1>4. /\ task' \in [Task -> Row] /\ RowsStay
      /\ task'[c].status = IF task[c].status = "deleted" THEN "deleted" ELSE s
      /\ \A u \in Task \ {c} : task'[u] = task[u]
      /\ ~ ready => task'[c].ready = task[c].ready
  BY <1>2, <1>3, Updated DEF ReadInv
<1>5. TypeOK'
  BY <1>2, <1>4, Budgeted DEF ReadInv, TypeOK, Idle
<1>6. TaskSound(c)'
  <2>1. TaskSound(c)
    BY DEF ReadInv, TasksSound
  <2>2. Told(c) => Told(c)'
    BY <1>2, <1>4, ToldStays DEF Captured
  <2>3. task'[c].status = "completed" => Told(c)
    BY <1>2, <1>3, <1>4
  <2>4. task'[c].ready => task'[c].status \in {"failed", "deleted"} \/ storeFaults' > 0
    BY <1>2, <1>3, <1>4, Budgeted DEF ReadInv
  <2> QED
    BY <1>2, <1>4, <2>1, <2>2, <2>3, <2>4 DEF TaskSound, RowsStay, Working
<1> QED
  BY <1>1, <1>2, <1>3, <1>4, <1>5, <1>6, EndKeeps

LEMMA CrashKeeps ==
  ASSUME ReadInv, Crash
  PROVE  ReadInv'
<1>1. /\ UNCHANGED <<task, readings, undone, fargate, agent, faults, storeFaults>>
      /\ requests' = {}
      /\ Idle /\ crashes < MaxCrashes /\ crashes' = crashes + 1
      /\ crashes \in Nat /\ storeFaults \in Nat /\ MaxCrashes \in Nat
  BY ReadAssumption DEF Crash, ReadInv, TypeOK
<1>2. TypeOK'
  BY <1>1 DEF ReadInv, TypeOK, Idle
<1>3. TasksSound'
  BY <1>1, TasksAlone DEF ReadInv
<1>4. LaunchSound' /\ CompletionSound' /\ ReadingsSound'
  BY <1>1 DEF LaunchSound, CompletionSound, ReadingsSound, Idle
<1> QED
  BY <1>2, <1>3, <1>4 DEF ReadInv

-----------------------------------------------------------------------------
(* Every step keeps the invariant.                                          *)

LEMMA InitReadInv ==
  ASSUME Init
  PROVE  ReadInv
<1>1. NewRow \in Row /\ NewRow.status = "new" /\ ~ NewRow.ready
  <2>1. 0 \in 0..MaxUserRetries
    BY ReadAssumption
  <2> QED
    BY <2>1 DEF NewRow, Row
<1>2. NoAgent \in Agent /\ NoAgent.st = "none" /\ NoAgent.report.body # "stub"
  BY DEF NoAgent, NewAgent, Agent
<1>3. TypeOK
  BY <1>1, <1>2, ReadAssumption DEF Init, TypeOK
<1>4. TasksSound
  BY <1>1, <1>2, TaskIsNat DEF Init, TasksSound, TaskSound
<1>5. LaunchSound /\ CompletionSound /\ ReadingsSound
  BY DEF Init, LaunchSound, CompletionSound, ReadingsSound, Captured
<1> QED
  BY <1>3, <1>4, <1>5 DEF ReadInv

LEMMA StutterKeeps ==
  ASSUME ReadInv, UNCHANGED vars
  PROVE  ReadInv'
<1>1. UNCHANGED <<task, readings, requests, undone, agent, pc, cur, seen, result, fargate, crashes,
                  faults, storeFaults>>
  BY DEF vars
<1>2. RowsStay /\ BudgetStep /\ UNCHANGED orch
  BY <1>1 DEF RowsStay, BudgetStep, budget, orch
<1>3. TypeOK'
  BY <1>1 DEF ReadInv, TypeOK
<1>4. TasksSound'
  BY <1>1, TasksAlone DEF ReadInv
<1>5. LaunchSound' /\ CompletionSound'
  BY <1>1, <1>2, WorkStays DEF ReportStays, Meddled
<1>6. ReadingsSound'
  BY <1>1, <1>2, ReadingsStay DEF Meddled, CompletedStay
<1> QED
  BY <1>3, <1>4, <1>5, <1>6 DEF ReadInv

LEMMA NextKeeps ==
  ASSUME ReadInv, [Next]_vars
  PROVE  ReadInv'
<1>1. CASE \E t \in Task, u \in Url, force \in BOOLEAN : Submit(t, u, force)
  BY <1>1, SubmitKeeps
<1>2. ASSUME NEW t \in Task, NEW op \in {"cancel", "delete", "retry"},
             BeginRequest(t, op) \/ Cancel(t) \/ Delete(t) \/ Retry(t)
      PROVE  ReadInv'
  BY <1>2, BeginRequestKeeps, CancelKeeps, DeleteKeeps, RetryKeeps
<1>3. ASSUME NEW t \in Task,
             \/ Lookup(t) \/ AgentLooksUp(t) \/ AgentExits(t) \/ LoseContainer(t)
             \/ Requeue(t) \/ Kill(t) \/ CleanUp(t) \/ Inspect(t)
      PROVE  ReadInv'
  BY <1>3, LookupKeeps, AgentLooksUpKeeps, AgentExitsKeeps, LoseContainerKeeps,
     RequeueKeeps, KillKeeps, CleanUpKeeps, InspectKeeps
<1>5. CASE Launch \/ Store \/ Finish \/ Crash
  BY <1>5, LaunchKeeps, StoreKeeps, FinishKeeps, CrashKeeps
<1>4. CASE UNCHANGED vars
  BY <1>4, StutterKeeps
<1> QED
  BY <1>1, <1>2, <1>3, <1>4, <1>5 DEF Next

\* ReadInv always holds: the two-step duplicate check, launch and completion
\* never leave a row, a report or a reading that the others do not explain.
THEOREM ReadInvariance == Spec => []ReadInv
<1>1. Init => ReadInv
  BY InitReadInv
<1>2. ReadInv /\ [Next]_vars => ReadInv'
  BY NextKeeps
<1> QED
  BY <1>1, <1>2, PTL DEF Spec

\* The status of a read task tells whether its reading is there, for any number
\* of tasks, requests in flight, crashes, lost containers and failing calls.
THEOREM StatusTells == Spec => []StatusTellsReading
<1>1. ReadInv => StatusTellsReading
  <2> SUFFICES ASSUME ReadInv, NEW t \in Task
               PROVE  /\ task[t].status = "completed" => Told(t)
                      /\ task[t].status = "failed" /\ crashes + storeFaults = 0 /\ t \notin undone =>
                           \A u \in Url : readings[u].task # t
    BY DEF StatusTellsReading
  <2>1. task[t].status = "completed" => Told(t)
    BY DEF ReadInv, TasksSound, TaskSound
  <2>2. ASSUME task[t].status = "failed", crashes + storeFaults = 0, t \notin undone, NEW u \in Url,
               readings[u].task = t
        PROVE  FALSE
    <3>1. Captured(u)
      BY <2>2, TaskIsNat DEF Captured
    <3> QED
      BY <2>2, <3>1 DEF ReadInv, ReadingsSound
  <2> QED
    BY <2>1, <2>2
<1> QED
  BY <1>1, ReadInvariance, PTL

\* No reader starts for a url that has a reading, unless its task is forced.
THEOREM NoReaderForKnown == Spec => LaunchedOnlyIfNew
<1>1. ReadInv /\ [Next]_vars =>
        [\A t \in Task : task[t].status # "running" /\ task'[t].status = "running"
                           => task[t].force \/ ~ Captured(task[t].url)]_vars
  <2> SUFFICES ASSUME ReadInv, Next, NEW t \in Task,
                      task[t].status # "running", task'[t].status = "running"
               PROVE  task[t].force \/ ~ Captured(task[t].url)
    OBVIOUS
  <2>1. CASE Launch
    BY <2>1 DEF Launch, Start, SetStatus, Update, ReadInv, TypeOK, LaunchSound
  <2>2. CASE \E s \in Task, u \in Url, force \in BOOLEAN : Submit(s, u, force)
    BY <2>2 DEF Submit, ReadInv, TypeOK
  <2>3. CASE \E s \in Task : Retry(s)
    <3>1. PICK s \in Task : Retry(s)
      BY <2>3
    <3>2. task'[t] = task[t] \/ (t = s /\ task'[t].status = Requeued(task[t]).status)
      BY <3>1 DEF Retry, ReadInv, TypeOK, Requeued
    <3> QED
      BY <3>2, RowTyped, RequeuedRow DEF ReadInv
  <2>4. CASE \E s \in Task : Delete(s)
    BY <2>4 DEF Delete, ReadInv, TypeOK
  <2>5. CASE Store \/ Crash
    BY <2>5 DEF Store, Crash
  <2>6. CASE \E s \in Task :
               \/ \E op \in {"cancel", "delete", "retry"} : BeginRequest(s, op)
               \/ AgentLooksUp(s) \/ AgentExits(s) \/ LoseContainer(s) \/ Inspect(s)
    BY <2>6 DEF AgentLooksUp, AgentExits, LoseContainer, Inspect, BeginRequest, tables
  <2>7. CASE \E s \in Task : Cancel(s) \/ Lookup(s) \/ Requeue(s) \/ Kill(s) \/ CleanUp(s)
    <3>1. PICK s \in Task : Cancel(s) \/ Lookup(s) \/ Requeue(s) \/ Kill(s) \/ CleanUp(s)
      BY <2>7
    <3>2. CASE Cancel(s)
      BY <3>2, Requested, Updated DEF Cancel, SetStatus, ReadInv
    <3>3. CASE Lookup(s)
      BY <3>3, Updated DEF Lookup, SetStatus, ReadInv
    <3>4. CASE Requeue(s) \/ Kill(s) \/ CleanUp(s)
      <4>1. task'[t] = task[t] \/ t = s
        BY <3>4 DEF Requeue, Kill, CleanUp, Update, ReadInv, TypeOK
      <4>2. Kill(s) => task'[s].status = "failed"
        BY Updated DEF Kill, ReadInv
      <4>3. CleanUp(s) => task'[s].status = "cancelled"
        BY RowTyped DEF CleanUp, ReadInv, TypeOK, Row
      <4> QED
        BY <3>4, <4>1, <4>2, <4>3 DEF Requeue
    <3> QED
      BY <3>1, <3>2, <3>3, <3>4
  <2>8. CASE Finish
    <3>1. /\ cur \in Task /\ task[cur].status # "new" /\ result \in {"completed", "failed"}
          /\ task[cur].status \in {"running", "cancelled", "pending", "deleted"}
      BY <2>8 DEF Finish, ReadInv, TypeOK, CompletionSound
    <3>2. PICK s \in {result, task[cur].status}, ready \in BOOLEAN : Update(cur, s, ready)
      BY <2>8 DEF Finish
    <3> QED
      BY <3>1, <3>2, Updated DEF ReadInv
  <2> QED
    BY <2>1, <2>2, <2>3, <2>4, <2>5, <2>6, <2>7, <2>8 DEF Next
<1> QED
  BY <1>1, ReadInvariance, PTL DEF Spec, LaunchedOnlyIfNew

\* A summary gives way to a stub only for a forced task, to nothing only when a
\* report was not seen, and goes only with its task.
THEOREM SummariesLast == Spec => SummaryKept
<1> DEFINE Kept(u) ==
      readings[u].body = "summary" =>
       \/ readings'[u].body = "summary"
       \/ readings'[u].body = "stub" /\ task[readings'[u].task].force
       \/ readings'[u].body = "empty" /\ (faults > 0 \/ fargate)
       \/ readings'[u] = NoReading /\ task'[readings[u].task].status = "deleted"
<1>1. ASSUME ReadInv, Next, NEW u \in Url
      PROVE  Kept(u)
  <2>1. CASE Store
    <3>1. readings'[u] \in {readings[u], NewReading}
      BY <1>1, <2>1 DEF Store, ReadInv, TypeOK
    <3>2. pc = "store"
      BY <2>1 DEF Store
    <3> QED
      BY <1>1, <3>1, <3>2, StoreWrites DEF Kept
  <2>2. CASE \E d \in Task : Delete(d)
    <3>1. PICK d \in Task : Delete(d)
      BY <2>2
    <3>2. readings'[u] = IF readings[u].task = d THEN NoReading ELSE readings[u]
      BY <3>1 DEF Delete
    <3>3. task'[d].status = "deleted"
      BY <1>1, <3>1 DEF Delete, ReadInv, TypeOK
    <3> QED
      BY <3>2, <3>3 DEF Kept
  <2>3. CASE UNCHANGED readings
    BY <2>3 DEF Kept
  <2> QED
    BY <1>1, <2>1, <2>2, <2>3 DEF Next, Submit, BeginRequest, Cancel, Retry, Lookup,
       AgentLooksUp, AgentExits, LoseContainer, Requeue, Kill, CleanUp, Inspect, Launch,
       Finish, Crash, tables
<1>2. ReadInv /\ [Next]_vars => [\A u \in Url : Kept(u)]_vars
  BY <1>1
<1> QED
  BY <1>2, ReadInvariance, PTL DEF Spec, SummaryKept

=============================================================================
