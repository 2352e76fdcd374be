---------------------------- MODULE Announcements ----------------------------
(***************************************************************************)
(* What people hear of a task: the events that the orchestrator and the     *)
(* request handlers emit beside the statements they announce, the bus, the  *)
(* Discord notifier with its thread per task, and the buttons under its     *)
(* messages, through which people act on the task again.                    *)
(*                                                                         *)
(* One task is enough: threads, buttons and flags are per task.  Every       *)
(* statement and the Emit that announces it are two steps, and each call of  *)
(* the notifier is one.  Module Orchestrator has the rows that go stale     *)
(* between a list and a statement; here the orchestrator lists and writes   *)
(* in one step.  Module EventBus has the locking of the bus; here it is a    *)
(* bounded queue.                                                          *)
(*                                                                         *)
(* Bounds: MaxFaults limits crashes and failing calls, taken together.      *)
(***************************************************************************)
EXTENDS Naturals, Sequences

CONSTANTS
  Request,         \* requests that may be in flight at once
  MaxUserRetries,
  BufferSize,      \* capacity of the bus
  MaxFaults

ASSUME AnnouncementsAssumption ==
  MaxUserRetries \in Nat /\ BufferSize \in Nat \ {0} /\ MaxFaults \in Nat

VARIABLES
  task,       \* the row of the task
  orch,       \* what the orchestrator has still to do for it
  req,        \* what each handler has still to do
  queue,      \* the channel of the bus
  notifier,   \* where DiscordNotifier.Notify is, and with which event
  thread,     \* whether discord_task_threads has a row for the task
  threads,    \* how many threads have been started for it
  told,       \* the last message about it that the orchestrator caused
  dropped,    \* whether the full bus has dropped an event
  faults

discord == <<notifier, thread, threads, told>>
vars    == <<task, orch, req, queue, notifier, thread, threads, told, dropped, faults>>

\* The types of the orchestrator's events, and "request" for task.created,
\* task.cancelled and task.retry of the handlers: nothing here tells those
\* apart, for no message of theirs has a Retry button.
EventType == {"request", "running", "completed", "failed", "needs_input", "interrupted",
              "recovering", "cancelled"}

Event == [type : EventType, ready : BOOLEAN, limit : BOOLEAN]

\* NewEvent without options.
Says(type) == [type |-> type, ready |-> FALSE, limit |-> FALSE]

NoEvent == Says("none")

Closing_Unflagged(type, n) == [Says(type) EXCEPT !.limit = n >= MaxUserRetries]

\* The event of markRetryReady, for a task retried n times before.
Closing(type, n) ==
  [Says(type) EXCEPT !.ready = n < MaxUserRetries, !.limit = n >= MaxUserRetries]

Active      == {"running", "recovering"}
Cancellable == {"pending"} \cup Active
Retryable   == {"failed", "cancelled"}

Fault == faults < MaxFaults /\ faults' = faults + 1

Emit_Unbounded(e) == queue' = Append(queue, e) /\ UNCHANGED dropped

\* Emit drops the event when the buffer is full.
Emit(e) ==
  IF Len(queue) < BufferSize
    THEN queue' = Append(queue, e) /\ UNCHANGED dropped
    ELSE dropped' = TRUE /\ UNCHANGED queue

-----------------------------------------------------------------------------
(* The orchestrator: statements on the row, each announced by an event.     *)

Rest == [pc |-> "idle", event |-> NoEvent, listed |-> 0]

\* A statement that leaves the row as row and is followed by steps from pc on.
\* When it fails the orchestrator logs the error and goes on.
Write(row, pc, event) ==
  /\ orch' = [pc |-> pc, event |-> event, listed |-> task.uretry]
  /\ \/ task' = row /\ UNCHANGED faults
     \/ Fault /\ UNCHANGED task

Idle == orch.pc = "idle" /\ UNCHANGED <<req, queue, dropped, discord>>

\* dispatch: the task runs, or has failed without its retry flag.
Dispatch ==
  /\ Idle /\ task.status = "pending"
  /\ \/ /\ task' = [task EXCEPT !.status = "running", !.ctr = TRUE]
        /\ orch' = [Rest EXCEPT !.pc = "emit", !.event = Says("running")]
        /\ UNCHANGED faults
     \/ Write([task EXCEPT !.status = "failed"], "emit", Says("failed"))

\* handleCompletion and killTask.
Complete ==
  /\ Idle /\ task.status \in Active
  /\ \/ Write([task EXCEPT !.status = "completed"], "emit", Says("completed"))
     \/ \E type \in {"failed", "needs_input"} :
          Write([task EXCEPT !.status = "failed"], "mark", Closing(type, task.uretry))

\* requeueTask says nothing.
Requeue ==
  /\ Idle /\ task.status \in Active
  /\ Write([task EXCEPT !.status = "pending", !.ctr = FALSE, !.ready = FALSE], "idle", NoEvent)

\* handleInterruption of the Spot handler announces before it requeues.
Interrupt ==
  /\ Idle /\ task.status = "running"
  /\ orch' = [Rest EXCEPT !.pc = "announce", !.event = Says("interrupted")]
  /\ UNCHANGED <<task, faults>>

RequeueInterrupted ==
  /\ orch.pc = "requeue"
  /\ orch' = Rest
  /\ \/ /\ task' = IF task.status = "deleted" THEN task
                   ELSE [task EXCEPT !.status = "pending", !.ctr = FALSE, !.ready = FALSE]
        /\ UNCHANGED faults
     \/ Fault /\ UNCHANGED task
  /\ UNCHANGED <<req, queue, dropped, discord>>

\* monitorRecovering finds the container at work.
Promote ==
  /\ Idle /\ task.status = "recovering"
  /\ Write([task EXCEPT !.status = "running"], "emit", Says("running"))

\* monitorCancelled, which clears the assignment before markRetryReady.
CleanUp ==
  /\ Idle /\ task.status = "cancelled" /\ (task.ctr \/ ~ task.ready)
  /\ Write([task EXCEPT !.ctr = FALSE], "mark", Closing("cancelled", task.uretry))

Mark_AfterEmit ==
  /\ orch.pc = "mark"
  /\ orch' = [orch EXCEPT !.pc = "emit"]
  /\ UNCHANGED <<task, req, queue, dropped, discord, faults>>

\* MarkReadyForRetry; its error is logged.
Mark ==
  /\ orch.pc = "mark"
  /\ orch' = [orch EXCEPT !.pc = "emit"]
  /\ \/ task' = [task EXCEPT !.ready = task.status # "deleted"] /\ UNCHANGED faults
     \/ Fault /\ UNCHANGED task
  /\ UNCHANGED <<req, queue, dropped, discord>>

Announce ==
  /\ orch.pc \in {"emit", "announce"}
  /\ Emit(orch.event)
  /\ orch' = IF orch.pc = "announce" THEN [orch EXCEPT !.pc = "requeue"] ELSE Rest
  /\ UNCHANGED <<task, req, discord, faults>>

\* recoverOnStartup.
Recover ==
  /\ orch.pc = "recover"
  /\ IF task.status = "running"
       THEN Write([task EXCEPT !.status = "recovering"], "emit", Says("recovering"))
       ELSE orch' = Rest /\ UNCHANGED <<task, faults>>
  /\ UNCHANGED <<req, queue, dropped, discord>>

-----------------------------------------------------------------------------
(* Requests, from the REST API or from a button.                            *)

Free(r) == req[r].pc = "free"

Begin(r, op) ==
  /\ Free(r)
  /\ req' = [req EXCEPT ![r] = [pc |-> op, event |-> NoEvent]]
  /\ UNCHANGED <<task, orch, queue, dropped, discord, faults>>

\* The statement of a request, and what its handler will say about it.
Finish(r, row, event) ==
  /\ task' = row
  /\ req' = [req EXCEPT ![r] = [pc |-> IF event = NoEvent THEN "free" ELSE "emit",
                                event |-> event]]
  /\ UNCHANGED <<orch, queue, dropped, discord, faults>>

Create(r) ==
  /\ Free(r) /\ task.status = "none"
  /\ Finish(r, [task EXCEPT !.status = "pending"], Says("request"))

\* CancelTask of the API, which the Cancel button shares: a check and a write.
\* DELETE does the same to an active task.
BeginCancel(r) == task.status \in Cancellable /\ Begin(r, "cancel")

FinishCancel(r) ==
  /\ req[r].pc = "cancel"
  /\ Finish(r, IF task.status = "deleted" THEN task ELSE [task EXCEPT !.status = "cancelled"],
            Says("request"))

\* DELETE of a pending task says nothing.
BeginDelete(r) == task.status = "pending" /\ Begin(r, "delete")

\* The row goes, and that of its thread with it.
FinishDelete(r) ==
  /\ req[r].pc = "delete"
  /\ task' = [task EXCEPT !.status = "deleted", !.ctr = FALSE, !.ready = FALSE]
  /\ thread' = FALSE
  /\ req' = [req EXCEPT ![r] = [pc |-> "free", event |-> NoEvent]]
  /\ UNCHANGED <<orch, queue, dropped, notifier, threads, told, faults>>

\* RetryTask of the API: the REST handler announces it, Discord's button and
\* command do not.
BeginRetry(r) ==
  /\ task.status \in Retryable /\ task.uretry < MaxUserRetries
  /\ \E op \in {"retry", "discord"} : Begin(r, op)

\* The statement tests the flag and the count, not the status.
FinishRetry(r) ==
  /\ req[r].pc \in {"retry", "discord"}
  /\ IF task.ready /\ task.uretry < MaxUserRetries
       THEN Finish(r, [task EXCEPT !.status = "pending", !.ctr = FALSE, !.ready = FALSE,
                                   !.uretry = @ + 1],
                   IF req[r].pc = "retry" THEN Says("request") ELSE NoEvent)
       ELSE Finish(r, task, NoEvent)

AnswerRequest(r) ==
  /\ req[r].pc = "emit"
  /\ Emit(req[r].event)
  /\ req' = [req EXCEPT ![r] = [pc |-> "free", event |-> NoEvent]]
  /\ UNCHANGED <<task, orch, discord, faults>>

-----------------------------------------------------------------------------
(* DiscordNotifier, called by the one goroutine that delivers.  It swallows *)
(* every error, and a call that failed for it may have taken effect.        *)

\* buttonsForEvent, whether the message has a Retry button.  The Cancel button
\* of the others asks for nothing that the API does not offer at any time.
HasRetry(e) == e.type \in {"failed", "interrupted", "cancelled"} /\ e.ready /\ ~ e.limit

Posted == told' = IF notifier.event.type = "request" THEN told ELSE notifier.event

Unposted == UNCHANGED told

Notified == notifier' = [pc |-> "idle", event |-> NoEvent]

\* GetDiscordTaskThread for the next event decides how it is posted.
Deliver_Forgets ==
  /\ notifier.pc = "idle" /\ queue # <<>>
  /\ queue' = Tail(queue)
  /\ notifier' = [pc |-> "bootstrap", event |-> Head(queue)]
  /\ UNCHANGED <<task, orch, req, dropped, thread, threads, told, faults>>

Deliver ==
  /\ notifier.pc = "idle" /\ queue # <<>>
  /\ queue' = Tail(queue)
  /\ \/ notifier' = [pc |-> IF thread THEN "post" ELSE "bootstrap", event |-> Head(queue)]
        /\ UNCHANGED faults
     \/ Notified /\ Fault
  /\ UNCHANGED <<task, orch, req, dropped, thread, threads, told>>

PostThreadEvent ==
  /\ notifier.pc = "post"
  /\ Notified
  /\ \/ Posted /\ UNCHANGED faults
     \/ (Posted \/ Unposted) /\ Fault
  /\ UNCHANGED <<task, orch, req, queue, dropped, thread, threads>>

\* CreateMessage in the channel, at the root of a new thread.
CreateRoot ==
  /\ notifier.pc = "bootstrap"
  /\ \/ Posted /\ notifier' = [notifier EXCEPT !.pc = "start"] /\ UNCHANGED faults
     \/ (Posted \/ Unposted) /\ Notified /\ Fault
  /\ UNCHANGED <<task, orch, req, queue, dropped, thread, threads>>

StartThread ==
  /\ notifier.pc = "start"
  /\ \/ /\ threads' = threads + 1
        /\ notifier' = [notifier EXCEPT !.pc = "save"]
        /\ UNCHANGED faults
     \/ threads' \in {threads, threads + 1} /\ Notified /\ Fault
  /\ UNCHANGED <<task, orch, req, queue, dropped, thread, told>>

\* UpsertDiscordTaskThread, whose row refers to that of the task.
SaveThread ==
  /\ notifier.pc = "save"
  /\ Notified
  /\ \/ thread' = (task.status # "deleted") /\ UNCHANGED faults
     \/ Fault /\ UNCHANGED thread
  /\ UNCHANGED <<task, orch, req, queue, dropped, threads, told>>

\* The server crashes and is started again: bus, handlers and notifier are new.
Crash ==
  /\ Fault /\ task.status # "none"
  /\ orch' = [Rest EXCEPT !.pc = "recover"]
  /\ req' = [r \in Request |-> [pc |-> "free", event |-> NoEvent]]
  /\ queue' = <<>>
  /\ Notified
  /\ UNCHANGED <<task, dropped, thread, threads, told>>

-----------------------------------------------------------------------------
Init ==
  /\ task = [status |-> "none", ctr |-> FALSE, ready |-> FALSE, uretry |-> 0]
  /\ orch = Rest
  /\ req = [r \in Request |-> [pc |-> "free", event |-> NoEvent]]
  /\ queue = <<>>
  /\ notifier = [pc |-> "idle", event |-> NoEvent]
  /\ thread = FALSE /\ threads = 0
  /\ told = NoEvent
  /\ dropped = FALSE
  /\ faults = 0

Next ==
  \/ Dispatch \/ Complete \/ Requeue \/ Interrupt \/ RequeueInterrupted \/ Promote
  \/ CleanUp \/ Mark \/ Announce \/ Recover
  \/ \E r \in Request :
       \/ Create(r) \/ BeginCancel(r) \/ FinishCancel(r) \/ BeginDelete(r)
       \/ FinishDelete(r) \/ BeginRetry(r) \/ FinishRetry(r) \/ AnswerRequest(r)
  \/ Deliver \/ PostThreadEvent \/ CreateRoot \/ StartThread \/ SaveThread
  \/ Crash

Spec == Init /\ [][Next]_vars

-----------------------------------------------------------------------------
TypeOK ==
  /\ task \in [status : {"none", "completed", "deleted"} \cup Cancellable \cup Retryable,
               ctr : BOOLEAN, ready : BOOLEAN, uretry : 0..MaxUserRetries]
  /\ orch \in [pc : {"idle", "mark", "emit", "announce", "requeue", "recover"},
               event : Event \cup {NoEvent}, listed : 0..MaxUserRetries]
  /\ req \in [Request -> [pc : {"free", "cancel", "delete", "retry", "discord", "emit"},
                          event : Event \cup {NoEvent}]]
  /\ queue \in Seq(Event) /\ Len(queue) <= BufferSize
  /\ notifier \in [pc : {"idle", "post", "bootstrap", "start", "save"},
                   event : Event \cup {NoEvent}]
  /\ thread \in BOOLEAN /\ threads \in Nat
  /\ told \in Event \cup {NoEvent}
  /\ dropped \in BOOLEAN
  /\ faults \in 0..MaxFaults

\* discord.go: the notifier continues "the conversation in a per-task thread".
\* Looking it up, starting it and storing it are separate calls; only a crash
\* or a failing call between them costs a second thread.
OneThread == task.status # "deleted" => threads <= 1 + faults

\* discord-setup.md: a Retry button is shown "only after the orchestrator
\* finishes container cleanup".  When the event that brings it is emitted, the
\* task can be retried and holds no container, unless it was retried already.
RetryOfferedAfterCleanup ==
  orch.pc = "emit" /\ orch.event.ready /\ faults = 0 =>
    \/ task.ready /\ (orch.event.type = "cancelled" => ~ task.ctr)
    \/ task.uretry > orch.listed
    \/ task.status = "deleted"

Quiet ==
  /\ orch.pc = "idle" /\ notifier.pc = "idle" /\ queue = <<>>
  /\ \A r \in Request : Free(r)
  /\ task.status = "cancelled" => task.ready /\ ~ task.ctr

\* When all has been said about a task that has ended, the last word of the
\* orchestrator names its end, and lets people retry it if they may; cancels
\* and deletions may have come at any point.  (A task that needs input is the
\* exception: its message has no button.  So is a cancel after a retry that
\* overtook the flag of the cleanup it follows: the flag is stale by then, and
\* the orchestrator takes the task for cleaned up and announced.)
LastWord ==
  Quiet /\ faults = 0 /\ ~ dropped =>
    /\ task.status = "completed" => told.type = "completed"
    /\ task.status = "failed"    => told.type \in {"failed", "needs_input"}
    /\ task.status \in Retryable /\ task.ready /\ task.uretry = 0 =>
         /\ task.status = "cancelled" => told.type = "cancelled"
         /\ MaxUserRetries > 0 => told.type = "needs_input" \/ HasRetry(told)

-----------------------------------------------------------------------------
(* Why these hold: the inductive invariant of the proofs.                   *)

\* A thread that the notifier has started and not yet stored is the one that
\* the row does not know of.
ThreadSound ==
  /\ notifier.pc \in {"bootstrap", "start", "save"} => ~ thread
  /\ task.status # "deleted" =>
       threads <= faults + (IF thread \/ notifier.pc = "save" THEN 1 ELSE 0)

\* A deleted task stays so: no statement finds its flag.
DeletedForGood == task.status = "deleted" => ~ task.ready

\* What handlers have to say are requests, what the orchestrator has to say
\* after a statement are not.
EventsSound ==
  /\ \A r \in Request : req[r].pc = "emit" => req[r].event = Says("request")
  /\ orch.pc \in {"mark", "emit", "announce"} => orch.event \in Event
  /\ orch.pc \in {"mark", "emit"} =>
       /\ orch.event.type # "request"
       /\ orch.listed <= task.uretry
       /\ orch.event.type = "cancelled" /\ faults = 0 => ~ task.ctr

\* The last event of the orchestrator that is on its way, or else the last one
\* told, is in S.
LastIn(S) ==
  IF orch.pc \in {"mark", "emit"}
    THEN orch.event \in S
    ELSE \/ \E i \in 1..Len(queue) :
              queue[i] \in S /\ \A j \in (i + 1)..Len(queue) : queue[j].type = "request"
         \/ /\ \A j \in 1..Len(queue) : queue[j].type = "request"
            /\ IF notifier.pc \in {"post", "bootstrap"} /\ notifier.event.type # "request"
                 THEN notifier.event \in S
                 ELSE told \in S

Completions == {Says("completed")}
Failures    == {Says("failed")} \cup {Closing(type, n) : type \in {"failed", "needs_input"},
                                                      n \in 0..MaxUserRetries}
FirstFailures == {Closing("failed", 0), Closing("needs_input", 0)}
FirstCleanUp  == {Closing("cancelled", 0)}

\* The last word names the end of a task that has ended.
EndsSound ==
  /\ orch.pc # "recover"
  /\ task.status = "completed" => orch.pc \in {"idle", "emit"} /\ LastIn(Completions)
  /\ task.status = "failed" => orch.pc \in {"idle", "mark", "emit"} /\ LastIn(Failures)

\* While it has not been retried, flag and container tell which end it was.
FirstLifeSound ==
  /\ task.ready => task.status \in Retryable /\ orch.pc \in {"idle", "mark", "emit"}
  /\ task.status \in Active => task.ctr
  /\ orch.pc = "mark" /\ task.status # "deleted" =>
       /\ task.status \in Retryable /\ (task.status = "failed" => task.ctr)
       /\ IF task.ctr THEN orch.event \in FirstFailures ELSE orch.event \in FirstCleanUp
  /\ task.status = "failed" /\ task.ready => task.ctr /\ LastIn(FirstFailures)
  /\ task.status = "cancelled" /\ task.ready /\ ~ task.ctr => LastIn(FirstCleanUp)

WordsSound == faults = 0 /\ ~ dropped => EndsSound /\ (task.uretry = 0 => FirstLifeSound)

AnnInv ==
  /\ TypeOK /\ ThreadSound /\ DeletedForGood /\ EventsSound
  /\ RetryOfferedAfterCleanup /\ WordsSound

=============================================================================
