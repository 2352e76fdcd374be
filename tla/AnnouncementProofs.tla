------------------------- MODULE AnnouncementProofs -------------------------
(***************************************************************************)
(* What people hear of a task: threads are as few as faults explain, the     *)
(* Retry button comes after the cleanup, and the last word names the end of  *)
(* the task, for any number of requests in flight, retries and faults, and   *)
(* any capacity of the bus.                                                 *)
(***************************************************************************)
EXTENDS Announcements, TLAPS

-----------------------------------------------------------------------------
(* Types.                                                                   *)

Row == [status : {"none", "completed", "deleted"} \cup Cancellable \cup Retryable,
        ctr : BOOLEAN, ready : BOOLEAN, uretry : 0..MaxUserRetries]

Hand == [pc : {"idle", "mark", "emit", "announce", "requeue", "recover"},
         event : Event \cup {NoEvent}, listed : 0..MaxUserRetries]

InFlight == [pc : {"free", "cancel", "delete", "retry", "discord", "emit"},
             event : Event \cup {NoEvent}]

Notification == [pc : {"idle", "post", "bootstrap", "start", "save"},
                 event : Event \cup {NoEvent}]

LEMMA Types ==
  ASSUME AnnInv
  PROVE  /\ task \in Row /\ orch \in Hand /\ req \in [Request -> InFlight]
         /\ notifier \in Notification /\ queue \in Seq(Event) /\ Len(queue) \in Nat
         /\ thread \in BOOLEAN /\ threads \in Nat /\ told \in Event \cup {NoEvent}
         /\ faults \in Nat /\ MaxFaults \in Nat /\ faults <= MaxFaults /\ dropped \in BOOLEAN
         /\ task.uretry \in Nat /\ MaxUserRetries \in Nat /\ task.uretry <= MaxUserRetries
         /\ orch.listed \in Nat
<1>1. MaxFaults \in Nat /\ MaxUserRetries \in Nat
  BY AnnouncementsAssumption
<1> QED
  BY <1>1 DEF AnnInv, TypeOK, Row, Hand, InFlight, Notification

LEMMA SaysTyped ==
  /\ \A type \in EventType : Says(type) \in Event
  /\ \A type : /\ Says(type).type = type /\ ~ Says(type).ready
  /\ NoEvent.type = "none" /\ ~ NoEvent.ready
BY DEF Says, Event, NoEvent

LEMMA ClosingTyped ==
  ASSUME NEW type \in EventType, NEW n \in 0..MaxUserRetries
  PROVE  /\ Closing(type, n) \in Event /\ Closing(type, n).type = type
         /\ Closing(type, n).ready <=> n < MaxUserRetries
         /\ Closing(type, n).limit <=> n >= MaxUserRetries
<1> DEFINE r == n < MaxUserRetries
           l == n >= MaxUserRetries
<1>1. r \in BOOLEAN /\ l \in BOOLEAN
  OBVIOUS
<1>2. Closing(type, n) = [[Says(type) EXCEPT !.ready = r] EXCEPT !.limit = l]
  BY DEF Closing, Says
<1> HIDE DEF r, l
<1>3. /\ Closing(type, n) \in Event /\ Closing(type, n).type = type
      /\ Closing(type, n).ready = r /\ Closing(type, n).limit = l
  BY <1>1, <1>2 DEF Says, Event
<1> QED
  BY <1>3 DEF r, l

\* What the words of WordsSound say.
LEMMA Words ==
  /\ \A e \in Completions : e.type = "completed"
  /\ \A e \in Failures : e.type \in {"failed", "needs_input"}
  /\ \A e \in FirstFailures : e.type \in {"failed", "needs_input"}
  /\ \A e \in FirstCleanUp : e.type = "cancelled"
  /\ MaxUserRetries > 0 =>
       /\ \A e \in FirstFailures : e.type = "needs_input" \/ HasRetry(e)
       /\ \A e \in FirstCleanUp : HasRetry(e)
<1>1. 0 \in 0..MaxUserRetries /\ MaxUserRetries \in Nat
  BY AnnouncementsAssumption
<1>2. {"failed", "needs_input", "cancelled"} \subseteq EventType
  BY DEF EventType
<1>3. \A e \in Completions : e.type = "completed"
  BY SaysTyped DEF Completions
<1>4. \A e \in Failures : e.type \in {"failed", "needs_input"}
  BY <1>2, SaysTyped, ClosingTyped DEF Failures
<1>5. \A e \in FirstFailures : e.type \in {"failed", "needs_input"} /\ (e.ready <=> 0 < MaxUserRetries)
                               /\ (e.limit <=> 0 >= MaxUserRetries)
  BY <1>1, <1>2, ClosingTyped DEF FirstFailures
<1>6. \A e \in FirstCleanUp : e.type = "cancelled" /\ (e.ready <=> 0 < MaxUserRetries)
                              /\ (e.limit <=> 0 >= MaxUserRetries)
  BY <1>1, <1>2, ClosingTyped DEF FirstCleanUp
<1>7. MaxUserRetries > 0 => ~ (0 >= MaxUserRetries) /\ 0 < MaxUserRetries
  BY <1>1
<1>8. ASSUME MaxUserRetries > 0, NEW e \in FirstFailures
      PROVE  e.type = "needs_input" \/ HasRetry(e)
  BY <1>5, <1>7, <1>8 DEF HasRetry
<1>9. ASSUME MaxUserRetries > 0, NEW e \in FirstCleanUp
      PROVE  HasRetry(e)
  BY <1>6, <1>7, <1>9 DEF HasRetry
<1> QED
  BY <1>3, <1>4, <1>5, <1>6, <1>8, <1>9

-----------------------------------------------------------------------------
(* The last word, on its way.                                               *)

LEMMA WordStays ==
  ASSUME NEW S, LastIn(S), UNCHANGED <<queue, notifier, told>>,
         IF orch.pc \in {"mark", "emit"} THEN orch'.pc \in {"mark", "emit"} /\ orch'.event = orch.event
                                         ELSE orch'.pc \notin {"mark", "emit"}
  PROVE  LastIn(S)'
BY DEF LastIn

\* A request that is announced does not come between.
LEMMA RequestSaid ==
  ASSUME AnnInv, NEW S, LastIn(S), UNCHANGED <<orch, notifier, told>>,
         queue' = Append(queue, Says("request"))
  PROVE  LastIn(S)'
<1>1. /\ Len(queue') = Len(queue) + 1 /\ Len(queue) \in Nat
      /\ \A i \in 1..Len(queue) : queue'[i] = queue[i]
      /\ queue'[Len(queue) + 1].type = "request"
  BY Types, SaysTyped
<1>2. CASE orch.pc \in {"mark", "emit"}
  BY <1>2 DEF LastIn
<1>3. CASE orch.pc \notin {"mark", "emit"} /\ \E i \in 1..Len(queue) :
             queue[i] \in S /\ \A j \in (i + 1)..Len(queue) : queue[j].type = "request"
  <2>1. PICK i \in 1..Len(queue) :
             queue[i] \in S /\ \A j \in (i + 1)..Len(queue) : queue[j].type = "request"
    BY <1>3
  <2>2. i \in 1..Len(queue') /\ queue'[i] \in S
    BY <1>1, <2>1
  <2>3. ASSUME NEW j \in (i + 1)..Len(queue')
        PROVE  queue'[j].type = "request"
    <3>1. j \in (i + 1)..Len(queue) \/ j = Len(queue) + 1
      BY <1>1, <2>1
    <3> QED
      BY <1>1, <2>1, <3>1
  <2> QED
    BY <1>3, <2>2, <2>3 DEF LastIn
<1>4. CASE /\ orch.pc \notin {"mark", "emit"} /\ \A j \in 1..Len(queue) : queue[j].type = "request"
           /\ IF notifier.pc \in {"post", "bootstrap"} /\ notifier.event.type # "request"
                THEN notifier.event \in S
                ELSE told \in S
  <2>1. ASSUME NEW j \in 1..Len(queue')
        PROVE  queue'[j].type = "request"
    <3>1. j \in 1..Len(queue) \/ j = Len(queue) + 1
      BY <1>1
    <3> QED
      BY <1>1, <1>4, <3>1
  <2> QED
    BY <1>4, <2>1 DEF LastIn
<1> QED
  BY <1>2, <1>3, <1>4 DEF LastIn

\* What the orchestrator has to say goes to the end of the bus.
LEMMA WordSaid ==
  ASSUME AnnInv, NEW S, LastIn(S), orch.pc = "emit", orch'.pc = "idle",
         queue' = Append(queue, orch.event)
  PROVE  LastIn(S)'
<1>1. Len(queue') = Len(queue) + 1 /\ Len(queue) \in Nat /\ queue'[Len(queue) + 1] = orch.event
  BY Types
<1>2. orch.event \in S
  BY DEF LastIn
<1>3. \A j \in (Len(queue) + 1 + 1)..Len(queue') : FALSE
  BY <1>1
<1>4. Len(queue) + 1 \in 1..Len(queue')
  BY <1>1
<1> QED
  BY <1>1, <1>2, <1>3, <1>4 DEF LastIn

\* Then to the notifier.
LEMMA WordDelivered ==
  ASSUME AnnInv, NEW S, LastIn(S), \A e \in S : e.type # "request", UNCHANGED <<orch, told>>,
         notifier.pc = "idle", queue # <<>>, queue' = Tail(queue),
         notifier'.pc \in {"post", "bootstrap"}, notifier'.event = Head(queue)
  PROVE  LastIn(S)'
<1>1. /\ Len(queue') = Len(queue) - 1 /\ Len(queue) \in Nat \ {0} /\ notifier'.event = queue[1]
      /\ \A i \in 1..Len(queue') : queue'[i] = queue[i + 1]
  BY Types
<1>2. CASE orch.pc \in {"mark", "emit"}
  BY <1>2 DEF LastIn
<1>3. CASE orch.pc \notin {"mark", "emit"} /\ \E i \in 1..Len(queue) :
             queue[i] \in S /\ \A j \in (i + 1)..Len(queue) : queue[j].type = "request"
  <2>1. PICK i \in 1..Len(queue) :
             queue[i] \in S /\ \A j \in (i + 1)..Len(queue) : queue[j].type = "request"
    BY <1>3
  <2>2. CASE i = 1
    <3>1. ASSUME NEW j \in 1..Len(queue')
          PROVE  queue'[j].type = "request"
      <4>1. j + 1 \in (i + 1)..Len(queue)
        BY <1>1, <2>2
      <4> QED
        BY <1>1, <2>1, <4>1
    <3> QED
      BY <1>1, <1>3, <2>1, <2>2, <3>1 DEF LastIn
  <2>3. CASE i # 1
    <3>1. i - 1 \in 1..Len(queue') /\ queue'[i - 1] = queue[i]
      BY <1>1, <2>3
    <3>2. ASSUME NEW j \in ((i - 1) + 1)..Len(queue')
          PROVE  queue'[j].type = "request"
      <4>1. j + 1 \in (i + 1)..Len(queue) /\ j \in 1..Len(queue')
        BY <1>1, <2>3
      <4> QED
        BY <1>1, <2>1, <4>1
    <3> QED
      BY <1>3, <2>1, <3>1, <3>2 DEF LastIn
  <2> QED
    BY <2>2, <2>3
<1>4. CASE /\ orch.pc \notin {"mark", "emit"} /\ \A j \in 1..Len(queue) : queue[j].type = "request"
           /\ told \in S
  <2>1. ASSUME NEW j \in 1..Len(queue')
        PROVE  queue'[j].type = "request"
    <3>1. j + 1 \in 1..Len(queue)
      BY <1>1
    <3> QED
      BY <1>1, <1>4, <3>1
  <2>2. notifier'.event.type = "request"
    BY <1>1, <1>4
  <2> QED
    BY <1>4, <2>1, <2>2 DEF LastIn
<1> QED
  BY <1>2, <1>3, <1>4 DEF LastIn

\* And is told.
LEMMA WordTold ==
  ASSUME NEW S, LastIn(S), UNCHANGED <<orch, queue>>,
         notifier.pc \in {"post", "bootstrap"}, Posted, notifier'.pc \notin {"post", "bootstrap"}
  PROVE  LastIn(S)'
BY DEF LastIn, Posted

LEMMA WordWasTold ==
  ASSUME NEW S, LastIn(S), UNCHANGED <<orch, queue, told>>,
         notifier.pc \notin {"post", "bootstrap"}, notifier'.pc \notin {"post", "bootstrap"}
  PROVE  LastIn(S)'
BY DEF LastIn

-----------------------------------------------------------------------------
(* The orchestrator.                                                        *)

\* The part of EventsSound that is about it.
HandSound ==
  /\ orch.pc \in {"mark", "emit", "announce"} => orch.event \in Event
  /\ orch.pc \in {"mark", "emit"} =>
       /\ orch.event.type # "request"
       /\ orch.listed <= task.uretry
       /\ orch.event.type = "cancelled" /\ faults = 0 => ~ task.ctr

\* Its steps change the row and what it has to do, and may cost a fault.
LEMMA OrchStep ==
  ASSUME AnnInv, UNCHANGED <<req, queue, dropped, discord>>, task' \in Row, orch' \in Hand,
         UNCHANGED faults \/ Fault,
         task.status = "deleted" <=> task'.status = "deleted", DeletedForGood',
         HandSound', RetryOfferedAfterCleanup', WordsSound'
  PROVE  AnnInv'
<1>1. UNCHANGED <<req, queue, dropped, notifier, thread, threads, told>>
  BY DEF discord
<1>2. faults' \in 0..MaxFaults /\ faults' \in Nat /\ faults' >= faults
  BY Types DEF Fault
<1>3. TypeOK'
  BY <1>1, <1>2 DEF AnnInv, TypeOK, Row, Hand
<1>4. ThreadSound'
  <2>1. task'.status # "deleted" =>
          threads <= faults' + (IF thread \/ notifier.pc = "save" THEN 1 ELSE 0)
    BY <1>2, Types DEF AnnInv, ThreadSound
  <2> QED
    BY <1>1, <2>1 DEF AnnInv, ThreadSound
<1>5. EventsSound'
  BY <1>1 DEF AnnInv, EventsSound, HandSound
<1> QED
  BY <1>3, <1>4, <1>5 DEF AnnInv

\* What Write does, on a row that is there.
LEMMA Written ==
  ASSUME AnnInv, NEW row \in Row, NEW pc \in {"idle", "mark", "emit"},
         NEW event \in Event \cup {NoEvent}, Write(row, pc, event)
  PROVE  /\ task' \in {row, task} /\ task' \in Row /\ orch' \in Hand
         /\ orch'.pc = pc /\ orch'.event = event /\ orch'.listed = task.uretry
         /\ UNCHANGED faults \/ Fault
         /\ faults' = 0 => task' = row /\ faults = 0
<1>1. task.uretry \in 0..MaxUserRetries /\ faults \in Nat /\ task \in Row
  BY Types DEF Row
<1>2. orch' = [pc |-> pc, event |-> event, listed |-> task.uretry]
  BY DEF Write
<1>3. orch' \in Hand /\ orch'.pc = pc /\ orch'.event = event /\ orch'.listed = task.uretry
  BY <1>1, <1>2 DEF Hand
<1>4. (task' = row /\ UNCHANGED faults) \/ (Fault /\ UNCHANGED task)
  BY DEF Write
<1> QED
  BY <1>1, <1>3, <1>4 DEF Fault

\* A statement whose event has no Retry button, or is yet to be marked.
LEMMA WriteKeeps ==
  ASSUME AnnInv, UNCHANGED <<req, queue, dropped, discord>>,
         NEW row \in Row, NEW pc \in {"idle", "mark", "emit"}, NEW event \in Event \cup {NoEvent},
         Write(row, pc, event),
         task.status # "deleted", row.status # "deleted", row.uretry = task.uretry,
         pc # "idle" => /\ event \in Event /\ event.type # "request"
                        /\ event.type = "cancelled" => ~ row.ctr,
         pc = "emit" => ~ event.ready,
         faults = 0 /\ ~ dropped /\ task' = row => EndsSound' /\ (row.uretry = 0 => FirstLifeSound')
  PROVE  AnnInv'
<1>1. /\ task' \in {row, task} /\ task' \in Row /\ orch' \in Hand
      /\ orch'.pc = pc /\ orch'.event = event /\ orch'.listed = task.uretry
      /\ UNCHANGED faults \/ Fault
      /\ faults' = 0 => task' = row /\ faults = 0
  BY Written
<1>2. DeletedForGood'
  BY <1>1 DEF DeletedForGood
<1>3. HandSound'
  BY <1>1, Types DEF HandSound
<1>4. RetryOfferedAfterCleanup'
  BY <1>1 DEF RetryOfferedAfterCleanup
<1>5. WordsSound'
  BY <1>1 DEF WordsSound
<1> QED
  BY <1>1, <1>2, <1>3, <1>4, <1>5, OrchStep

LEMMA DispatchKeeps ==
  ASSUME AnnInv, Dispatch
  PROVE  AnnInv'
<1>1. /\ UNCHANGED <<req, queue, dropped, discord>> /\ orch.pc = "idle" /\ task \in Row
      /\ task.status = "pending"
  BY Types DEF Dispatch, Idle
<1>2. CASE /\ task' = [task EXCEPT !.status = "running", !.ctr = TRUE]
           /\ orch' = [Rest EXCEPT !.pc = "emit", !.event = Says("running")]
           /\ UNCHANGED faults
  <2>1. /\ task' \in Row /\ task'.status = "running" /\ task'.ctr /\ task'.ready = task.ready
        /\ task'.uretry = task.uretry
    BY <1>1, <1>2 DEF Row, Cancellable, Active
  <2>2. Says("running") \in Event /\ Says("running").type = "running" /\ ~ Says("running").ready
    BY SaysTyped DEF EventType
  <2>3. 0 \in 0..MaxUserRetries
    BY Types
  <2>4. orch' = [pc |-> "emit", event |-> Says("running"), listed |-> 0]
    BY <1>2 DEF Rest
  <2>5. orch' \in Hand /\ orch'.pc = "emit" /\ orch'.event = Says("running") /\ orch'.listed = 0
    BY <2>2, <2>3, <2>4 DEF Hand
  <2>6. DeletedForGood' /\ HandSound' /\ RetryOfferedAfterCleanup'
    BY <2>1, <2>2, <2>5, Types DEF DeletedForGood, HandSound, RetryOfferedAfterCleanup
  <2>7. WordsSound'
    BY <1>1, <1>2, <2>1, <2>5 DEF AnnInv, WordsSound, EndsSound, FirstLifeSound, Active, Retryable
  <2> QED
    BY <1>1, <1>2, <2>1, <2>5, <2>6, <2>7, OrchStep
<1>3. CASE Write([task EXCEPT !.status = "failed"], "emit", Says("failed"))
  <2> DEFINE row == [task EXCEPT !.status = "failed"]
  <2>1. /\ row \in Row /\ row.status = "failed" /\ row.ready = task.ready /\ row.uretry = task.uretry
        /\ row.ctr = task.ctr
    BY <1>1 DEF Row, Retryable
  <2> HIDE DEF row
  <2>2. /\ Says("failed") \in Event /\ Says("failed").type = "failed" /\ ~ Says("failed").ready
        /\ Says("failed") \in Failures
    BY SaysTyped DEF EventType, Failures
  <2>3. orch'.pc = "emit" /\ orch'.event = Says("failed")
    BY <1>3, <2>1, <2>2, Written DEF row
  <2>4. faults = 0 /\ ~ dropped /\ task' = row => EndsSound' /\ (row.uretry = 0 => FirstLifeSound')
    BY <1>1, <2>1, <2>2, <2>3
       DEF AnnInv, WordsSound, EndsSound, FirstLifeSound, LastIn, Active, Retryable
  <2> QED
    BY <1>1, <1>3, <2>1, <2>2, <2>4, WriteKeeps DEF row
<1> QED
  BY <1>2, <1>3 DEF Dispatch

LEMMA CompleteKeeps ==
  ASSUME AnnInv, Complete
  PROVE  AnnInv'
<1>1. /\ UNCHANGED <<req, queue, dropped, discord>> /\ orch.pc = "idle" /\ task \in Row
      /\ task.status \in Active
  BY Types DEF Complete, Idle
<1>2. CASE Write([task EXCEPT !.status = "completed"], "emit", Says("completed"))
  <2> DEFINE row == [task EXCEPT !.status = "completed"]
  <2>1. /\ row \in Row /\ row.status = "completed" /\ row.ready = task.ready
        /\ row.uretry = task.uretry /\ row.ctr = task.ctr
    BY <1>1 DEF Row
  <2> HIDE DEF row
  <2>2. /\ Says("completed") \in Event /\ Says("completed").type = "completed"
        /\ ~ Says("completed").ready /\ Says("completed") \in Completions
    BY SaysTyped DEF EventType, Completions
  <2>3. orch'.pc = "emit" /\ orch'.event = Says("completed")
    BY <1>2, <2>1, <2>2, Written DEF row
  <2>4. faults = 0 /\ ~ dropped /\ task' = row => EndsSound' /\ (row.uretry = 0 => FirstLifeSound')
    BY <1>1, <2>1, <2>2, <2>3
       DEF AnnInv, WordsSound, EndsSound, FirstLifeSound, LastIn, Active, Retryable
  <2> QED
    BY <1>1, <1>2, <2>1, <2>2, <2>4, WriteKeeps DEF row, Active
<1>3. ASSUME NEW type \in {"failed", "needs_input"},
             Write([task EXCEPT !.status = "failed"], "mark", Closing(type, task.uretry))
      PROVE  AnnInv'
  <2> DEFINE row == [task EXCEPT !.status = "failed"]
             event == Closing(type, task.uretry)
  <2>1. /\ row \in Row /\ row.status = "failed" /\ row.ready = task.ready
        /\ row.uretry = task.uretry /\ row.ctr = task.ctr
    BY <1>1 DEF Row, Retryable
  <2>2. task.uretry \in 0..MaxUserRetries
    BY <1>1 DEF Row
  <2>3. /\ event \in Event /\ event.type = type /\ event \in Failures
        /\ task.uretry = 0 => event \in FirstFailures
    BY <2>2, ClosingTyped DEF EventType, Failures, FirstFailures
  <2> HIDE DEF row, event
  <2>4. orch'.pc = "mark" /\ orch'.event = event
    BY <1>3, <2>1, <2>3, Written DEF row, event
  <2>5. faults = 0 /\ ~ dropped /\ task' = row => EndsSound' /\ (row.uretry = 0 => FirstLifeSound')
    BY <1>1, <2>1, <2>3, <2>4
       DEF AnnInv, WordsSound, EndsSound, FirstLifeSound, LastIn, Active, Retryable
  <2> QED
    BY <1>1, <1>3, <2>1, <2>3, <2>5, WriteKeeps DEF row, event, Active
<1> QED
  BY <1>2, <1>3 DEF Complete

LEMMA RequeueKeeps ==
  ASSUME AnnInv, Requeue
  PROVE  AnnInv'
<1> DEFINE row == [task EXCEPT !.status = "pending", !.ctr = FALSE, !.ready = FALSE]
<1>1. /\ UNCHANGED <<req, queue, dropped, discord>> /\ orch.pc = "idle" /\ task \in Row
      /\ task.status \in Active /\ Write(row, "idle", NoEvent)
  BY Types DEF Requeue, Idle
<1>2. /\ row \in Row /\ row.status = "pending" /\ ~ row.ready
      /\ row.uretry = task.uretry
  BY <1>1 DEF Row, Cancellable
<1> HIDE DEF row
<1>3. orch'.pc = "idle"
  BY <1>1, <1>2, Written
<1>4. faults = 0 /\ ~ dropped /\ task' = row => EndsSound' /\ (row.uretry = 0 => FirstLifeSound')
  BY <1>1, <1>2, <1>3 DEF AnnInv, WordsSound, EndsSound, FirstLifeSound, Active, Retryable
<1> QED
  BY <1>1, <1>2, <1>4, WriteKeeps DEF Active

LEMMA PromoteKeeps ==
  ASSUME AnnInv, Promote
  PROVE  AnnInv'
<1> DEFINE row == [task EXCEPT !.status = "running"]
<1>1. /\ UNCHANGED <<req, queue, dropped, discord>> /\ orch.pc = "idle" /\ task \in Row
      /\ task.status = "recovering" /\ Write(row, "emit", Says("running"))
  BY Types DEF Promote, Idle
<1>2. /\ row \in Row /\ row.status = "running" /\ row.ready = task.ready
      /\ row.uretry = task.uretry /\ row.ctr = task.ctr
  BY <1>1 DEF Row, Cancellable, Active
<1> HIDE DEF row
<1>3. Says("running") \in Event /\ Says("running").type = "running" /\ ~ Says("running").ready
  BY SaysTyped DEF EventType
<1>4. orch'.pc = "emit"
  BY <1>1, <1>2, <1>3, Written
<1>5. faults = 0 /\ ~ dropped /\ task' = row => EndsSound' /\ (row.uretry = 0 => FirstLifeSound')
  BY <1>1, <1>2, <1>4 DEF AnnInv, WordsSound, EndsSound, FirstLifeSound, Active, Retryable
<1> QED
  BY <1>1, <1>2, <1>3, <1>5, WriteKeeps

LEMMA CleanUpKeeps ==
  ASSUME AnnInv, CleanUp
  PROVE  AnnInv'
<1> DEFINE row == [task EXCEPT !.ctr = FALSE]
           event == Closing("cancelled", task.uretry)
<1>1. /\ UNCHANGED <<req, queue, dropped, discord>> /\ orch.pc = "idle" /\ task \in Row
      /\ task.status = "cancelled" /\ Write(row, "mark", event)
  BY Types DEF CleanUp, Idle
<1>2. /\ row \in Row /\ row.status = "cancelled" /\ row.ready = task.ready
      /\ row.uretry = task.uretry /\ ~ row.ctr
  BY <1>1 DEF Row
<1>3. task.uretry \in 0..MaxUserRetries
  BY <1>1 DEF Row
<1>4. /\ event \in Event /\ event.type = "cancelled"
      /\ task.uretry = 0 => event \in FirstCleanUp
  BY <1>3, ClosingTyped DEF EventType, FirstCleanUp
<1> HIDE DEF row, event
<1>5. orch'.pc = "mark" /\ orch'.event = event
  BY <1>1, <1>2, <1>4, Written
<1>6. faults = 0 /\ ~ dropped /\ task' = row => EndsSound' /\ (row.uretry = 0 => FirstLifeSound')
  BY <1>1, <1>2, <1>4, <1>5
     DEF AnnInv, WordsSound, EndsSound, FirstLifeSound, LastIn, Active, Retryable
<1> QED
  BY <1>1, <1>2, <1>4, <1>6, WriteKeeps

LEMMA RecoverKeeps ==
  ASSUME AnnInv, Recover
  PROVE  AnnInv'
<1>1. /\ UNCHANGED <<req, queue, dropped, discord>> /\ orch.pc = "recover" /\ task \in Row
  BY Types DEF Recover
<1>2. ~ (faults = 0 /\ ~ dropped)
  BY <1>1 DEF AnnInv, WordsSound, EndsSound
<1>3. CASE task.status = "running"
  <2> DEFINE row == [task EXCEPT !.status = "recovering"]
  <2>1. Write(row, "emit", Says("recovering"))
    BY <1>3 DEF Recover
  <2>2. row \in Row /\ row.status = "recovering" /\ row.uretry = task.uretry
    BY <1>1 DEF Row, Cancellable, Active
  <2> HIDE DEF row
  <2>3. /\ Says("recovering") \in Event /\ Says("recovering").type = "recovering"
        /\ ~ Says("recovering").ready
    BY SaysTyped DEF EventType
  <2> QED
    BY <1>1, <1>2, <1>3, <2>1, <2>2, <2>3, WriteKeeps
<1>4. CASE task.status # "running"
  <2>1. UNCHANGED <<task, faults>> /\ orch' = Rest
    BY <1>4 DEF Recover
  <2>2. Rest \in Hand /\ Rest.pc = "idle"
    <3>1. 0 \in 0..MaxUserRetries
      BY Types
    <3> QED
      BY <3>1 DEF Rest, Hand
  <2>3. DeletedForGood' /\ HandSound' /\ RetryOfferedAfterCleanup' /\ WordsSound'
    BY <1>1, <1>2, <2>1, <2>2
       DEF AnnInv, DeletedForGood, HandSound, RetryOfferedAfterCleanup, WordsSound
  <2> QED
    BY <1>1, <2>1, <2>2, <2>3, OrchStep
<1> QED
  BY <1>3, <1>4

LEMMA InterruptKeeps ==
  ASSUME AnnInv, Interrupt
  PROVE  AnnInv'
<1>1. /\ UNCHANGED <<req, queue, dropped, discord>> /\ UNCHANGED <<task, faults>> /\ task \in Row
      /\ task.status = "running"
      /\ orch' = [Rest EXCEPT !.pc = "announce", !.event = Says("interrupted")]
  BY Types DEF Interrupt, Idle
<1>2. Says("interrupted") \in Event /\ 0 \in 0..MaxUserRetries
  BY SaysTyped, Types DEF EventType
<1>3. orch' \in Hand /\ orch'.pc = "announce" /\ orch'.event \in Event
  BY <1>1, <1>2 DEF Rest, Hand
<1>4. DeletedForGood' /\ HandSound' /\ RetryOfferedAfterCleanup'
  BY <1>1, <1>3 DEF AnnInv, DeletedForGood, HandSound, RetryOfferedAfterCleanup
<1>5. WordsSound'
  BY <1>1, <1>3 DEF AnnInv, WordsSound, EndsSound, FirstLifeSound, Retryable
<1> QED
  BY <1>1, <1>3, <1>4, <1>5, OrchStep

LEMMA RestTyped == Rest \in Hand /\ Rest.pc = "idle"
<1>1. 0 \in 0..MaxUserRetries
  BY AnnouncementsAssumption
<1> QED
  BY <1>1 DEF Rest, Hand

LEMMA RequeueInterruptedKeeps ==
  ASSUME AnnInv, RequeueInterrupted
  PROVE  AnnInv'
<1>1. /\ UNCHANGED <<req, queue, dropped, discord>> /\ task \in Row
      /\ orch.pc = "requeue" /\ orch' = Rest /\ orch' \in Hand /\ orch'.pc = "idle"
      /\ (UNCHANGED faults \/ Fault)
  BY Types, RestTyped DEF RequeueInterrupted
<1>2. /\ task' \in Row /\ (task'.status = "deleted" <=> task.status = "deleted")
      /\ (task'.ready => task.ready) /\ task'.uretry = task.uretry
      /\ faults' = 0 => faults = 0 /\ task'.status \in {"pending", "deleted"}
  <2> DEFINE row == [task EXCEPT !.status = "pending", !.ctr = FALSE, !.ready = FALSE]
  <2>1. /\ row \in Row /\ row.status = "pending" /\ ~ row.ready
        /\ row.uretry = task.uretry
    BY <1>1 DEF Row, Cancellable
  <2>2. \/ task' = task /\ (task.status = "deleted" \/ Fault) /\ (UNCHANGED faults \/ Fault)
        \/ task' = row /\ task.status # "deleted" /\ UNCHANGED faults
    BY DEF RequeueInterrupted
  <2> HIDE DEF row
  <2> QED
    BY <1>1, <2>1, <2>2, Types DEF Fault
<1>3. DeletedForGood' /\ HandSound' /\ RetryOfferedAfterCleanup'
  BY <1>1, <1>2 DEF AnnInv, DeletedForGood, HandSound, RetryOfferedAfterCleanup
<1>4. WordsSound'
  BY <1>1, <1>2 DEF AnnInv, WordsSound, EndsSound, FirstLifeSound, Active, Retryable
<1> QED
  BY <1>1, <1>2, <1>3, <1>4, OrchStep

\* The flag makes what is about to be said true.
LEMMA MarkKeeps ==
  ASSUME AnnInv, Mark
  PROVE  AnnInv'
<1>1. /\ UNCHANGED <<req, queue, dropped, discord>> /\ task \in Row /\ orch \in Hand
      /\ orch.pc = "mark" /\ (UNCHANGED faults \/ Fault)
      /\ orch' = [orch EXCEPT !.pc = "emit"]
  BY Types DEF Mark
<1>2. /\ orch' \in Hand /\ orch'.pc = "emit" /\ orch'.event = orch.event
      /\ orch'.listed = orch.listed
  BY <1>1 DEF Hand
<1>3. /\ task' \in Row /\ task'.status = task.status /\ task'.ctr = task.ctr
      /\ task'.uretry = task.uretry
      /\ task.status = "deleted" => ~ task'.ready
      /\ faults' = 0 => faults = 0 /\ (task'.ready <=> task.status # "deleted")
  <2> DEFINE flag == task.status # "deleted"
             row == [task EXCEPT !.ready = flag]
  <2>1. flag \in BOOLEAN
    OBVIOUS
  <2>2. (task' = row /\ UNCHANGED faults) \/ (Fault /\ UNCHANGED task)
    BY DEF Mark
  <2> HIDE DEF flag
  <2>3. /\ row \in Row /\ row.status = task.status /\ row.ready = flag
        /\ row.uretry = task.uretry /\ row.ctr = task.ctr
    BY <1>1, <2>1 DEF Row
  <2> HIDE DEF row
  <2>4. faults' = 0 => faults = 0 /\ task' = row
    BY <2>2, Types DEF Fault
  <2>5. task.status = "deleted" => ~ task.ready
    BY DEF AnnInv, DeletedForGood
  <2> QED
    BY <1>1, <2>2, <2>3, <2>4, <2>5 DEF flag
<1>4. DeletedForGood' /\ HandSound'
  BY <1>1, <1>2, <1>3 DEF AnnInv, EventsSound, DeletedForGood, HandSound
<1>5. RetryOfferedAfterCleanup'
  BY <1>1, <1>2, <1>3 DEF AnnInv, EventsSound, RetryOfferedAfterCleanup
<1>6. WordsSound'
  <2>1. \A S : LastIn(S) => LastIn(S)'
    BY <1>1, <1>2, WordStays DEF discord
  <2>2. LastIn(FirstFailures)' <=> orch.event \in FirstFailures
    BY <1>2 DEF LastIn
  <2>3. LastIn(FirstCleanUp)' <=> orch.event \in FirstCleanUp
    BY <1>2 DEF LastIn
  <2> QED
    BY <1>1, <1>2, <1>3, <2>1, <2>2, <2>3
       DEF AnnInv, WordsSound, EndsSound, FirstLifeSound, Active, Retryable
<1> QED
  BY <1>1, <1>2, <1>3, <1>4, <1>5, <1>6, OrchStep

-----------------------------------------------------------------------------
(* The bus.                                                                 *)

LEMMA Emitted ==
  ASSUME AnnInv, NEW e \in Event, Emit(e)
  PROVE  /\ queue' \in Seq(Event) /\ Len(queue') <= BufferSize /\ dropped' \in BOOLEAN
         /\ ~ dropped' => ~ dropped /\ queue' = Append(queue, e)
<1>1. queue \in Seq(Event) /\ Len(queue) \in Nat /\ BufferSize \in Nat /\ Len(queue) <= BufferSize
  BY Types, AnnouncementsAssumption DEF AnnInv, TypeOK
<1>2. CASE Len(queue) < BufferSize
  <2>1. queue' = Append(queue, e) /\ dropped' = dropped
    BY <1>2 DEF Emit
  <2>2. Append(queue, e) \in Seq(Event) /\ Len(Append(queue, e)) = Len(queue) + 1
    BY <1>1
  <2> QED
    BY <1>1, <1>2, <2>1, <2>2, Types
<1>3. CASE ~ (Len(queue) < BufferSize)
  BY <1>1, <1>3 DEF Emit
<1> QED
  BY <1>2, <1>3

LEMMA AnnounceKeeps ==
  ASSUME AnnInv, Announce
  PROVE  AnnInv'
<1>1. /\ UNCHANGED <<task, req, notifier, thread, threads, told, faults>>
      /\ orch.pc \in {"emit", "announce"} /\ Emit(orch.event) /\ orch \in Hand
      /\ orch' = IF orch.pc = "announce" THEN [orch EXCEPT !.pc = "requeue"] ELSE Rest
  BY Types DEF Announce, discord
<1>2. orch' \in Hand /\ orch'.pc = IF orch.pc = "announce" THEN "requeue" ELSE "idle"
  BY <1>1, RestTyped DEF Hand
<1>3. orch.event \in Event
  BY <1>1 DEF AnnInv, EventsSound
<1>4. /\ queue' \in Seq(Event) /\ Len(queue') <= BufferSize /\ dropped' \in BOOLEAN
      /\ ~ dropped' => ~ dropped /\ queue' = Append(queue, orch.event)
  BY <1>1, <1>3, Emitted
<1>5. TypeOK'
  BY <1>1, <1>2, <1>4 DEF AnnInv, TypeOK, Hand
<1>6. ThreadSound' /\ DeletedForGood'
  BY <1>1 DEF AnnInv, ThreadSound, DeletedForGood
<1>7. EventsSound' /\ RetryOfferedAfterCleanup'
  BY <1>1, <1>2 DEF AnnInv, EventsSound, RetryOfferedAfterCleanup
<1>8. WordsSound'
  <2> SUFFICES ASSUME faults = 0, ~ dropped'
               PROVE  EndsSound' /\ (task.uretry = 0 => FirstLifeSound')
    BY <1>1 DEF WordsSound
  <2>1. EndsSound /\ (task.uretry = 0 => FirstLifeSound)
    BY <1>4 DEF AnnInv, WordsSound
  <2>2. ASSUME NEW S, LastIn(S), orch.pc = "emit"
        PROVE  LastIn(S)'
    BY <1>2, <1>4, <2>2, WordSaid
  <2>3. CASE orch.pc = "emit"
    BY <1>1, <1>2, <2>1, <2>2, <2>3 DEF EndsSound, FirstLifeSound
  <2>4. CASE orch.pc = "announce"
    BY <1>1, <1>2, <2>1, <2>4 DEF EndsSound, FirstLifeSound, Retryable
  <2> QED
    BY <1>1, <2>3, <2>4
<1> QED
  BY <1>5, <1>6, <1>7, <1>8 DEF AnnInv

-----------------------------------------------------------------------------
(* Requests.                                                                *)

\* The row changes in ways that say nothing of an end, and never back from
\* deleted.
RowGoes ==
  /\ task' \in Row
  /\ task.status = "deleted" => task'.status = "deleted"
  /\ task'.status = "deleted" => ~ task'.ready
  /\ task'.ctr => task.ctr
  /\ task'.uretry \in Nat /\ task'.uretry >= task.uretry
  /\ task'.ready = task.ready \/ task'.uretry > task.uretry \/ task'.status = "deleted"
  /\ \/ task' = task \/ task'.status \in {"pending", "deleted"}
     \/ task'.status = "cancelled" /\ task'.ctr = task.ctr
  /\ task' # task /\ task'.status = "pending" /\ faults = 0 /\ ~ dropped =>
       task'.uretry > 0 \/ (~ task.ready /\ orch.pc # "mark")

\* A handler goes on to its statement, to its event, or ends.
ReqGoes(r) ==
  \E q \in InFlight : /\ req' = [req EXCEPT ![r] = q]
                      /\ q.pc = "emit" => q.event = Says("request")

LEMMA RequestStep ==
  ASSUME AnnInv, UNCHANGED <<orch, queue, dropped, notifier, threads, told, faults>>,
         RowGoes, NEW r \in Request, ReqGoes(r),
         UNCHANGED thread \/ (task'.status = "deleted" /\ thread' = FALSE)
  PROVE  AnnInv'
<1>0. PICK q \in InFlight : req' = [req EXCEPT ![r] = q] /\ (q.pc = "emit" => q.event = Says("request"))
  BY DEF ReqGoes
<1>1. req' \in [Request -> InFlight] /\ \A s \in Request : req'[s] = IF s = r THEN q ELSE req[s]
  BY <1>0, Types
<1>2. thread' \in BOOLEAN
  BY Types
<1>3. TypeOK'
  BY <1>1, <1>2 DEF AnnInv, TypeOK, Row, InFlight, RowGoes
<1>4. ThreadSound' /\ DeletedForGood'
  BY Types DEF AnnInv, ThreadSound, DeletedForGood, RowGoes
<1>5. EventsSound'
  BY <1>0, <1>1, Types DEF AnnInv, EventsSound, RowGoes
<1>6. RetryOfferedAfterCleanup'
  BY Types DEF AnnInv, EventsSound, RetryOfferedAfterCleanup, RowGoes
<1>7. WordsSound'
  <2> SUFFICES ASSUME faults = 0, ~ dropped
               PROVE  EndsSound' /\ (task'.uretry = 0 => FirstLifeSound')
    BY DEF WordsSound
  <2>1. EndsSound /\ (task.uretry = 0 => FirstLifeSound)
    BY DEF AnnInv, WordsSound
  <2>2. ASSUME NEW S, LastIn(S)
        PROVE  LastIn(S)'
    BY <2>2, WordStays
  <2>3. task'.uretry = 0 => task.uretry = 0
    BY Types DEF RowGoes
  <2>4. EndsSound'
    BY <2>1, <2>2 DEF EndsSound, RowGoes
  <2>5. task'.uretry = 0 => FirstLifeSound'
    BY <2>1, <2>2, <2>3 DEF FirstLifeSound, Active, Retryable, RowGoes
  <2> QED
    BY <2>4, <2>5
<1> QED
  BY <1>3, <1>4, <1>5, <1>6, <1>7 DEF AnnInv

LEMMA FreeTyped ==
  /\ [pc |-> "free", event |-> NoEvent] \in InFlight
  /\ \A op \in {"cancel", "delete", "retry", "discord"} :
       [pc |-> op, event |-> NoEvent] \in InFlight
  /\ [pc |-> "emit", event |-> Says("request")] \in InFlight
  /\ Says("request") \in Event /\ Says("request") # NoEvent
<1>1. Says("request") \in Event /\ Says("request") # NoEvent
  BY SaysTyped DEF EventType
<1> QED
  BY <1>1 DEF InFlight

LEMMA BeginKeeps ==
  ASSUME AnnInv, NEW r \in Request, NEW op \in {"cancel", "delete", "retry", "discord"}, Begin(r, op)
  PROVE  AnnInv'
<1>1. UNCHANGED <<task, orch, queue, dropped, notifier, thread, threads, told, faults>>
  BY DEF Begin, discord
<1>2. ReqGoes(r)
  BY FreeTyped DEF Begin, ReqGoes
<1>3. RowGoes
  BY <1>1, Types DEF AnnInv, DeletedForGood, RowGoes
<1> QED
  BY <1>1, <1>2, <1>3, RequestStep

LEMMA FinishStep ==
  ASSUME AnnInv, NEW r \in Request, NEW row, NEW event \in {NoEvent, Says("request")},
         Finish(r, row, event)
  PROVE  /\ task' = row /\ UNCHANGED <<orch, queue, dropped, notifier, thread, threads, told, faults>>
         /\ ReqGoes(r)
<1> DEFINE q == [pc |-> IF event = NoEvent THEN "free" ELSE "emit", event |-> event]
<1>1. q \in InFlight /\ (q.pc = "emit" => q.event = Says("request"))
  BY FreeTyped
<1>2. req' = [req EXCEPT ![r] = q]
  BY DEF Finish
<1> HIDE DEF q
<1>3. ReqGoes(r)
  BY <1>1, <1>2 DEF ReqGoes
<1> QED
  BY <1>3 DEF Finish, discord

LEMMA CreateKeeps ==
  ASSUME AnnInv, NEW r \in Request, Create(r)
  PROVE  AnnInv'
<1> DEFINE row == [task EXCEPT !.status = "pending"]
<1>1. /\ row \in Row /\ row.status = "pending" /\ row.ready = task.ready
      /\ row.uretry = task.uretry /\ row.ctr = task.ctr /\ task.status = "none"
  BY Types DEF Row, Cancellable, Create
<1>2. Finish(r, row, Says("request"))
  BY DEF Create
<1> HIDE DEF row
<1>3. /\ task' = row /\ UNCHANGED <<orch, queue, dropped, notifier, thread, threads, told, faults>>
      /\ ReqGoes(r)
  BY <1>2, FinishStep
<1>4. faults = 0 /\ ~ dropped => task.uretry > 0 \/ (~ task.ready /\ orch.pc # "mark")
  BY <1>1, Types DEF AnnInv, WordsSound, FirstLifeSound, Retryable
<1>5. RowGoes
  BY <1>1, <1>3, <1>4, Types DEF RowGoes
<1> QED
  BY <1>3, <1>5, RequestStep

LEMMA FinishCancelKeeps ==
  ASSUME AnnInv, NEW r \in Request, FinishCancel(r)
  PROVE  AnnInv'
<1> DEFINE row == IF task.status = "deleted" THEN task ELSE [task EXCEPT !.status = "cancelled"]
<1>1. /\ row \in Row /\ row.ready = task.ready /\ row.uretry = task.uretry /\ row.ctr = task.ctr
      /\ row.status = (IF task.status = "deleted" THEN "deleted" ELSE "cancelled")
  BY Types DEF Row, Retryable
<1>2. Finish(r, row, Says("request"))
  BY DEF FinishCancel
<1> HIDE DEF row
<1>3. /\ task' = row /\ UNCHANGED <<orch, queue, dropped, notifier, thread, threads, told, faults>>
      /\ ReqGoes(r)
  BY <1>2, FinishStep
<1>4. RowGoes
  BY <1>1, <1>3, Types DEF AnnInv, DeletedForGood, RowGoes
<1> QED
  BY <1>3, <1>4, RequestStep

LEMMA FinishDeleteKeeps ==
  ASSUME AnnInv, NEW r \in Request, FinishDelete(r)
  PROVE  AnnInv'
<1>1. /\ task' \in Row /\ task'.status = "deleted" /\ ~ task'.ready /\ ~ task'.ctr
      /\ task'.uretry = task.uretry
  BY Types DEF Row, FinishDelete
<1>2. UNCHANGED <<orch, queue, dropped, notifier, threads, told, faults>> /\ thread' = FALSE
  BY DEF FinishDelete
<1>3. ReqGoes(r)
  BY FreeTyped DEF FinishDelete, ReqGoes
<1>4. RowGoes
  BY <1>1, Types DEF RowGoes
<1> QED
  BY <1>1, <1>2, <1>3, <1>4, RequestStep

LEMMA FinishRetryKeeps ==
  ASSUME AnnInv, NEW r \in Request, FinishRetry(r)
  PROVE  AnnInv'
<1>1. CASE task.ready /\ task.uretry < MaxUserRetries
  <2> DEFINE n == task.uretry + 1
             row == [task EXCEPT !.status = "pending", !.ctr = FALSE, !.ready = FALSE, !.uretry = n]
  <2>1. n \in 0..MaxUserRetries /\ n \in Nat /\ n > task.uretry /\ n >= task.uretry /\ n > 0
    BY <1>1, Types
  <2>2. PICK event \in {NoEvent, Says("request")} : Finish(r, row, event)
    BY <1>1 DEF FinishRetry
  <2> HIDE DEF n
  <2>3. /\ row \in Row /\ row.status = "pending" /\ ~ row.ctr /\ ~ row.ready /\ row.uretry = n
    BY <2>1, Types DEF Row, Cancellable
  <2> HIDE DEF row
  <2>4. /\ task' = row /\ UNCHANGED <<orch, queue, dropped, notifier, thread, threads, told, faults>>
        /\ ReqGoes(r)
    BY <2>2, FinishStep
  <2>5. RowGoes
    BY <1>1, <2>1, <2>3, <2>4 DEF AnnInv, DeletedForGood, RowGoes
  <2> QED
    BY <2>4, <2>5, RequestStep
<1>2. CASE ~ (task.ready /\ task.uretry < MaxUserRetries)
  <2>1. /\ task' = task /\ UNCHANGED <<orch, queue, dropped, notifier, thread, threads, told, faults>>
        /\ ReqGoes(r)
    BY <1>2, FinishStep DEF FinishRetry
  <2>2. RowGoes
    BY <2>1, Types DEF AnnInv, DeletedForGood, RowGoes
  <2> QED
    BY <2>1, <2>2, RequestStep
<1> QED
  BY <1>1, <1>2

LEMMA AnswerRequestKeeps ==
  ASSUME AnnInv, NEW r \in Request, AnswerRequest(r)
  PROVE  AnnInv'
<1>1. /\ UNCHANGED <<task, orch, notifier, thread, threads, told, faults>>
      /\ req[r].pc = "emit" /\ Emit(req[r].event)
      /\ req' = [req EXCEPT ![r] = [pc |-> "free", event |-> NoEvent]]
  BY DEF AnswerRequest, discord
<1>2. req[r].event = Says("request") /\ Says("request") \in Event
  BY <1>1, FreeTyped DEF AnnInv, EventsSound
<1>3. /\ queue' \in Seq(Event) /\ Len(queue') <= BufferSize /\ dropped' \in BOOLEAN
      /\ ~ dropped' => ~ dropped /\ queue' = Append(queue, Says("request"))
  BY <1>1, <1>2, Emitted
<1>4. /\ req' \in [Request -> InFlight]
      /\ \A s \in Request : req'[s].pc = "emit" => req'[s] = req[s]
  BY <1>1, FreeTyped, Types
<1>5. TypeOK'
  BY <1>1, <1>3, <1>4 DEF AnnInv, TypeOK, InFlight
<1>6. ThreadSound' /\ DeletedForGood' /\ RetryOfferedAfterCleanup'
  BY <1>1 DEF AnnInv, ThreadSound, DeletedForGood, RetryOfferedAfterCleanup
<1>7. EventsSound'
  BY <1>1, <1>4 DEF AnnInv, EventsSound
<1>8. WordsSound'
  <2> SUFFICES ASSUME faults = 0, ~ dropped'
               PROVE  EndsSound' /\ (task.uretry = 0 => FirstLifeSound')
    BY <1>1 DEF WordsSound
  <2>1. EndsSound /\ (task.uretry = 0 => FirstLifeSound)
    BY <1>3 DEF AnnInv, WordsSound
  <2>2. ASSUME NEW S, LastIn(S)
        PROVE  LastIn(S)'
    BY <1>1, <1>3, <2>2, RequestSaid
  <2> QED
    BY <1>1, <2>1, <2>2 DEF EndsSound, FirstLifeSound
<1> QED
  BY <1>5, <1>6, <1>7, <1>8 DEF AnnInv

-----------------------------------------------------------------------------
(* The notifier.                                                            *)

\* The orchestrator's last word is not lost on its way.
Carried == \A S : LastIn(S) /\ (\A e \in S : e.type # "request") => LastIn(S)'

LEMMA NotifierStep ==
  ASSUME AnnInv, UNCHANGED <<task, orch, req, dropped>>,
         queue' \in Seq(Event), Len(queue') <= BufferSize, notifier' \in Notification,
         thread' \in BOOLEAN, threads' \in Nat, told' \in Event \cup {NoEvent},
         UNCHANGED faults \/ Fault, ThreadSound', faults' = 0 => Carried
  PROVE  AnnInv'
<1>1. faults' \in 0..MaxFaults /\ (faults' = 0 => faults = 0)
  BY Types DEF Fault
<1>2. TypeOK'
  BY <1>1 DEF AnnInv, TypeOK, Notification
<1>3. DeletedForGood' /\ EventsSound' /\ RetryOfferedAfterCleanup'
  BY <1>1 DEF AnnInv, DeletedForGood, EventsSound, RetryOfferedAfterCleanup
<1>4. WordsSound'
  <2> SUFFICES ASSUME faults' = 0, ~ dropped
               PROVE  EndsSound' /\ (task.uretry = 0 => FirstLifeSound')
    BY DEF WordsSound
  <2>1. EndsSound /\ (task.uretry = 0 => FirstLifeSound)
    BY <1>1 DEF AnnInv, WordsSound
  <2>2. /\ LastIn(Completions) => LastIn(Completions)'
        /\ LastIn(Failures) => LastIn(Failures)'
        /\ LastIn(FirstFailures) => LastIn(FirstFailures)'
        /\ LastIn(FirstCleanUp) => LastIn(FirstCleanUp)'
    <3>1. ASSUME NEW S, LastIn(S), \A e \in S : e.type # "request"
          PROVE  LastIn(S)'
      BY <3>1 DEF Carried
    <3> QED
      BY <3>1, Words
  <2> QED
    BY <2>1, <2>2 DEF EndsSound, FirstLifeSound
<1> QED
  BY <1>2, <1>3, <1>4 DEF AnnInv, ThreadSound

LEMMA NotifierTyped ==
  /\ [pc |-> "idle", event |-> NoEvent] \in Notification
  /\ \A pc \in {"post", "bootstrap"}, e \in Event : [pc |-> pc, event |-> e] \in Notification
BY DEF Notification

LEMMA DeliverKeeps ==
  ASSUME AnnInv, Deliver
  PROVE  AnnInv'
<1>1. /\ notifier.pc = "idle" /\ queue # <<>> /\ queue' = Tail(queue)
      /\ UNCHANGED <<task, orch, req, dropped, thread, threads, told>>
      /\ \/ notifier' = [pc |-> IF thread THEN "post" ELSE "bootstrap", event |-> Head(queue)]
            /\ UNCHANGED faults
         \/ Notified /\ Fault
  BY DEF Deliver
<1>2. /\ queue' \in Seq(Event) /\ Len(queue') <= BufferSize /\ Head(queue) \in Event
  <2>1. queue \in Seq(Event) /\ Len(queue) \in Nat /\ BufferSize \in Nat /\ Len(queue) <= BufferSize
    BY Types, AnnouncementsAssumption DEF AnnInv, TypeOK
  <2>2. Tail(queue) \in Seq(Event) /\ Len(Tail(queue)) = Len(queue) - 1 /\ Head(queue) \in Event
    BY <1>1, <2>1
  <2> QED
    BY <1>1, <2>1, <2>2
<1>3. /\ notifier' \in Notification /\ (UNCHANGED faults \/ Fault)
      /\ notifier'.pc \in {"idle", "post", "bootstrap"}
      /\ notifier'.pc = "bootstrap" => ~ thread
  BY <1>1, <1>2, NotifierTyped DEF Notified
<1>4. ThreadSound'
  BY <1>1, <1>3, Types DEF AnnInv, ThreadSound, Fault
<1>5. ASSUME faults' = 0
      PROVE  Carried
  <2>1. notifier'.pc \in {"post", "bootstrap"} /\ notifier'.event = Head(queue)
    BY <1>1, <1>5, Types DEF Fault
  <2>2. ASSUME NEW S, LastIn(S), \A e \in S : e.type # "request"
        PROVE  LastIn(S)'
    BY <1>1, <2>1, <2>2, WordDelivered
  <2> QED
    BY <2>2 DEF Carried
<1> QED
  BY <1>1, <1>2, <1>3, <1>4, <1>5, Types, NotifierStep

LEMMA PostThreadEventKeeps ==
  ASSUME AnnInv, PostThreadEvent
  PROVE  AnnInv'
<1>1. /\ UNCHANGED <<task, orch, req, queue, dropped, thread, threads>> /\ notifier.pc = "post"
      /\ Notified /\ ((Posted /\ UNCHANGED faults) \/ Fault) /\ (Posted \/ UNCHANGED told)
  BY DEF PostThreadEvent, Unposted
<1>2. notifier' \in Notification /\ notifier'.pc = "idle"
  BY <1>1, NotifierTyped DEF Notified
<1>3. told' \in Event \cup {NoEvent}
  BY <1>1, Types DEF Posted, Notification
<1>4. ThreadSound'
  BY <1>1, <1>2, Types DEF AnnInv, ThreadSound, Fault
<1>5. ASSUME faults' = 0
      PROVE  Carried
  <2>1. Posted
    BY <1>1, <1>5, Types DEF Fault
  <2>2. ASSUME NEW S, LastIn(S)
        PROVE  LastIn(S)'
    BY <1>1, <1>2, <2>1, <2>2, WordTold
  <2> QED
    BY <2>2 DEF Carried
<1>6. queue' \in Seq(Event) /\ Len(queue') <= BufferSize
  BY <1>1 DEF AnnInv, TypeOK
<1> QED
  BY <1>1, <1>2, <1>3, <1>4, <1>5, <1>6, Types, NotifierStep

LEMMA CreateRootKeeps ==
  ASSUME AnnInv, CreateRoot
  PROVE  AnnInv'
<1>1. /\ UNCHANGED <<task, orch, req, queue, dropped, thread, threads>> /\ notifier.pc = "bootstrap"
      /\ Notified \/ notifier' = [notifier EXCEPT !.pc = "start"]
      /\ (Posted /\ UNCHANGED faults) \/ Fault
      /\ Posted \/ UNCHANGED told
  BY DEF CreateRoot, Unposted
<1>2. notifier' \in Notification /\ notifier'.pc \in {"idle", "start"}
  BY <1>1, NotifierTyped, Types DEF Notified, Notification
<1>3. told' \in Event \cup {NoEvent}
  BY <1>1, Types DEF Posted, Notification
<1>4. ThreadSound'
  BY <1>1, <1>2, Types DEF AnnInv, ThreadSound, Fault
<1>5. ASSUME faults' = 0
      PROVE  Carried
  <2>1. Posted
    BY <1>1, <1>5, Types DEF Fault
  <2>2. ASSUME NEW S, LastIn(S)
        PROVE  LastIn(S)'
    BY <1>1, <1>2, <2>1, <2>2, WordTold
  <2> QED
    BY <2>2 DEF Carried
<1>6. queue' \in Seq(Event) /\ Len(queue') <= BufferSize
  BY <1>1 DEF AnnInv, TypeOK
<1> QED
  BY <1>1, <1>2, <1>3, <1>4, <1>5, <1>6, Types, NotifierStep

\* A thread that was started is one more, for a fault or for the row to come.
LEMMA StartThreadKeeps ==
  ASSUME AnnInv, StartThread
  PROVE  AnnInv'
<1>1. /\ UNCHANGED <<task, orch, req, queue, dropped, thread, told>> /\ notifier.pc = "start"
      /\ \/ /\ threads' = threads + 1 /\ UNCHANGED faults
            /\ notifier' = [notifier EXCEPT !.pc = "save"]
         \/ threads' \in {threads, threads + 1} /\ Notified /\ Fault
  BY DEF StartThread
<1>2. /\ notifier' \in Notification /\ threads' \in Nat /\ threads' <= threads + 1
      /\ (notifier'.pc = "save" /\ UNCHANGED faults) \/ (notifier'.pc = "idle" /\ Fault)
  BY <1>1, NotifierTyped, Types DEF Notified, Notification
<1>3. ThreadSound'
  BY <1>1, <1>2, Types DEF AnnInv, ThreadSound, Fault
<1>4. Carried
  <2>1. ASSUME NEW S, LastIn(S)
        PROVE  LastIn(S)'
    BY <1>1, <1>2, <2>1, WordWasTold
  <2> QED
    BY <2>1 DEF Carried
<1>5. queue' \in Seq(Event) /\ Len(queue') <= BufferSize
  BY <1>1 DEF AnnInv, TypeOK
<1> QED
  BY <1>1, <1>2, <1>3, <1>4, <1>5, Types, NotifierStep

LEMMA SaveThreadKeeps ==
  ASSUME AnnInv, SaveThread
  PROVE  AnnInv'
<1>1. /\ UNCHANGED <<task, orch, req, queue, dropped, threads, told>> /\ notifier.pc = "save"
      /\ Notified
      /\ \/ thread' = (task.status # "deleted") /\ UNCHANGED faults
         \/ Fault /\ UNCHANGED thread
  BY DEF SaveThread
<1>2. notifier' \in Notification /\ notifier'.pc = "idle"
  BY <1>1, NotifierTyped DEF Notified
<1>3. /\ thread' \in BOOLEAN
      /\ (UNCHANGED faults /\ (task.status # "deleted" => thread')) \/ (Fault /\ UNCHANGED thread)
  <2> DEFINE stored == task.status # "deleted"
  <2>1. stored \in BOOLEAN /\ (task.status # "deleted" => stored)
    OBVIOUS
  <2>2. (thread' = stored /\ UNCHANGED faults) \/ (Fault /\ UNCHANGED thread)
    BY <1>1
  <2> HIDE DEF stored
  <2> QED
    BY <2>1, <2>2, Types
<1>4. ThreadSound'
  BY <1>1, <1>2, <1>3, Types DEF AnnInv, ThreadSound, Fault
<1>5. Carried
  <2>1. ASSUME NEW S, LastIn(S)
        PROVE  LastIn(S)'
    BY <1>1, <1>2, <2>1, WordWasTold
  <2> QED
    BY <2>1 DEF Carried
<1>6. queue' \in Seq(Event) /\ Len(queue') <= BufferSize
  BY <1>1 DEF AnnInv, TypeOK
<1> QED
  BY <1>1, <1>2, <1>3, <1>4, <1>5, <1>6, Types, NotifierStep

-----------------------------------------------------------------------------
(* Crashes, and all steps.                                                  *)

\* A crash forgets what was on its way, and counts as a fault.
LEMMA CrashKeeps ==
  ASSUME AnnInv, Crash
  PROVE  AnnInv'
<1>1. /\ UNCHANGED <<task, dropped, thread, threads, told>> /\ Fault /\ Notified /\ queue' = <<>>
      /\ orch' = [Rest EXCEPT !.pc = "recover"]
      /\ req' = [r \in Request |-> [pc |-> "free", event |-> NoEvent]]
  BY DEF Crash
<1>2. /\ faults' \in 0..MaxFaults /\ faults' # 0 /\ faults' = faults + 1
  BY <1>1, Types DEF Fault
<1>3. orch' \in Hand /\ orch'.pc = "recover"
  <2>1. 0 \in 0..MaxUserRetries
    BY Types
  <2> QED
    BY <1>1, <2>1 DEF Rest, Hand
<1>4. notifier' \in Notification /\ notifier'.pc = "idle"
  BY <1>1, NotifierTyped DEF Notified
<1>5. req' \in [Request -> InFlight] /\ \A r \in Request : req'[r].pc = "free"
  BY <1>1, FreeTyped
<1>6. queue' \in Seq(Event) /\ Len(queue') <= BufferSize
  <2>1. <<>> \in Seq(Event) /\ Len(<<>>) = 0 /\ BufferSize \in Nat
    BY AnnouncementsAssumption
  <2> QED
    BY <1>1, <2>1
<1>7. TypeOK'
  BY <1>1, <1>2, <1>3, <1>4, <1>5, <1>6 DEF AnnInv, TypeOK, Hand, InFlight, Notification
<1>8. ThreadSound'
  BY <1>1, <1>2, <1>4, Types DEF AnnInv, ThreadSound
<1>9. DeletedForGood' /\ EventsSound' /\ RetryOfferedAfterCleanup' /\ WordsSound'
  BY <1>1, <1>2, <1>3, <1>5
     DEF AnnInv, DeletedForGood, EventsSound, RetryOfferedAfterCleanup, WordsSound
<1> QED
  BY <1>7, <1>8, <1>9 DEF AnnInv

LEMMA InitAnnInv ==
  ASSUME Init
  PROVE  AnnInv
<1>1. /\ task = [status |-> "none", ctr |-> FALSE, ready |-> FALSE, uretry |-> 0]
      /\ orch = [pc |-> "idle", event |-> NoEvent, listed |-> 0]
      /\ req = [r \in Request |-> [pc |-> "free", event |-> NoEvent]]
      /\ queue = <<>> /\ notifier = [pc |-> "idle", event |-> NoEvent]
      /\ thread = FALSE /\ threads = 0 /\ told = NoEvent /\ dropped = FALSE /\ faults = 0
  BY DEF Init, Rest
<1>2. 0 \in 0..MaxUserRetries /\ 0 \in 0..MaxFaults /\ BufferSize \in Nat
  BY AnnouncementsAssumption
<1>3. queue \in Seq(Event) /\ Len(queue) <= BufferSize
  <2>1. <<>> \in Seq(Event) /\ Len(<<>>) = 0
    OBVIOUS
  <2> QED
    BY <1>1, <1>2, <2>1
<1>4. TypeOK
  BY <1>1, <1>2, <1>3 DEF TypeOK
<1>5. ThreadSound /\ DeletedForGood /\ RetryOfferedAfterCleanup
  BY <1>1 DEF ThreadSound, DeletedForGood, RetryOfferedAfterCleanup
<1>6. EventsSound
  BY <1>1 DEF EventsSound
<1>7. WordsSound
  BY <1>1 DEF WordsSound, EndsSound, FirstLifeSound, Active
<1> QED
  BY <1>4, <1>5, <1>6, <1>7 DEF AnnInv

LEMMA StutterKeeps ==
  ASSUME AnnInv, UNCHANGED vars
  PROVE  AnnInv'
BY DEF AnnInv, vars, discord, TypeOK, ThreadSound, DeletedForGood, EventsSound,
       RetryOfferedAfterCleanup, WordsSound, EndsSound, FirstLifeSound, LastIn

LEMMA RequestKeeps ==
  ASSUME AnnInv, NEW r \in Request,
         \/ Create(r) \/ BeginCancel(r) \/ FinishCancel(r) \/ BeginDelete(r)
         \/ FinishDelete(r) \/ BeginRetry(r) \/ FinishRetry(r) \/ AnswerRequest(r)
  PROVE  AnnInv'
<1>1. CASE BeginCancel(r)
  BY <1>1, BeginKeeps DEF BeginCancel
<1>2. CASE BeginDelete(r)
  BY <1>2, BeginKeeps DEF BeginDelete
<1>3. CASE BeginRetry(r)
  BY <1>3, BeginKeeps DEF BeginRetry
<1> QED
  BY <1>1, <1>2, <1>3, CreateKeeps, FinishCancelKeeps, FinishDeleteKeeps, FinishRetryKeeps,
     AnswerRequestKeeps

LEMMA NextKeeps ==
  ASSUME AnnInv, [Next]_vars
  PROVE  AnnInv'
BY StutterKeeps, DispatchKeeps, CompleteKeeps, RequeueKeeps, InterruptKeeps,
   RequeueInterruptedKeeps, PromoteKeeps, CleanUpKeeps, MarkKeeps, AnnounceKeeps, RecoverKeeps,
   RequestKeeps, DeliverKeeps, PostThreadEventKeeps, CreateRootKeeps, StartThreadKeeps,
   SaveThreadKeeps, CrashKeeps
   DEF Next

-----------------------------------------------------------------------------
(* The theorems.                                                            *)

\* The inductive invariant: the last word of the orchestrator is followed from
\* its hand through the bus and the notifier into Discord.
THEOREM AnnInvariance == Spec => []AnnInv
<1>1. Init => AnnInv
  BY InitAnnInv
<1>2. AnnInv /\ [Next]_vars => AnnInv'
  BY NextKeeps
<1> QED
  BY <1>1, <1>2, PTL DEF Spec

\* The notifier starts a second thread for a task only after a crash or a
\* failing call of its own.
THEOREM FewThreads == Spec => []OneThread
<1>1. AnnInv => OneThread
  BY Types DEF AnnInv, ThreadSound, OneThread
<1> QED
  BY <1>1, AnnInvariance, PTL

\* An event with a Retry button is emitted after the cleanup that it announces,
\* whatever requests arrive in between.
THEOREM ButtonAfterCleanup == Spec => []RetryOfferedAfterCleanup
<1>1. AnnInv => RetryOfferedAfterCleanup
  BY DEF AnnInv
<1> QED
  BY <1>1, AnnInvariance, PTL

LEMMA LastTold ==
  ASSUME AnnInv, Quiet, NEW S, LastIn(S)
  PROVE  told \in S
<1>1. queue = <<>> /\ orch.pc = "idle" /\ notifier.pc = "idle"
  BY DEF Quiet
<1>2. Len(queue) = 0
  BY <1>1
<1>3. 1..Len(queue) = {}
  BY <1>2
<1> QED
  BY <1>1, <1>3 DEF LastIn

\* When all has been said without a fault or a dropped event, the last message
\* about a task that has ended names its end and offers the retry that it has.
THEOREM LastWordTrue == Spec => []LastWord
<1>1. ASSUME AnnInv
      PROVE  LastWord
  <2> SUFFICES ASSUME Quiet, faults = 0, ~ dropped
               PROVE  /\ task.status = "completed" => told.type = "completed"
                      /\ task.status = "failed"    => told.type \in {"failed", "needs_input"}
                      /\ task.status \in Retryable /\ task.ready /\ task.uretry = 0 =>
                           /\ task.status = "cancelled" => told.type = "cancelled"
                           /\ MaxUserRetries > 0 => told.type = "needs_input" \/ HasRetry(told)
    BY DEF LastWord
  <2>1. EndsSound /\ (task.uretry = 0 => FirstLifeSound)
    BY <1>1 DEF AnnInv, WordsSound
  <2>2. ASSUME NEW S, LastIn(S)
        PROVE  told \in S
    BY <1>1, <2>2, LastTold
  <2>3. ASSUME task.status = "completed"
        PROVE  told.type = "completed"
    BY <2>1, <2>2, <2>3, Words DEF EndsSound
  <2>4. ASSUME task.status = "failed"
        PROVE  told.type \in {"failed", "needs_input"}
    BY <2>1, <2>2, <2>4, Words DEF EndsSound
  <2>5. ASSUME task.status = "failed", task.ready, task.uretry = 0
        PROVE  MaxUserRetries > 0 => told.type = "needs_input" \/ HasRetry(told)
    BY <2>1, <2>2, <2>5, Words DEF FirstLifeSound
  <2>6. ASSUME task.status = "cancelled", task.ready, task.uretry = 0
        PROVE  told.type = "cancelled" /\ (MaxUserRetries > 0 => HasRetry(told))
    BY <2>1, <2>2, <2>6, Words DEF FirstLifeSound, Quiet
  <2> QED
    BY <2>3, <2>4, <2>5, <2>6 DEF Retryable
<1> QED
  BY <1>1, AnnInvariance, PTL

=============================================================================
