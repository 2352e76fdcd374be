---------------------------- MODULE IntakeProofs ----------------------------
(***************************************************************************)
(* IntakeInv is inductive, for every set of tasks and every set of           *)
(* environments.  The one step with something to it is the creation of a     *)
(* row, which lemma NewRow settles for all four doors; every other action    *)
(* leaves what was resolved alone.                                          *)
(***************************************************************************)
EXTENDS Intake, TLAPS

\* What the doors let through.
Admitted(mode, r) ==
  /\ r \in Request
  /\ r.prompt # "empty" /\ r.env = "own" /\ r.harness # "other" /\ r.limit # "negative"
  /\ mode \in {"auto", "read"}
  /\ mode = "read" => settings.readerImage /\ r.limit # "nan"

\* Apply makes a row of the right type that gives what was promised
\* (defaults.go:68).
LEMMA NewRow ==
  ASSUME settings \in Settings, Loads(settings),
         NEW mode, NEW r, Admitted(mode, r), Storable(Apply(mode, r))
  PROVE  LET row == Apply(mode, r)  promise == PromiseOf(mode, r)
         IN  /\ row \in Row /\ promise \in Promise
             /\ row.status = "pending" /\ row.error = "none" /\ row.mode = mode
             /\ row.harness = promise.harness /\ row.model = promise.model
             /\ row.limit = promise.limit /\ row.createPR = promise.createPR
             /\ promise.able = settings.openai
             /\ IF mode = "read"
                  THEN /\ row.image = "reader" /\ row.limit \notin {"negative", "zero"}
                       /\ row.limit = "nan" => promise.endless
                       /\ ~ row.createPR
                  ELSE row.image = "agent"
<1> DEFINE row == Apply(mode, r)
           promise == PromiseOf(mode, r)
<1>1. /\ mode \in {"auto", "read"}
      /\ r.prompt \in {"nul", "fair", "long"}
      /\ r.harness \in Harness \cup {Unset}
      /\ r.model \in {Unset, "named"}
      /\ r.limit \in Limit /\ r.limit # "negative"
      /\ r.createPR \in {Unset, "yes", "no"}
      /\ r.env = "own"
  BY DEF Admitted, Request, Prompt, Harness, Unset
<1>2. /\ settings.harness \in Harness /\ settings.limit \in Limit
      /\ settings.readLimit \in Limit /\ settings.createPR \in BOOLEAN
      /\ settings.openai \in BOOLEAN /\ settings.readerImage \in BOOLEAN
  BY DEF Settings
<1>3. row.prompt \in {"fair", "long"} /\ row.limit # "huge"
  BY <1>1 DEF Storable, Apply
<1>4. /\ row.status = "pending" /\ row.error = "none" /\ row.mode = mode
      /\ row.env = "own" /\ row.harness \in Harness /\ row.harness = promise.harness
  BY <1>1, <1>2 DEF Apply, PromiseOf, TaskDefaults, Or, Harness, Unset
<1>5. row.model \in {"named", "claude", "gpt"} /\ row.model = promise.model
  BY <1>1, <1>2 DEF Apply, PromiseOf, TaskDefaults, Or, ModelFor, Harness, Unset
<1>6. row.limit \in Limit /\ row.limit = promise.limit
  BY <1>1, <1>2 DEF Apply, PromiseOf, TaskDefaults, Limit
<1>7. row.createPR \in BOOLEAN /\ row.createPR = promise.createPR
  BY <1>1, <1>2 DEF Apply, PromiseOf, TaskDefaults, BoolOr, Unset
<1>8. IF mode = "read"
        THEN /\ row.image = "reader" /\ row.limit \notin {"negative", "zero"}
             /\ row.limit = "nan" => promise.endless
             /\ ~ row.createPR
        ELSE row.image = "agent"
  BY <1>1, <1>2 DEF Admitted, Apply, TaskDefaults, PromiseOf, Loads
<1>9. row \in Row
  BY <1>1, <1>3, <1>4, <1>5, <1>6, <1>7, <1>8 DEF Apply, Row
<1>10. promise \in Promise /\ promise.able = settings.openai
  BY <1>2, <1>4, <1>5, <1>6, <1>7 DEF PromiseOf, Promise
<1> QED
  BY <1>4, <1>5, <1>6, <1>7, <1>8, <1>9, <1>10

\* Whatever door a task comes in by, the step is CreateTask of an admitted
\* request.
LEMMA Doors ==
  ASSUME NEW t \in Task,
         PostTask(t) \/ SubmitModal(t) \/ ReadCommand(t) \/ ReceiveSMS(t)
  PROVE  \E mode \in {"auto", "read"}, r \in Request :
           Admitted(mode, r) /\ CreateTask(t, mode, r)
<1> DEFINE Goal == \E mode \in {"auto", "read"}, r \in Request :
                     Admitted(mode, r) /\ CreateTask(t, mode, r)
<1>1. ASSUME NEW r \in Request, NewTask(t, r), r.mode = "read" => r.limit # "nan"
      PROVE  Goal
  <2>1. /\ r.prompt # "empty" /\ r.env = "own" /\ r.harness # "other"
        /\ r.limit # "negative" /\ r.mode \in {"auto", "read"}
    BY <1>1 DEF NewTask, Valid, Request
  <2>2. CASE r.mode = "read"
    BY <1>1, <2>1, <2>2 DEF NewTask, NewReadTask, Admitted
  <2>3. CASE r.mode # "read"
    BY <1>1, <2>1, <2>3 DEF NewTask, Admitted
  <2> QED
    BY <2>2, <2>3
<1>2. CASE PostTask(t)
  BY <1>1, <1>2 DEF PostTask
<1>3. CASE SubmitModal(t)
  <2>1. PICK prompt \in Prompt, harness \in Harness \cup {Unset, "other"}, limit \in Limit :
          NewTask(t, [Plain(prompt) EXCEPT !.harness = harness, !.limit = limit])
    BY <1>3 DEF SubmitModal
  <2>2. [Plain(prompt) EXCEPT !.harness = harness, !.limit = limit] \in Request
    BY DEF Plain, Request, Unset
  <2>3. [Plain(prompt) EXCEPT !.harness = harness, !.limit = limit].mode = "auto"
    BY DEF Plain
  <2> QED
    BY <1>1, <2>1, <2>2, <2>3
<1>4. CASE ReadCommand(t)
  <2>1. PICK prompt \in Prompt : NewTask(t, [Plain(prompt) EXCEPT !.mode = "read"])
    BY <1>4 DEF ReadCommand, Prompt
  <2>2. [Plain(prompt) EXCEPT !.mode = "read"] \in Request
    BY DEF Plain, Request, Unset, Limit
  <2>3. [Plain(prompt) EXCEPT !.mode = "read"].limit # "nan"
    BY DEF Plain
  <2> QED
    BY <1>1, <2>1, <2>2, <2>3
<1>5. CASE ReceiveSMS(t)
  <2>1. PICK prompt \in Prompt \ {"empty", "long"} : CreateTask(t, "auto", Plain(prompt))
    BY <1>5 DEF ReceiveSMS
  <2>2. Plain(prompt) \in Request /\ Admitted("auto", Plain(prompt))
    BY DEF Plain, Request, Unset, Limit, Admitted
  <2> QED
    BY <2>1, <2>2
<1> QED
  BY <1>2, <1>3, <1>4, <1>5

LEMMA SomeContainer == \A c \in Container : c # NoContainer
<1> SUFFICES ASSUME NEW c \in Container, c = NoContainer
             PROVE  FALSE
  OBVIOUS
<1>1. c.st \in {"started", "working", "no prompt", "no key"}
  BY DEF Container
<1> QED
  BY <1>1 DEF NoContainer

\* Every step keeps the invariant.
LEMMA Step ==
  ASSUME IntakeInv, [Next]_vars
  PROVE  IntakeInv'
<1> USE DEF IntakeInv, ReadLimit
<1>1. ASSUME NEW t \in Task,
             PostTask(t) \/ SubmitModal(t) \/ ReadCommand(t) \/ ReceiveSMS(t)
      PROVE  IntakeInv'
  <2>1. PICK mode \in {"auto", "read"}, r \in Request :
          Admitted(mode, r) /\ CreateTask(t, mode, r)
    BY <1>1, Doors
  <2> DEFINE row == Apply(mode, r)
             promise == PromiseOf(mode, r)
  <2>2. /\ ~ Exists(t) /\ Storable(row)
        /\ task' = [task EXCEPT ![t] = row]
        /\ promised' = [promised EXCEPT ![t] = promise]
        /\ UNCHANGED <<settings, container, changed>>
    BY <2>1 DEF CreateTask
  <2>3. /\ row \in Row /\ promise \in Promise
        /\ row.status = "pending" /\ row.error = "none" /\ row.mode = mode
        /\ row.harness = promise.harness /\ row.model = promise.model
        /\ row.limit = promise.limit /\ row.createPR = promise.createPR
        /\ promise.able = settings.openai
        /\ IF mode = "read"
             THEN /\ row.image = "reader" /\ row.limit \notin {"negative", "zero"}
                  /\ row.limit = "nan" => promise.endless
                  /\ ~ row.createPR
             ELSE row.image = "agent"
    BY <2>1, <2>2, NewRow DEF TypeOK
  <2> HIDE DEF row, promise
  <2>4. container[t] = NoContainer
    BY <2>2 DEF TypeOK, Exists, NoRow
  <2>5. TypeOK'
    BY <2>2, <2>3, <2>4 DEF TypeOK
  <2>6. \A s \in Task : /\ s # t => task'[s] = task[s] /\ promised'[s] = promised[s]
                       /\ s = t => task'[s] = row /\ promised'[s] = promise
    BY <2>2 DEF TypeOK
  <2>7. promise # NoPromise /\ row # NoRow
    BY <2>3 DEF NoPromise, Promise, NoRow, Row
  <2>8. RowsSound'
    BY <2>1, <2>2, <2>3, <2>6, <2>7 DEF RowsSound, Exists, Admitted
  <2>9. ReadsEquipped'
    <3> SUFFICES ASSUME NEW s \in Task, container'[s] # NoContainer
                 PROVE  container'[s] = container[s] /\ task'[s] = task[s]
                        /\ promised'[s] = promised[s]
      BY DEF ReadsEquipped
    <3> QED
      BY <2>2, <2>4, <2>6
  <2>10. RefusedForCause'
    BY <2>2, <2>3, <2>6 DEF RefusedForCause, Exists
  <2>11. AskedIsGiven'
    BY <2>2, <2>4, <2>6 DEF AskedIsGiven
  <2> QED
    BY <2>5, <2>8, <2>9, <2>10, <2>11
<1>2. ASSUME NEW t \in Task, Reject(t)
      PROVE  IntakeInv'
  <2>1. /\ task[t] \in Row /\ task[t].status = "pending" /\ CannotDispatch(task[t])
        /\ task' = [task EXCEPT ![t].status = "failed", ![t].error = "settings"]
        /\ UNCHANGED <<settings, container, promised, changed>>
    BY <1>2 DEF Reject, Fail, TypeOK, NoRow
  <2>2. container[t] = NoContainer
    BY <2>1 DEF TypeOK
  <2>3. TypeOK'
    BY <2>1, <2>2 DEF TypeOK, Row
  <2>4. RowsSound'
    BY <2>1 DEF RowsSound, Exists, TypeOK, Row, NoRow
  <2>5. ReadsEquipped' /\ AskedIsGiven'
    BY <2>1, <2>2 DEF ReadsEquipped, AskedIsGiven, TypeOK
  <2>6. t \in changed \/ ~ promised[t].able
    BY <2>1 DEF CannotDispatch, RowsSound, Exists, NoRow, TypeOK, Loads
  <2>7. RefusedForCause'
    BY <2>1, <2>6 DEF RefusedForCause, Exists, TypeOK
  <2> QED
    BY <2>3, <2>4, <2>5, <2>7
<1>3. ASSUME NEW t \in Task, LaunchFails(t)
      PROVE  IntakeInv'
  <2>1. /\ task[t] \in Row /\ task[t].status = "pending"
        /\ task' = [task EXCEPT ![t].status = "failed", ![t].error = "launch"]
        /\ UNCHANGED <<settings, container, promised, changed>>
    BY <1>3 DEF LaunchFails, Fail, TypeOK, NoRow
  <2>2. container[t] = NoContainer
    BY <2>1 DEF TypeOK
  <2>3. TypeOK'
    BY <2>1, <2>2 DEF TypeOK, Row
  <2>4. RowsSound'
    BY <2>1 DEF RowsSound, Exists, TypeOK, Row, NoRow
  <2>5. ReadsEquipped' /\ AskedIsGiven' /\ RefusedForCause'
    BY <2>1, <2>2 DEF ReadsEquipped, AskedIsGiven, RefusedForCause, Exists, TypeOK, Row
  <2> QED
    BY <2>3, <2>4, <2>5
<1>4. ASSUME NEW t \in Task, RunAgent(t)
      PROVE  IntakeInv'
  <2> DEFINE new == NewContainer(task[t])
  <2>1. /\ task[t] \in Row /\ task[t].status = "pending" /\ ~ CannotDispatch(task[t])
        /\ task' = [task EXCEPT ![t].status = "running"]
        /\ container' = [container EXCEPT ![t] = new]
        /\ UNCHANGED <<settings, promised, changed>>
    BY <1>4 DEF RunAgent, TypeOK, NoRow
  <2>2. /\ task[t].harness = promised[t].harness /\ task[t].model = promised[t].model
        /\ task[t].limit = promised[t].limit /\ task[t].createPR = promised[t].createPR
        /\ IF task[t].mode = "read"
             THEN /\ task[t].image = "reader" /\ ~ task[t].createPR
                  /\ ReadLimit(t, task[t].limit)
             ELSE task[t].image = "agent"
    BY <2>1 DEF RowsSound, Exists, NoRow, Row
  <2>3. /\ new.st = "started" /\ new.harness = task[t].harness /\ new.model = task[t].model
        /\ new.limit = task[t].limit /\ new.createPR = task[t].createPR
    BY <2>1 DEF NewContainer, Row
  <2>4. IF task[t].mode = "read"
          THEN new.image = "reader" /\ new.supabase /\ new.openai
          ELSE new.image = "agent"
    BY <2>1, <2>2 DEF NewContainer, CannotDispatch, Image, Or, Unset, Loads, TypeOK
  <2>5. new \in Container
    BY <2>1, <2>3, <2>4 DEF NewContainer, Container, Row, TypeOK, Settings, Offloaded
  <2>6. new # NoContainer
    BY <2>3 DEF NoContainer
  <2> HIDE DEF new
  <2>7. TypeOK'
    BY <2>1, <2>5, <2>6 DEF TypeOK, Row
  <2>8. RowsSound'
    BY <2>1 DEF RowsSound, Exists, TypeOK, Row, NoRow
  <2>9. ReadsEquipped'
    <3>1. task'[t].mode = task[t].mode /\ container'[t] = new
      BY <2>1 DEF TypeOK, Row
    <3>2. ASSUME NEW s \in Task, s # t
          PROVE  container'[s] = container[s] /\ task'[s] = task[s]
      BY <2>1, <3>2 DEF TypeOK
    <3>3. IF task[t].mode = "read"
            THEN /\ new.image = "reader" /\ new.supabase /\ new.openai /\ new.st # "no key"
                 /\ new.limit \notin {"negative", "zero"}
                 /\ new.limit = "nan" => promised'[t].endless
                 /\ ~ new.createPR
            ELSE new.image = "agent"
      BY <2>1, <2>2, <2>3, <2>4
    <3> SUFFICES ASSUME NEW s \in Task, container'[s] # NoContainer
                 PROVE  IF task'[s].mode = "read"
                          THEN /\ container'[s].image = "reader"
                               /\ container'[s].supabase /\ container'[s].openai
                               /\ container'[s].st # "no key"
                               /\ container'[s].limit \notin {"negative", "zero"}
                               /\ container'[s].limit = "nan" => promised'[s].endless
                               /\ ~ container'[s].createPR
                          ELSE container'[s].image = "agent"
      BY DEF ReadsEquipped
    <3>4. CASE s = t
      BY <3>1, <3>3, <3>4
    <3>5. CASE s # t
      <4>1. /\ container'[s] = container[s] /\ task'[s] = task[s]
            /\ promised'[s] = promised[s]
        BY <2>1, <3>2, <3>5
      <4>2. IF task[s].mode = "read"
              THEN /\ container[s].image = "reader"
                   /\ container[s].supabase /\ container[s].openai
                   /\ container[s].st # "no key"
                   /\ container[s].limit \notin {"negative", "zero"}
                   /\ container[s].limit = "nan" => promised[s].endless
                   /\ ~ container[s].createPR
              ELSE container[s].image = "agent"
        BY <4>1 DEF ReadsEquipped
      <4> QED
        BY <4>1, <4>2
    <3> QED
      BY <3>4, <3>5
  <2>10. AskedIsGiven'
    BY <2>1, <2>2, <2>3 DEF AskedIsGiven, TypeOK
  <2>11. RefusedForCause'
    BY <2>1 DEF RefusedForCause, Exists, TypeOK, Row, NoRow
  <2> QED
    BY <2>7, <2>8, <2>9, <2>10, <2>11
<1>5. ASSUME NEW t \in Task, Begin(t)
      PROVE  IntakeInv'
  <2>1. /\ container[t] \in Container /\ container[t].st = "started"
        /\ UNCHANGED <<settings, task, promised, changed>>
    <3>1. container[t].st = "started" /\ UNCHANGED <<settings, task, promised, changed>>
      BY <1>5 DEF Begin
    <3> QED
      BY <3>1 DEF TypeOK, NoContainer
  <2>2. PICK st \in {"working", "no prompt", "no key"} :
          /\ container' = [container EXCEPT ![t].st = st]
          /\ st = "no key" => ~ container[t].openai
    BY <1>5, <2>1 DEF Begin, TypeOK, Container
  <2> DEFINE new == [container[t] EXCEPT !.st = st]
  <2>3. /\ \A s \in Task : s # t => container'[s] = container[s]
        /\ container'[t] = new
    BY <2>2 DEF TypeOK
  <2>4. /\ new \in Container /\ new.st = st
        /\ new.image = container[t].image /\ new.harness = container[t].harness
        /\ new.model = container[t].model /\ new.limit = container[t].limit
        /\ new.createPR = container[t].createPR
        /\ new.supabase = container[t].supabase /\ new.openai = container[t].openai
    BY <2>1, <2>2 DEF Container
  <2> HIDE DEF new
  <2>5. container[t] # NoContainer /\ new # NoContainer
    BY <2>1, <2>4, SomeContainer
  <2>6. TypeOK'
    BY <2>1, <2>3, <2>4, <2>5, <2>2 DEF TypeOK, new
  <2>7. RowsSound' /\ RefusedForCause'
    BY <2>1 DEF RowsSound, RefusedForCause, Exists
  <2>8. ReadsEquipped'
    <3>1. ASSUME NEW s \in Task, s # t
          PROVE  container'[s] = container[s] /\ task' = task /\ promised' = promised
      BY <2>1, <2>3, <3>1
    <3>2. /\ IF task'[t].mode = "read"
               THEN /\ new.image = "reader" /\ new.supabase /\ new.openai
                    /\ ReadLimit(t, new.limit) /\ ~ new.createPR
               ELSE new.image = "agent"
          /\ new.openai => new.st # "no key"
      BY <2>1, <2>2, <2>4, <2>5 DEF ReadsEquipped
    <3> QED
      BY <2>1, <2>3, <3>1, <3>2 DEF ReadsEquipped
  <2>9. AskedIsGiven'
    <3>1. /\ new.harness = promised'[t].harness /\ new.model = promised'[t].model
          /\ new.limit = promised'[t].limit /\ new.createPR = promised'[t].createPR
      BY <2>1, <2>4, <2>5 DEF AskedIsGiven
    <3> QED
      BY <2>1, <2>3, <3>1 DEF AskedIsGiven
  <2> QED
    BY <2>6, <2>7, <2>8, <2>9
<1>6. ASSUME NEW t \in Task, Exit(t) \/ BackToPending(t)
      PROVE  IntakeInv'
  <2>1. /\ task[t] \in Row
        /\ container' = [container EXCEPT ![t] = NoContainer]
        /\ UNCHANGED <<settings, promised, changed>>
    BY <1>6 DEF Exit, BackToPending, TypeOK, NoRow
  <2>2. PICK new \in Row :
          /\ task' = [task EXCEPT ![t] = new]
          /\ new.status \in {"pending", "completed", "failed"}
          /\ new.error = "settings" => task[t].error = "settings"
          /\ new.mode = "read" <=> task[t].mode = "read"
          /\ new.harness = task[t].harness /\ new.model = task[t].model
          /\ new.limit = task[t].limit /\ new.createPR = task[t].createPR
          /\ new.image = task[t].image
    <3> DEFINE After(status, error, mode) ==
                 [task[t] EXCEPT !.status = status, !.error = error, !.mode = mode]
    <3>1. PICK status \in {"pending", "completed", "failed"},
               error \in {task[t].error, "none", "agent"},
               mode \in Reported(task[t].mode) :
            task' = [task EXCEPT ![t] = After(status, error, mode)]
      <4>1. task[t].mode \in Reported(task[t].mode)
        BY DEF Reported
      <4>2. CASE BackToPending(t)
        <5>1. task' = [task EXCEPT ![t] = After("pending", "none", task[t].mode)]
          BY <2>1, <4>2 DEF BackToPending, TypeOK, Row
        <5> QED
          BY <4>1, <5>1
      <4>3. CASE Exit(t)
        <5>1. CASE Fail(t, "agent")
          <6>1. task' = [task EXCEPT ![t] = After("failed", "agent", task[t].mode)]
            BY <2>1, <5>1 DEF Fail, TypeOK, Row
          <6> QED
            BY <4>1, <6>1
        <5>2. CASE ~ Fail(t, "agent")
          <6>1. PICK mode \in Reported(task[t].mode) :
                  \/ task' = [task EXCEPT ![t].status = "completed", ![t].mode = mode]
                  \/ task' = [task EXCEPT ![t].status = "failed", ![t].error = "agent",
                                         ![t].mode = mode]
            BY <4>3, <5>2 DEF Exit
          <6>2. CASE task' = [task EXCEPT ![t].status = "completed", ![t].mode = mode]
            <7>1. task' = [task EXCEPT ![t] = After("completed", task[t].error, mode)]
              BY <2>1, <6>2 DEF TypeOK, Row
            <7> QED
              BY <7>1
          <6>3. CASE task' = [task EXCEPT ![t].status = "failed", ![t].error = "agent",
                                        ![t].mode = mode]
            <7>1. task' = [task EXCEPT ![t] = After("failed", "agent", mode)]
              BY <2>1, <6>3 DEF TypeOK, Row
            <7> QED
              BY <7>1
          <6> QED
            BY <6>1, <6>2, <6>3
        <5> QED
          BY <5>1, <5>2
      <4> QED
        BY <1>6, <4>2, <4>3
    <3> DEFINE new == After(status, error, mode)
    <3>2. new \in Row
      BY <2>1 DEF Row, Reported
    <3>3. /\ new.status = status /\ new.error = error
          /\ new.mode = "read" <=> task[t].mode = "read"
          /\ new.harness = task[t].harness /\ new.model = task[t].model
          /\ new.limit = task[t].limit /\ new.createPR = task[t].createPR
          /\ new.image = task[t].image
      BY <2>1 DEF Row, Reported
    <3> HIDE DEF new
    <3> QED
      BY <3>1, <3>2, <3>3 DEF new
  <2>3. /\ \A s \in Task \ {t} : task'[s] = task[s] /\ container'[s] = container[s]
        /\ task'[t] = new /\ container'[t] = NoContainer
    BY <2>1, <2>2 DEF TypeOK
  <2>4. task[t] # NoRow /\ new # NoRow
    BY <2>1, <2>2 DEF NoRow, Row
  <2>5. TypeOK'
    BY <2>1, <2>2, <2>3 DEF TypeOK
  <2>6. RowsSound'
    BY <2>1, <2>2, <2>3, <2>4 DEF RowsSound, Exists
  <2>7. ReadsEquipped'
    <3> SUFFICES ASSUME NEW s \in Task, container'[s] # NoContainer
                 PROVE  container'[s] = container[s] /\ task'[s] = task[s]
                        /\ promised'[s] = promised[s]
      BY DEF ReadsEquipped
    <3>1. s # t
      BY <2>3
    <3> QED
      BY <2>1, <2>3, <3>1
  <2>8. AskedIsGiven'
    BY <2>1, <2>3 DEF AskedIsGiven
  <2>9. RefusedForCause'
    BY <2>1, <2>2, <2>3, <2>4 DEF RefusedForCause, Exists
  <2> QED
    BY <2>5, <2>6, <2>7, <2>8, <2>9
<1>7. ASSUME Restart
      PROVE  IntakeInv'
  <2>1. /\ settings' \in Settings /\ Loads(settings')
        /\ changed' = {t \in Task : Exists(t)}
        /\ UNCHANGED <<task, container, promised>>
    BY <1>7, IntakeAssumption DEF Restart, Startable
  <2>2. TypeOK'
    BY <2>1 DEF TypeOK, Loads
  <2>3. RowsSound' /\ RefusedForCause'
    BY <2>1 DEF RowsSound, RefusedForCause, Exists
  <2>4. ReadsEquipped' /\ AskedIsGiven'
    BY <2>1 DEF ReadsEquipped, AskedIsGiven
  <2> QED
    BY <2>2, <2>3, <2>4
<1>8. CASE UNCHANGED vars
  <2>1. UNCHANGED <<settings, task, container, promised, changed>>
    BY <1>8 DEF vars
  <2>2. TypeOK' /\ RowsSound'
    BY <2>1 DEF TypeOK, RowsSound, Exists, Loads
  <2>3. ReadsEquipped' /\ RefusedForCause' /\ AskedIsGiven'
    BY <2>1 DEF ReadsEquipped, RefusedForCause, AskedIsGiven, Exists
  <2> QED
    BY <2>2, <2>3
<1> QED
  BY <1>1, <1>2, <1>3, <1>4, <1>5, <1>6, <1>7, <1>8 DEF Next

\* Rows keep what was promised, and reads stay equipped, in every instance.
THEOREM IntakeInvariance == Spec => []IntakeInv
<1>1. Init => IntakeInv
  <2> SUFFICES ASSUME Init
               PROVE  IntakeInv
    OBVIOUS
  <2>1. TypeOK
    BY IntakeAssumption DEF Init, Startable, TypeOK, NoRow, NoContainer
  <2>2. RowsSound /\ ReadsEquipped /\ RefusedForCause /\ AskedIsGiven
    BY DEF Init, RowsSound, ReadsEquipped, RefusedForCause, AskedIsGiven, Exists
  <2> QED
    BY <2>1, <2>2 DEF IntakeInv
<1>2. IntakeInv /\ [Next]_vars => IntakeInv'
  BY Step
<1> QED
  BY <1>1, <1>2, PTL DEF Spec

\* No restart, retry or change of mode brings a read task into the agent's
\* image, without its credentials or without limits, or a coding task into
\* the reader's (dispatch.go:51, fargate.go:337).
THEOREM ReadsStayEquipped == Spec => []ReadsEquipped
BY IntakeInvariance, PTL DEF IntakeInv

\* A task accepted is not turned away by a server with the same settings,
\* but for the embedder (task_creator.go:90).
THEOREM NoIdleRefusal == Spec => []RefusedForCause
BY IntakeInvariance, PTL DEF IntakeInv

\* The container gets what was asked for, or the defaults of the moment of
\* acceptance (defaults.go:68).
THEOREM PromiseKept == Spec => []AskedIsGiven
BY IntakeInvariance, PTL DEF IntakeInv

=============================================================================
