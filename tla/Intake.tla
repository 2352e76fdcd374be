------------------------------- MODULE Intake -------------------------------
(***************************************************************************)
(* How a task comes into being and what of it reaches its container: the    *)
(* settings the server was started with, the four doors a request comes in   *)
(* by, validation and defaults, the tests that dispatch repeats, the         *)
(* environment the runners give a container, and the first lines of the      *)
(* entrypoints.  Between acceptance and launch the server may be restarted   *)
(* with other settings, and a task may be launched again.                    *)
(*                                                                         *)
(* Budget, runtime and turns pass the same tests and the same defaulting;    *)
(* a limit stands for any of them.  Only the others have a largest value,    *)
(* and only a budget can be NaN.  Context, CLAUDE.md, tools, PR texts,       *)
(* effort and the other flags go the way that a prompt, a harness and        *)
(* create_pr go; code stands for review, too.  The default harness is taken  *)
(* to be one of the two, and agents to report code or review as they are     *)
(* told.  Slots, duplicates and retry flags are the business of      *)
(* modules Orchestrator and ReadPipeline; here a task that may go back to    *)
(* pending does so at any time.                                              *)
(***************************************************************************)

CONSTANTS
  Task,         \* ids
  Environment   \* the environments in which the server may be started

Harness == {"claude_code", "codex"}
Limit   == {"negative", "zero", "low", "high", "huge", "nan"}
Unset   == "unset"

\* What Load makes of the environment.  readerImage, readerDefinition, supabase,
\* openai and s3 say whether those settings are there; docker stands for EC2
\* and local mode.
Settings == [mode : {"docker", "fargate"}, readerImage : BOOLEAN, readerDefinition : BOOLEAN,
             supabase : BOOLEAN, openai : BOOLEAN, s3 : BOOLEAN, harness : Harness,
             limit : Limit, readLimit : Limit, createPR : BOOLEAN]

Loads_WithoutSupabase(e) ==
  e.readerImage => /\ e.readLimit \notin {"negative", "zero"}
                   /\ e.mode = "fargate" => e.readerDefinition

\* Load refuses an incomplete reader.  NaN passes for a positive budget, and
\* the limits of coding tasks are not looked at.  The other settings it
\* tests are right in every environment.
Loads(e) ==
  e.readerImage => /\ e.readLimit \notin {"negative", "zero"}
                   /\ e.supabase
                   /\ e.mode = "fargate" => e.readerDefinition

\* Where the server comes up.
Startable == {e \in Environment : Loads(e)}

ASSUME IntakeAssumption ==
  /\ Environment \subseteq Settings
  /\ Startable # {}

VARIABLES
  settings,    \* the settings of the running server
  task,        \* the tasks table
  container,   \* the container each task runs in
  promised,    \* what each task was accepted with, by the settings of that moment
  changed      \* the tasks that have lived through a restart with other settings

vars == <<settings, task, container, promised, changed>>

-----------------------------------------------------------------------------
(* Requests and rows.                                                       *)

\* A prompt may be empty, hold a NUL, or be so long that the environment
\* exceeds what ECS takes.  A fair or a long one may be the url of a page.
Prompt == {"empty", "nul", "fair", "long"}

Request == [mode : {"auto", "read", "code"}, prompt : Prompt,
            harness : Harness \cup {Unset, "other"}, model : {Unset, "named"},
            limit : Limit, createPR : {Unset, "yes", "no"}, env : {"own", "reserved"}]

\* A request of which only the prompt was given.
Plain(prompt) == [mode |-> "auto", prompt |-> prompt, harness |-> Unset, model |-> Unset,
                  limit |-> "zero", createPR |-> Unset, env |-> "own"]

Row == [status : {"pending", "running", "completed", "failed"},
        mode : {"auto", "read", "code"},
        prompt : {"fair", "long"}, harness : Harness,
        model : {"named", "claude", "gpt"}, image : {"agent", "reader"},
        limit : Limit \ {"huge"}, createPR : BOOLEAN, env : {"own"},
        error : {"none", "settings", "launch", "agent"}]

NoRow == [status |-> "none"]

Exists(t) == task[t] # NoRow

Valid_AnyHarness(r) ==
  /\ r.prompt \notin {"empty", "nul"}
  /\ r.env # "reserved"
  /\ r.limit \notin {"negative", "huge"}
  /\ r.mode # "code"

\* Validate.  Every comparison with NaN is false.
Valid(r) ==
  /\ r.prompt \notin {"empty", "nul"}
  /\ r.env # "reserved"
  /\ r.limit \notin {"negative", "huge"}
  /\ r.harness # "other"
  /\ r.mode # "code"

\* The columns: text without NUL, and INTEGER.
Storable(row) == row.prompt # "nul" /\ row.limit # "huge"

-----------------------------------------------------------------------------
(* Defaults.                                                                *)

TaskDefaults(mode) ==
  [image    |-> IF mode # "read" THEN "agent"
                ELSE IF settings.readerImage THEN "reader" ELSE Unset,
   harness  |-> settings.harness,
   limit    |-> IF mode = "read" THEN settings.readLimit ELSE settings.limit,
   createPR |-> settings.createPR /\ mode # "read"]

ModelFor(harness) == IF harness = "codex" THEN "gpt" ELSE "claude"

Or(value, default) == IF value = Unset THEN default ELSE value

BoolOr(value, default) == value = "yes" \/ (value = Unset /\ default)

Apply_ModelFirst(mode, r) ==
  LET d == TaskDefaults(mode)
      harness == Or(r.harness, d.harness)
  IN  [status |-> "pending", mode |-> mode, prompt |-> r.prompt, harness |-> harness,
       model |-> Or(r.model, ModelFor(d.harness)), image |-> d.image,
       limit |-> IF r.limit = "zero" THEN d.limit ELSE r.limit,
       createPR |-> mode # "read" /\ BoolOr(r.createPR, d.createPR),
       env |-> r.env, error |-> "none"]

\* The row of a new task: the request's values where it has any, and the
\* defaults elsewhere.  A limit of zero is no value.
Apply(mode, r) ==
  LET d == TaskDefaults(mode)
      harness == Or(r.harness, d.harness)
  IN  [status |-> "pending", mode |-> mode, prompt |-> r.prompt, harness |-> harness,
       model |-> Or(r.model, ModelFor(harness)), image |-> d.image,
       limit |-> IF r.limit = "zero" THEN d.limit ELSE r.limit,
       createPR |-> mode # "read" /\ BoolOr(r.createPR, d.createPR),
       env |-> r.env, error |-> "none"]

\* What the requester may count on, whether the server could have run it, and
\* whether its limit for reads is a NaN.
Promise == [harness : Harness, model : {"named", "claude", "gpt"}, limit : Limit,
            createPR : BOOLEAN, able : BOOLEAN, endless : BOOLEAN]

NoPromise == [able |-> FALSE]

PromiseOf(mode, r) ==
  [harness  |-> IF r.harness \in Harness THEN r.harness ELSE settings.harness,
   model    |-> IF r.model = "named" THEN "named"
                ELSE IF r.harness = "codex" \/ (r.harness = Unset /\ settings.harness = "codex")
                       THEN "gpt" ELSE "claude",
   limit    |-> CASE r.limit # "zero" -> r.limit
                  [] r.limit = "zero" /\ mode = "read" -> settings.readLimit
                  [] OTHER -> settings.limit,
   createPR |-> IF mode = "read" THEN FALSE
                ELSE IF r.createPR = Unset THEN settings.createPR ELSE r.createPR = "yes",
   able     |-> settings.openai,
   endless  |-> settings.readLimit = "nan"]

-----------------------------------------------------------------------------
(* The four doors.                                                          *)

CreateTask(t, mode, r) ==
  LET row == Apply(mode, r)
  IN  /\ ~ Exists(t)
      /\ Storable(row)
      /\ task' = [task EXCEPT ![t] = row]
      /\ promised' = [promised EXCEPT ![t] = PromiseOf(mode, r)]
      /\ UNCHANGED <<settings, container, changed>>

NewReadTask_Unready(t, r) == CreateTask(t, "read", r)

\* The embedder, which dispatch asks for, is not asked for here.
NewReadTask(t, r) ==
  /\ settings.readerImage
  /\ settings.mode = "fargate" => settings.readerDefinition
  /\ CreateTask(t, "read", r)

NewTask(t, r) ==
  /\ Valid(r)
  /\ IF r.mode = "read" THEN NewReadTask(t, r) ELSE CreateTask(t, "auto", r)

\* POST /tasks.  JSON has no NaN.
PostTask(t) == \E r \in Request : r.limit # "nan" /\ NewTask(t, r)

\* The modal of /backflow create: a prompt of at most 2000 characters, a
\* harness, and a budget that ParseFloat reads and that is not below zero.
SubmitModal(t) ==
  \E prompt \in Prompt \ {"empty", "long"}, harness \in Harness \cup {Unset, "other"},
     limit \in Limit \ {"negative", "huge"} :
       NewTask(t, [Plain(prompt) EXCEPT !.harness = harness, !.limit = limit])

\* /backflow read takes an https url with a host.
ReadCommand(t) ==
  \E prompt \in {"fair", "long"} : NewTask(t, [Plain(prompt) EXCEPT !.mode = "read"])

\* A text message from an enabled sender makes a task without Validate.
ReceiveSMS(t) ==
  \E prompt \in Prompt \ {"empty", "long"} : CreateTask(t, "auto", Plain(prompt))

-----------------------------------------------------------------------------
(* Dispatch and the runners.                                                *)

NoContainer == [st |-> "none"]

Container == [st : {"started", "working", "no prompt", "no key"},
              image : {"agent", "reader"}, harness : Harness \cup {"overridden"},
              model : {"named", "claude", "gpt"}, limit : Limit, createPR : BOOLEAN,
              prompt : {"value", "url"}, supabase : BOOLEAN, openai : BOOLEAN]

\* The configuration that dispatch asks for again.
CannotDispatch(row) ==
  /\ row.mode = "read"
  /\ \/ ~ settings.openai
     \/ ~ settings.readerImage
     \/ settings.mode = "fargate" /\ ~ settings.readerDefinition

\* On ECS the task definition decides, under docker the row.
Image(row) ==
  IF settings.mode = "fargate"
    THEN IF row.mode = "read" /\ settings.readerDefinition THEN "reader" ELSE "agent"
    ELSE Or(row.image, "agent")

\* ECS takes 8192 bytes of overrides: with a bucket, long values are uploaded
\* and a url is passed under another name.
Offloaded(row) == settings.mode = "fargate" /\ settings.s3 /\ row.prompt = "long"

\* The request's own variables come last and would override the system's.
NewContainer(row) ==
  [st |-> "started", image |-> Image(row),
   harness |-> IF row.env = "reserved" THEN "overridden" ELSE row.harness,
   model |-> row.model, limit |-> row.limit, createPR |-> row.createPR,
   prompt |-> IF Offloaded(row) THEN "url" ELSE "value",
   supabase |-> row.mode = "read" /\ settings.supabase, openai |-> settings.openai]

Fail(t, error) == task' = [task EXCEPT ![t].status = "failed", ![t].error = error]

Reject(t) ==
  /\ task[t].status = "pending" /\ CannotDispatch(task[t])
  /\ Fail(t, "settings")
  /\ UNCHANGED <<settings, container, promised, changed>>

\* A known url, a failed upload, overrides that are too long, a failed launch.
LaunchFails(t) ==
  /\ task[t].status = "pending" /\ ~ CannotDispatch(task[t])
  /\ Fail(t, "launch")
  /\ UNCHANGED <<settings, container, promised, changed>>

RunAgent(t) ==
  /\ task[t].status = "pending" /\ ~ CannotDispatch(task[t])
  /\ task' = [task EXCEPT ![t].status = "running"]
  /\ container' = [container EXCEPT ![t] = NewContainer(task[t])]
  /\ UNCHANGED <<settings, promised, changed>>

\* Both entrypoints ask for PROMPT before they fetch what was offloaded, and
\* then for the key of the harness.
Begin(t) ==
  /\ container[t].st = "started"
  /\ container' = [container EXCEPT ![t].st =
       CASE container[t].prompt = "url" -> "no prompt"
         [] container[t].prompt # "url" /\ container[t].harness = "codex"
            /\ ~ container[t].openai -> "no key"
         [] OTHER -> "working"]
  /\ UNCHANGED <<settings, task, promised, changed>>

\* What an agent reports its task to have been becomes the task's mode.
Reported(mode) == IF mode = "read" THEN {"read"} ELSE {mode, "code"}

\* A container that has begun to work exits well or badly, with or without a
\* report; one that has stopped at a test exits badly, and so may one that is
\* lost or killed.
Exit(t) ==
  /\ task[t].status = "running"
  /\ \/ /\ container[t].st = "working"
        /\ \E mode \in Reported(task[t].mode) :
             \/ task' = [task EXCEPT ![t].status = "completed", ![t].mode = mode]
             \/ task' = [task EXCEPT ![t].status = "failed", ![t].error = "agent",
                                    ![t].mode = mode]
     \/ Fail(t, "agent")
  /\ container' = [container EXCEPT ![t] = NoContainer]
  /\ UNCHANGED <<settings, promised, changed>>

\* RequeueTask and RetryTask leave alone what was resolved at acceptance.
BackToPending(t) ==
  /\ task[t].status \in {"running", "failed"}
  /\ task' = [task EXCEPT ![t].status = "pending", ![t].error = "none"]
  /\ container' = [container EXCEPT ![t] = NoContainer]
  /\ UNCHANGED <<settings, promised, changed>>

Restart ==
  /\ \E e \in Startable : e # settings /\ settings' = e
  /\ changed' = {t \in Task : Exists(t)}
  /\ UNCHANGED <<task, container, promised>>

-----------------------------------------------------------------------------
Init ==
  /\ settings \in Startable
  /\ task = [t \in Task |-> NoRow]
  /\ container = [t \in Task |-> NoContainer]
  /\ promised = [t \in Task |-> NoPromise]
  /\ changed = {}

Next ==
  \/ \E t \in Task :
       \/ PostTask(t) \/ SubmitModal(t) \/ ReadCommand(t) \/ ReceiveSMS(t)
       \/ Reject(t) \/ LaunchFails(t) \/ RunAgent(t)
       \/ Begin(t) \/ Exit(t) \/ BackToPending(t)
  \/ Restart

Spec == Init /\ [][Next]_vars

-----------------------------------------------------------------------------
(* Properties.                                                              *)

\* Rows, containers and settings have their types: nothing that Validate, the
\* columns or Load keep out is ever stored or launched.
TypeOK ==
  /\ settings \in Settings /\ Loads(settings)
  /\ task \in [Task -> Row \cup {NoRow}]
  /\ container \in [Task -> Container \cup {NoContainer}]
  /\ promised \in [Task -> Promise \cup {NoPromise}]
  /\ changed \subseteq Task
  /\ \A t \in Task : task[t].status = "running" <=> container[t] # NoContainer

\* What limits a read: a NaN does not, and comes from no request but only from
\* the default of the server that accepted the task (defaults.go:79).
ReadLimit(t, limit) ==
  limit \notin {"negative", "zero"} /\ (limit = "nan" => promised[t].endless)

\* A read task runs in the reader's image, with the credentials of its helper
\* scripts and of its harness, with limits (unless the server's own default is
\* NaN) and without a pull request, and a coding task in the agent's image,
\* whatever settings the server had when the task was accepted and has had
\* since (task_creator.go:75, dispatch.go:51, docker.go:116, fargate.go:337).
ReadsEquipped ==
  \A t \in Task : container[t] # NoContainer =>
    IF task[t].mode = "read"
      THEN /\ container[t].image = "reader"
           /\ container[t].supabase /\ container[t].openai
           /\ container[t].st # "no key"
           /\ ReadLimit(t, container[t].limit)
           /\ ~ container[t].createPR
      ELSE container[t].image = "agent"

\* A task that was accepted is turned away at dispatch for the server's
\* configuration only if that has changed since, or if the server had no
\* embedder all along, which nobody asks for at acceptance (task_creator.go:90).
RefusedForCause ==
  \A t \in Task : Exists(t) /\ task[t].error = "settings" =>
    t \in changed \/ ~ promised[t].able

\* Whatever happens between, a container gets the harness, model, limits and
\* create_pr that the request asked for by whichever door, or else the defaults
\* of the moment it was accepted, with a model that fits the harness
\* (defaults.go:68).
AskedIsGiven ==
  \A t \in Task : container[t] # NoContainer =>
    /\ container[t].harness = promised[t].harness
    /\ container[t].model = promised[t].model
    /\ container[t].limit = promised[t].limit
    /\ container[t].createPR = promised[t].createPR

\* Why these hold: a row keeps its promise and its task's mode, and as long as
\* the server has not been restarted otherwise, what let the task in is there.
RowsSound ==
  \A t \in Task : Exists(t) =>
    /\ promised[t] # NoPromise
    /\ task[t].harness = promised[t].harness
    /\ task[t].model = promised[t].model
    /\ task[t].limit = promised[t].limit
    /\ task[t].createPR = promised[t].createPR
    /\ IF task[t].mode = "read"
         THEN /\ task[t].image = "reader"
              /\ ReadLimit(t, task[t].limit)
              /\ ~ task[t].createPR
              /\ t \notin changed =>
                   settings.readerImage /\ (promised[t].able => settings.openai)
         ELSE task[t].image = "agent"

IntakeInv == TypeOK /\ RowsSound /\ ReadsEquipped /\ RefusedForCause /\ AskedIsGiven

=============================================================================
