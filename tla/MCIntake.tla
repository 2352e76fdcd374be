------------------------------ MODULE MCIntake ------------------------------
(* Intake as TLC checks it.  Settings that play no part are fixed, a reader   *)
(* may be set up completely, lack any part, or have a NaN for a limit, and two *)
(* sets of defaults stand for all: sound ones, and ones with limits that no    *)
(* column takes.                                                            *)
EXTENDS Intake

Defaults ==
  {[harness |-> "claude_code", limit |-> "high", createPR |-> TRUE],
   [harness |-> "codex", limit |-> "huge", createPR |-> FALSE]}

\* A reader's definition and the bucket matter under Fargate only.
Runner ==
  {r \in [mode : {"docker", "fargate"}, definition : BOOLEAN, s3 : BOOLEAN] :
     r.definition \/ r.s3 => r.mode = "fargate"}

Reader ==
  {r \in [image : BOOLEAN, supabase : BOOLEAN, limit : {"zero", "high", "nan"}] :
     /\ r.limit # "high" => r.supabase
     /\ ~ r.image => r.supabase /\ r.limit = "high"}

AnyEnvironment ==
  {[mode |-> runner.mode, readerImage |-> reader.image, readerDefinition |-> runner.definition,
    supabase |-> reader.supabase, openai |-> openai, s3 |-> runner.s3, harness |-> d.harness,
    limit |-> d.limit, readLimit |-> reader.limit, createPR |-> d.createPR] :
      runner \in Runner, reader \in Reader, openai \in BOOLEAN, d \in Defaults}

\* NaN with docker and an embedder alone: no test of a limit looks at either.
MCEnvironment ==
  {e \in AnyEnvironment : e.readLimit = "nan" => e.mode = "docker" /\ e.openai}

=============================================================================
