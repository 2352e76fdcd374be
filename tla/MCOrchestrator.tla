--------------------------- MODULE MCOrchestrator ---------------------------
(***************************************************************************)
(* The module TLC checks: the orchestrator with its properties, under the    *)
(* values the configurations give the constants.                            *)
(***************************************************************************)
EXTENDS OrchestratorProperties, TLC

\* Requests are interchangeable.  Used by the runs of more than one request
\* that check no liveness.
RequestSymmetry == Permutations(Requests)

\* Retries that have gone through or are under way.
Retrying == MapThenSumSet(LAMBDA t : task[t].uretry, Task)
              + Cardinality({r \in Requests : req[r] # NoRequest})

\* Tasks whose inspection has failed and not succeeded since.
Unseen == Cardinality({t \in Task : failures[t] > 0})

\* Crashes, reclaimed containers, failed statements, retries and tasks that
\* cannot be inspected, any two of them in one behaviour.
TwoTroubles == crashes + faults + storeFaults + Retrying + Unseen <= 2

=============================================================================
