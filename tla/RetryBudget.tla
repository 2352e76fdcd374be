---------------------------- MODULE RetryBudget -----------------------------
(***************************************************************************)
(* What the server promises about user retries: a retry passes through a     *)
(* gate that the orchestrator opened, shuts it behind itself, and is one of  *)
(* at most Limit for the life of the task.                                  *)
(***************************************************************************)
EXTENDS Naturals

CONSTANTS Task, Limit

VARIABLES gate, used

Init == /\ gate = [t \in Task |-> "shut"]
        /\ used = [t \in Task |-> 0]

Open(t)  == gate[t] # "gone" /\ gate' = [gate EXCEPT ![t] = "open"] /\ UNCHANGED used
Shut(t)  == gate[t] # "gone" /\ gate' = [gate EXCEPT ![t] = "shut"] /\ UNCHANGED used

Retry(t) == /\ gate[t] = "open" /\ used[t] < Limit
            /\ gate' = [gate EXCEPT ![t] = "shut"]
            /\ used' = [used EXCEPT ![t] = @ + 1]

\* The task is deleted, and its record with it.
Forget(t) == /\ gate' = [gate EXCEPT ![t] = "gone"]
             /\ used' = [used EXCEPT ![t] = 0]

Next == \E t \in Task : Open(t) \/ Shut(t) \/ Retry(t) \/ Forget(t)

Spec == Init /\ [][Next]_<<gate, used>>

=============================================================================
