--------------------------- MODULE TaskLifecycle ----------------------------
(***************************************************************************)
(* The life of a task as the statements of the orchestrator and a retry      *)
(* shape it, when nobody cancels or deletes it: an attempt goes through      *)
(* dispatch to an end, is interrupted by restarts and lost containers, and   *)
(* only a failed task starts over.  A completed task stays completed.        *)
(*                                                                         *)
(* These are the edges of the code.  The diagram of docs/schema.md:146-154   *)
(* has a lost container's task pass through interrupted, which requeueTask   *)
(* never writes (running goes straight to pending), and has no task fail     *)
(* before it runs, as dispatch makes one fail.                               *)
(***************************************************************************)
CONSTANT Task

VARIABLE status

Init == status = [t \in Task |-> "new"]

Move(t, from, to) == /\ status[t] \in from
                     /\ \E s \in to : status' = [status EXCEPT ![t] = s]

Create(t)   == Move(t, {"new"}, {"pending"})
Dispatch(t) == \/ Move(t, {"pending"}, {"provisioning"})
               \/ Move(t, {"provisioning"}, {"running"})
               \/ Move(t, {"pending", "provisioning"}, {"failed"})
End(t)      == Move(t, {"running", "recovering"}, {"completed", "failed"})
Orphan(t)   == Move(t, {"provisioning", "running"}, {"recovering"})
Promote(t)  == Move(t, {"recovering"}, {"running"})
Requeue(t)  == Move(t, {"running", "recovering"}, {"pending"})
Retry(t)    == Move(t, {"failed"}, {"pending"})

Next == \E t \in Task : \/ Create(t) \/ Dispatch(t) \/ End(t) \/ Orphan(t)
                        \/ Promote(t) \/ Requeue(t) \/ Retry(t)

Spec == Init /\ [][Next]_status

=============================================================================
