--------------------------- MODULE MCReadPipeline ---------------------------
(* The read pipeline as TLC checks it: urls are interchangeable.            *)
EXTENDS ReadPipeline, TLC

UrlSymmetry == Permutations(Url)

Asked(op)  == {t \in Task : [op |-> op, id |-> t] \in requests}
Retried    == {t \in Task : task[t].uretry > 0}
Cancelled  == {t \in Task : task[t].status = "cancelled" \/ t \in undone}
Deleted    == {t \in Task : task[t].status = "deleted"}

\* At most two of: a crash, a failure, a task retried, cancelled or deleted.
TwoTroubles ==
  crashes + faults + storeFaults
    + Cardinality(Retried) + Cardinality(Asked("retry"))
    + Cardinality(Cancelled \cup Asked("cancel"))
    + Cardinality(Deleted \cup Asked("delete")) <= 2

=============================================================================
