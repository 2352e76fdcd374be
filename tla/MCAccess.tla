------------------------------ MODULE MCAccess ------------------------------
(***************************************************************************)
(* The values of Access's constants for TLC.                                *)
(***************************************************************************)
EXTENDS Access, TLC

CONSTANT k1

\* A key that may read and not write.
MCPermissions == k1 :> {"stats:read", "tasks:read"}

\* Each setting off, and on.
MCSetup ==
  {[apiKey |-> FALSE, restrictAPI |-> FALSE, roles |-> TRUE],
   [apiKey |-> FALSE, restrictAPI |-> TRUE,  roles |-> FALSE],
   [apiKey |-> TRUE,  restrictAPI |-> FALSE, roles |-> TRUE]}

\* Requests are interchangeable.
RequestSymmetry == Permutations(Request)

=============================================================================
