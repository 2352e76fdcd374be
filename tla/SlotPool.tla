------------------------------ MODULE SlotPool ------------------------------
(***************************************************************************)
(* What the dispatcher promises about o.running: while the server is up it   *)
(* is a pool of Limit slots, from which a slot is taken only when one is     *)
(* left.  A crash forgets the pool, and recovery reopens it with as many     *)
(* slots taken as it finds tasks holding one, be they more than Limit.       *)
(***************************************************************************)
EXTENDS Naturals

CONSTANT Limit

VARIABLES used, open

Init == used = 0 /\ open = FALSE

Take   == open /\ used < Limit /\ used' = used + 1 /\ UNCHANGED open
Give   == open /\ used > 0 /\ used' = used - 1 /\ UNCHANGED open
Close  == open /\ open' = FALSE /\ used' = 0
Reopen == ~ open /\ open' = TRUE /\ used' \in Nat

Next == Take \/ Give \/ Close \/ Reopen

Spec == Init /\ [][Next]_<<used, open>>

=============================================================================
