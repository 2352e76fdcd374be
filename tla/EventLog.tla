------------------------------ MODULE EventLog ------------------------------
(***************************************************************************)
(* What the event bus promises.  The events it accepts form a log.  A        *)
(* subscriber receives, in order and once each, the events of the log from   *)
(* some point at or before the end of the log when it subscribed; an emitter's *)
(* events enter the log in the order it emitted them, though some may be      *)
(* lost on the way in.  Nothing is accepted once the bus is closed, and the   *)
(* bus reports that it is drained only when everyone has everything.          *)
(***************************************************************************)
EXTENDS Naturals, Sequences

CONSTANTS Event, Subscriber     \* an event is <<emitter, its number>>

VARIABLES log, joined, from, got, state

\* An emitter's later events follow its earlier ones.
Follows(e, f) == e[1] = f[1] => e[2] > f[2]

Missing(s) == from[s] + Len(got[s]) < Len(log)

Init == /\ log = << >> /\ joined = {} /\ state = "open"
        /\ from = [s \in Subscriber |-> 0]
        /\ got = [s \in Subscriber |-> << >>]

Accept(e) ==
  /\ state = "open"
  /\ \A i \in DOMAIN log : Follows(e, log[i])
  /\ log' = Append(log, e)
  /\ UNCHANGED <<joined, from, got, state>>

Join(s) ==
  /\ s \notin joined
  /\ joined' = joined \cup {s}
  /\ \E n \in 0..Len(log) : from' = [from EXCEPT ![s] = n]
  /\ UNCHANGED <<log, got, state>>

Deliver(s) ==
  /\ s \in joined /\ Missing(s) /\ state # "drained"
  /\ got' = [got EXCEPT ![s] = Append(@, log[from[s] + Len(@) + 1])]
  /\ UNCHANGED <<log, joined, from, state>>

Close == state = "open" /\ state' = "closed" /\ UNCHANGED <<log, joined, from, got>>

Drain == /\ state = "closed" /\ \A s \in joined : ~ Missing(s)
         /\ state' = "drained"
         /\ UNCHANGED <<log, joined, from, got>>

Next == \/ \E e \in Event : Accept(e)
        \/ \E s \in Subscriber : Join(s) \/ Deliver(s)
        \/ Close \/ Drain

Spec == Init /\ [][Next]_<<log, joined, from, got, state>>

=============================================================================
