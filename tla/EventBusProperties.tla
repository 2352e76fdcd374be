------------------------- MODULE EventBusProperties -------------------------
(***************************************************************************)
(* What the event bus guarantees.                                           *)
(***************************************************************************)
EXTENDS EventBus

BusTypeOK ==
  /\ emitter \in [Emitter -> {"idle", "rlock", "check", "send"}]
  /\ sent \in [Emitter -> 0..MaxEvents]
  /\ closer \in [Closer -> {"idle", "once", "lock", "store", "close", "wait",
                            "drained", "timedOut"}]
  /\ ch \in Seq(Event) /\ chClosed \in BOOLEAN /\ closed \in BOOLEAN
  /\ loop \in {"receive", "snapshot", "notify", "done"}
  /\ event \in Event \cup {NoEvent}
  /\ left \in Seq(Subscriber) /\ subs \in Seq(Subscriber)
  /\ log \in Seq(Event)
  /\ got \in [Subscriber -> Seq(Event)]
  /\ missed \in [Subscriber -> Nat]

-----------------------------------------------------------------------------
(* Safety.                                                                  *)

\* No emit sends on the closed channel and no two closers close it: either is
\* a panic that takes the server down.
NoPanic == chClosed => /\ \A e \in Emitter : emitter[e] # "send"
                       /\ \A c \in Closer : closer[c] # "close"

\* Once a call of Close or CloseWithTimeout has returned, even timed out, no
\* event gets into the bus any more.
CloseIsFinal == [][Returned # {} => log' = log]_vars

\* The bus is an EventLog: each subscriber gets every accepted event whose
\* fan-out began after it subscribed, in order, once, and Close waits for all.
Promise == INSTANCE EventLog WITH
             joined <- Range(subs), from <- missed,
             state <- IF loop = "done" THEN "drained"
                      ELSE IF chClosed THEN "closed" ELSE "open"
KeepsPromise == Promise!Spec

-----------------------------------------------------------------------------
(* The inductive invariant behind the theorems.                             *)

\* emitMu and closeOnce: one closer at a time, no emitter beside it once it
\* has the lock, and closed set by the one closer that closes the channel.
LocksHeld ==
  /\ \A c, d \in Writers : c = d
  /\ OnceDone => Writers = {}
  /\ \A c \in Writers : closer[c] # "lock" => Readers = {}
  /\ chClosed = OnceDone
  /\ closed = (chClosed \/ \E c \in Writers : closer[c] = "close")
  /\ closed => \A e \in Emitter : emitter[e] # "send"

\* The channel is the end of the log, and the event in hand comes before it.
Taken == Len(log) - Len(ch)

QueueOK ==
  /\ Taken >= 0
  /\ \A i \in 1..Len(ch) : ch[i] = log[Taken + i]
  /\ loop \in {"snapshot", "notify"} => Taken > 0 /\ event = log[Taken]
  /\ loop = "done" => chClosed /\ ch = << >>
  /\ loop = "notify" <=> left # << >>

\* An emitter's number is past its events in the log, and past the one at hand.
NumbersOK ==
  /\ \A e \in Emitter : emitter[e] # "idle" => sent[e] > 0
  /\ \A i \in DOMAIN log :
       LET e == log[i][1]
       IN  log[i][2] <= sent[e] /\ (emitter[e] # "idle" => log[i][2] < sent[e])

\* Everyone who subscribed has what was fanned out since, but for the event
\* that those left in the snapshot still wait for.
PositionsOK ==
  /\ IsInjective(subs) /\ IsInjective(left) /\ Range(left) \subseteq Range(subs)
  /\ \A s \in Range(subs) :
       missed[s] + Len(got[s]) = Fanned - (IF s \in Range(left) THEN 1 ELSE 0)
  /\ \A s \in Subscriber \ Range(subs) : got[s] = << >> /\ missed[s] = 0

BusInv == BusTypeOK /\ LocksHeld /\ QueueOK /\ NumbersOK /\ PositionsOK

-----------------------------------------------------------------------------
(* Liveness, whatever the notifiers do.                                     *)

\* Emit never blocks its caller, not on a full buffer, nor on a hung notifier;
\* and CloseWithTimeout returns.
CallsReturn ==
  /\ \A e \in Emitter : emitter[e] # "idle" ~> emitter[e] = "idle"
  /\ \A c \in Closer \ Patient : closer[c] = "once" ~> c \in Returned

\* An accepted event reaches every subscriber of that moment, closed or not,
\* unless some call of Notify never returns.
EventsDelivered ==
  \/ <>[](loop = "notify")
  \/ \A s \in Subscriber :
       (s \in Range(subs) /\ Promise!Missing(s)) ~> ~ Promise!Missing(s)

=============================================================================
