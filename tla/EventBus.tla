------------------------------ MODULE EventBus ------------------------------
(***************************************************************************)
(* The event bus (internal/notify/bus.go): goroutines that emit task events, *)
(* callers of Close and CloseWithTimeout, notifiers that subscribe, and the  *)
(* goroutine that delivers.  They share a buffered channel, the flag closed, *)
(* emitMu, closeOnce and the list of subscribers.                            *)
(*                                                                         *)
(* A goroutine is a program counter.  Holding emitMu is a set of values of   *)
(* it: an emitter holds the read lock at "check" and "send"; the closer that *)
(* closeOnce let in has called Lock at "lock", which already keeps new       *)
(* readers out, and holds it at "store" and "close".  A lock is released in  *)
(* the step before the caller goes on, as nothing happens in between.        *)
(*                                                                         *)
(* MaxEvents bounds what one emitter emits.  The variables log, got and      *)
(* missed are history: what went through the channel, what each subscriber   *)
(* was given, and how many events were past it when it subscribed.           *)
(***************************************************************************)
EXTENDS Integers, Sequences, Functions

CONSTANTS
  Emitter,      \* goroutines that emit: the orchestrator, API handlers
  Closer,       \* callers of Close or CloseWithTimeout
  Patient,      \* those of Close, which waits without a timeout
  Subscriber,   \* notifiers
  BufferSize,   \* defaultBufferSize
  MaxEvents

ASSUME BusAssumption ==
  /\ Patient \subseteq Closer
  /\ BufferSize \in Nat \ {0} /\ MaxEvents \in Nat

VARIABLES
  emitter, sent,          \* where each emitter is, how many events it has emitted
  closer,                 \* where each closer is
  ch, chClosed, closed,   \* the channel, whether close(ch) ran, the atomic flag
  loop, event, left,      \* deliver: where it is, the event, the snapshot's rest
  subs,                   \* subscribers
  log, got, missed        \* history

channel  == <<ch, chClosed, closed>>
delivery == <<loop, event, left>>
history  == <<log, got, missed>>
vars == <<emitter, sent, closer, ch, chClosed, closed, loop, event, left, subs,
          log, got, missed>>

Event == Emitter \X (1..MaxEvents)

\* No event in hand.
NoEvent == << >>

Readers  == {e \in Emitter : emitter[e] \in {"check", "send"}}
Writers  == {c \in Closer : closer[c] \in {"lock", "store", "close"}}
Returned == {c \in Closer : closer[c] \in {"drained", "timedOut"}}

\* Whether closeOnce has run its function to the end.
OnceDone == \E c \in Closer : closer[c] = "wait" \/ c \in Returned

-----------------------------------------------------------------------------
(* Emit: RLock, the check, the send that gives up when the buffer is full.   *)

EmitterGoto(e, label) == emitter' = [emitter EXCEPT ![e] = label]

Emit(e) ==
  /\ emitter[e] = "idle" /\ sent[e] < MaxEvents
  /\ sent' = [sent EXCEPT ![e] = @ + 1]
  /\ EmitterGoto(e, "rlock")
  /\ UNCHANGED <<closer, channel, delivery, subs, history>>

RLock(e) ==
  /\ emitter[e] = "rlock" /\ Writers = {}
  /\ EmitterGoto(e, "check")
  /\ UNCHANGED <<sent, closer, channel, delivery, subs, history>>

CheckClosed(e) ==
  /\ emitter[e] = "check"
  /\ EmitterGoto(e, IF closed THEN "idle" ELSE "send")
  /\ UNCHANGED <<sent, closer, channel, delivery, subs, history>>

Send(e) ==
  /\ emitter[e] = "send"
  /\ \/ /\ Len(ch) < BufferSize
        /\ ch' = Append(ch, <<e, sent[e]>>) /\ log' = Append(log, <<e, sent[e]>>)
     \/ /\ Len(ch) = BufferSize
        /\ UNCHANGED <<ch, log>>
  /\ EmitterGoto(e, "idle")
  /\ UNCHANGED <<sent, closer, chClosed, closed, delivery, subs, got, missed>>

EmitStep(e) == RLock(e) \/ CheckClosed(e) \/ Send(e)

-----------------------------------------------------------------------------
(* Close and CloseWithTimeout.                                              *)

CloserGoto(c, label) == closer' = [closer EXCEPT ![c] = label]

Close(c) ==
  /\ closer[c] = "idle"
  /\ CloserGoto(c, "once")
  /\ UNCHANGED <<emitter, sent, channel, delivery, subs, history>>

Once_NoWait(c) ==
  /\ closer[c] = "once"
  /\ CloserGoto(c, IF OnceDone \/ Writers # {} THEN "wait" ELSE "lock")
  /\ UNCHANGED <<emitter, sent, channel, delivery, subs, history>>

\* closeOnce.Do: the first caller runs the function, later ones block until
\* it has returned.
Once(c) ==
  /\ closer[c] = "once"
  /\ \/ ~ OnceDone /\ Writers = {} /\ CloserGoto(c, "lock")
     \/ OnceDone /\ CloserGoto(c, "wait")
  /\ UNCHANGED <<emitter, sent, channel, delivery, subs, history>>

Lock_NoWait(c) ==
  /\ closer[c] = "lock"
  /\ CloserGoto(c, "store")
  /\ UNCHANGED <<emitter, sent, channel, delivery, subs, history>>

Lock(c) ==
  /\ closer[c] = "lock" /\ Readers = {}
  /\ CloserGoto(c, "store")
  /\ UNCHANGED <<emitter, sent, channel, delivery, subs, history>>

StoreClosed(c) ==
  /\ closer[c] = "store"
  /\ closed' = TRUE
  /\ CloserGoto(c, "close")
  /\ UNCHANGED <<emitter, sent, ch, chClosed, delivery, subs, history>>

CloseChannel(c) ==
  /\ closer[c] = "close"
  /\ chClosed' = TRUE
  /\ CloserGoto(c, "wait")
  /\ UNCHANGED <<emitter, sent, ch, closed, delivery, subs, history>>

\* <-b.done
Drained(c) ==
  /\ closer[c] = "wait" /\ loop = "done"
  /\ CloserGoto(c, "drained")
  /\ UNCHANGED <<emitter, sent, channel, delivery, subs, history>>

TimeOut_Drained(c) ==
  /\ closer[c] = "wait" /\ c \notin Patient /\ loop = "done"
  /\ CloserGoto(c, "timedOut")
  /\ UNCHANGED <<emitter, sent, channel, delivery, subs, history>>

\* <-timer.C, or a timeout that is not positive.
TimeOut(c) ==
  /\ closer[c] = "wait" /\ c \notin Patient
  /\ CloserGoto(c, "timedOut")
  /\ UNCHANGED <<emitter, sent, channel, delivery, subs, history>>

CloseStep(c) ==
  Once(c) \/ Lock(c) \/ StoreClosed(c) \/ CloseChannel(c) \/ Drained(c) \/ TimeOut(c)

-----------------------------------------------------------------------------
(* deliver, and Subscribe.                                                  *)

Receive ==
  /\ loop = "receive" /\ ch # << >>
  /\ event' = Head(ch) /\ ch' = Tail(ch)
  /\ loop' = "snapshot"
  /\ UNCHANGED <<emitter, sent, closer, chClosed, closed, left, subs, history>>

Exit_Early ==
  /\ loop = "receive" /\ chClosed
  /\ loop' = "done"
  /\ UNCHANGED <<emitter, sent, closer, channel, event, left, subs, history>>

\* A closed channel ends the loop when it is empty.
Exit ==
  /\ loop = "receive" /\ ch = << >> /\ chClosed
  /\ loop' = "done"
  /\ UNCHANGED <<emitter, sent, closer, channel, event, left, subs, history>>

\* Deliver to the subscribers of S next, or go on to the next event.
NotifyNext(S) ==
  /\ left' = S
  /\ IF S = << >> THEN loop' = "receive" /\ event' = NoEvent
                  ELSE loop' = "notify" /\ UNCHANGED event

Snapshot ==
  /\ loop = "snapshot"
  /\ NotifyNext(subs)
  /\ UNCHANGED <<emitter, sent, closer, channel, subs, history>>

Notified_StopsOnError ==
  /\ loop = "notify"
  /\ got' = [got EXCEPT ![Head(left)] = Append(@, event)]
  /\ NotifyNext(Tail(left)) \/ NotifyNext(<< >>)
  /\ UNCHANGED <<emitter, sent, closer, channel, subs, log, missed>>

\* Notify returns, with an error or without: the error is only logged.
Notified ==
  /\ loop = "notify"
  /\ got' = [got EXCEPT ![Head(left)] = Append(@, event)]
  /\ NotifyNext(Tail(left))
  /\ UNCHANGED <<emitter, sent, closer, channel, subs, log, missed>>

\* Events that deliver has taken the snapshot for.
Fanned == Len(log) - Len(ch) - (IF loop = "snapshot" THEN 1 ELSE 0)

Subscribe(s) ==
  /\ s \notin Range(subs)
  /\ subs' = Append(subs, s)
  /\ missed' = [missed EXCEPT ![s] = Fanned]
  /\ UNCHANGED <<emitter, sent, closer, channel, delivery, log, got>>

-----------------------------------------------------------------------------
Init ==
  /\ emitter = [e \in Emitter |-> "idle"] /\ sent = [e \in Emitter |-> 0]
  /\ closer = [c \in Closer |-> "idle"]
  /\ ch = << >> /\ chClosed = FALSE /\ closed = FALSE
  /\ loop = "receive" /\ event = NoEvent /\ left = << >>
  /\ subs = << >>
  /\ log = << >> /\ got = [s \in Subscriber |-> << >>]
  /\ missed = [s \in Subscriber |-> 0]

Next ==
  \/ \E e \in Emitter : Emit(e) \/ EmitStep(e)
  \/ \E c \in Closer : Close(c) \/ CloseStep(c)
  \/ Receive \/ Exit \/ Snapshot \/ Notified
  \/ \E s \in Subscriber : Subscribe(s)

Spec == Init /\ [][Next]_vars

\* Goroutines run, timers fire.  Whether a Notify returns is not assumed: a
\* notifier may hang, and a waiting Close hangs with it.
Fairness ==
  /\ \A e \in Emitter : WF_vars(EmitStep(e))
  /\ \A c \in Closer : WF_vars(CloseStep(c))
  /\ WF_vars(Receive \/ Exit \/ Snapshot)

FairSpec == Spec /\ Fairness

=============================================================================
