--------------------------- MODULE EventBusProofs ---------------------------
(***************************************************************************)
(* The event bus never panics, is final when closed, and keeps the promise   *)
(* of EventLog, for any number of emitters, closers and subscribers and any  *)
(* size of the buffer.  The three follow from the invariant BusInv, each of  *)
(* whose parts is preserved by every step.                                  *)
(***************************************************************************)
EXTENDS EventBusProperties, TLAPS

-----------------------------------------------------------------------------
(* Types.                                                                   *)

\* What the standard operators do to a nonempty sequence.
LEMMA HeadTail ==
  ASSUME NEW S, NEW q \in Seq(S), q # << >>
  PROVE  /\ Head(q) \in S /\ Tail(q) \in Seq(S) /\ Head(q) = q[1]
         /\ Len(q) \in Nat /\ Len(q) > 0 /\ Len(Tail(q)) = Len(q) - 1
         /\ \A i \in 1..Len(Tail(q)) : Tail(q)[i] = q[i + 1]
OBVIOUS

LEMMA TypeInit == Init => BusTypeOK
<1> SUFFICES ASSUME Init PROVE BusTypeOK
  OBVIOUS
<1>1. << >> \in Seq(Event) /\ << >> \in Seq(Subscriber)
  OBVIOUS
<1>2. 0 \in 0..MaxEvents
  BY BusAssumption
<1> QED
  BY <1>1, <1>2 DEF Init, BusTypeOK

\* Fanned is a natural number as long as the channel is the end of the log.
LEMMA FannedNat == ASSUME BusTypeOK, QueueOK PROVE Fanned \in Nat
BY DEF BusTypeOK, QueueOK, Taken, Fanned

LEMMA TypeStep == ASSUME BusTypeOK, QueueOK, NumbersOK, [Next]_vars PROVE BusTypeOK'
<1> USE DEF BusTypeOK, channel, delivery, history
<1>1. ASSUME NEW e \in Emitter, Emit(e) PROVE BusTypeOK'
  BY <1>1, BusAssumption DEF Emit, EmitterGoto
<1>2. ASSUME NEW e \in Emitter, RLock(e) \/ CheckClosed(e) PROVE BusTypeOK'
  BY <1>2 DEF RLock, CheckClosed, EmitterGoto
<1>3. ASSUME NEW e \in Emitter, Send(e) PROVE BusTypeOK'
  <2>1. <<e, sent[e]>> \in Event
    <3>1. sent[e] \in 0..MaxEvents /\ sent[e] > 0
      BY <1>3 DEF Send, NumbersOK
    <3>2. sent[e] \in 1..MaxEvents
      BY <3>1, BusAssumption
    <3> QED
      BY <3>2 DEF Event
  <2>2. /\ Append(ch, <<e, sent[e]>>) \in Seq(Event)
        /\ Append(log, <<e, sent[e]>>) \in Seq(Event)
    BY <2>1
  <2>3. ch' \in Seq(Event) /\ log' \in Seq(Event)
    BY <1>3, <2>2 DEF Send
  <2>4. emitter' \in [Emitter -> {"idle", "rlock", "check", "send"}]
    BY <1>3 DEF Send, EmitterGoto
  <2> QED
    BY <1>3, <2>3, <2>4 DEF Send
<1>4. ASSUME NEW c \in Closer, Close(c) \/ CloseStep(c) PROVE BusTypeOK'
  BY <1>4 DEF Close, CloseStep, Once, Lock, StoreClosed, CloseChannel, Drained, TimeOut, CloserGoto
<1>5. CASE Receive
  BY <1>5, HeadTail DEF Receive
<1>6. CASE Exit
  BY <1>6 DEF Exit
<1>7. CASE Snapshot
  BY <1>7 DEF Snapshot, NotifyNext
<1>8. CASE Notified
  <2>1. event \in Event
    <3>1. Taken > 0 /\ event = log[Taken]
      BY <1>8 DEF Notified, QueueOK
    <3>2. Taken \in 1..Len(log)
      BY <3>1 DEF Taken
    <3> QED
      BY <3>1, <3>2
  <2>2. Head(left) \in Subscriber /\ Tail(left) \in Seq(Subscriber)
    BY <1>8, HeadTail DEF Notified, QueueOK
  <2>3. got' \in [Subscriber -> Seq(Event)]
    BY <1>8, <2>1, <2>2 DEF Notified
  <2>4. left' \in Seq(Subscriber) /\ event' \in Event \cup {NoEvent}
        /\ loop' \in {"receive", "notify"}
    BY <1>8, <2>1, <2>2 DEF Notified, NotifyNext
  <2> QED
    BY <1>8, <2>3, <2>4 DEF Notified
<1>9. ASSUME NEW s \in Subscriber, Subscribe(s) PROVE BusTypeOK'
  BY <1>9, FannedNat DEF Subscribe
<1>10. CASE UNCHANGED vars
  BY <1>10 DEF vars
<1> QED
  BY <1>1, <1>2, <1>3, <1>4, <1>5, <1>6, <1>7, <1>8, <1>9, <1>10 DEF Next, EmitStep

-----------------------------------------------------------------------------
(* Locks.                                                                   *)

LEMMA LocksInit == Init => LocksHeld
BY DEF Init, LocksHeld, Writers, Readers, OnceDone, Returned

LEMMA LocksStep == ASSUME BusTypeOK, LocksHeld, [Next]_vars PROVE LocksHeld'
<1> USE DEF BusTypeOK, LocksHeld, Writers, Readers, OnceDone, Returned, channel, EmitterGoto, CloserGoto
<1>1. ASSUME NEW e \in Emitter, Emit(e) \/ EmitStep(e) PROVE LocksHeld'
  <2>1. UNCHANGED <<closer, chClosed, closed>>
    BY <1>1 DEF Emit, EmitStep, RLock, CheckClosed, Send
  <2>2. CASE RLock(e)
    BY <2>1, <2>2 DEF RLock
  <2>3. CASE CheckClosed(e)
    BY <2>1, <2>3 DEF CheckClosed
  <2>4. CASE Emit(e) \/ Send(e)
    BY <2>1, <2>4 DEF Emit, Send
  <2> QED
    BY <1>1, <2>2, <2>3, <2>4 DEF EmitStep
<1>2. ASSUME NEW c \in Closer, Close(c) PROVE LocksHeld'
  BY <1>2 DEF Close
<1>3. ASSUME NEW c \in Closer, Once(c) PROVE LocksHeld'
  BY <1>3 DEF Once
<1>4. ASSUME NEW c \in Closer, Lock(c) PROVE LocksHeld'
  BY <1>4 DEF Lock
<1>5. ASSUME NEW c \in Closer, StoreClosed(c) PROVE LocksHeld'
  <2>1. /\ closer[c] = "store" /\ closed' = TRUE
        /\ closer' = [closer EXCEPT ![c] = "close"]
        /\ UNCHANGED <<emitter, chClosed>>
    BY <1>5 DEF StoreClosed
  <2>2. Readers = {} /\ Writers' = Writers /\ c \in Writers
    BY <2>1
  <2> QED
    BY <2>1, <2>2
<1>6. ASSUME NEW c \in Closer, CloseChannel(c) PROVE LocksHeld'
  <2>1. /\ closer[c] = "close" /\ chClosed' = TRUE
        /\ closer' = [closer EXCEPT ![c] = "wait"]
        /\ UNCHANGED <<emitter, closed>>
    BY <1>6 DEF CloseChannel
  <2>2. c \in Writers /\ closed
    BY <2>1
  <2>3. Writers' = {} /\ OnceDone'
    BY <2>1, <2>2
  <2> QED
    BY <2>1, <2>2, <2>3
<1>7. ASSUME NEW c \in Closer, Drained(c) \/ TimeOut(c) PROVE LocksHeld'
  BY <1>7 DEF Drained, TimeOut
<1>8. CASE Receive \/ Exit \/ Snapshot \/ Notified \/ \E s \in Subscriber : Subscribe(s)
  BY <1>8 DEF Receive, Exit, Snapshot, Notified, Subscribe
<1>9. CASE UNCHANGED vars
  BY <1>9 DEF vars
<1> QED
  BY <1>1, <1>2, <1>3, <1>4, <1>5, <1>6, <1>7, <1>8, <1>9 DEF Next, CloseStep

-----------------------------------------------------------------------------
(* The channel and the log.                                                 *)

LEMMA QueueInit == Init => QueueOK
BY DEF Init, QueueOK, Taken

LEMMA QueueStep == ASSUME BusInv, [Next]_vars PROVE QueueOK'
<1> USE DEF BusInv, BusTypeOK
<1>1. ASSUME NEW e \in Emitter, Send(e), Len(ch) < BufferSize PROVE QueueOK'
  <2> DEFINE x == <<e, sent[e]>>
  <2>1. ch' = Append(ch, x) /\ log' = Append(log, x) /\ UNCHANGED <<loop, event, left, chClosed>>
    BY <1>1 DEF Send, delivery
  <2>2. loop # "done"
    BY <1>1 DEF Send, QueueOK, LocksHeld
  <2>3. /\ Len(ch') = Len(ch) + 1 /\ Len(log') = Len(log) + 1
        /\ \A i \in 1..Len(ch) : ch'[i] = ch[i]
        /\ \A i \in 1..Len(log) : log'[i] = log[i]
        /\ ch'[Len(ch) + 1] = x /\ log'[Len(log) + 1] = x
    BY <2>1
  <2>4. /\ Taken' = Taken /\ Taken \in Nat /\ Taken + Len(ch) = Len(log)
        /\ Taken + (Len(ch) + 1) = Len(log) + 1
    BY <2>3 DEF Taken, QueueOK
  <2>5. \A i \in 1..Len(ch') : ch'[i] = log'[Taken + i]
    <3>1. TAKE i \in 1..Len(ch')
    <3>2. CASE i = Len(ch) + 1
      BY ONLY <2>3, <2>4, <3>2
    <3>3. CASE i \in 1..Len(ch)
      <4>1. Taken + i \in 1..Len(log)
        BY <2>4, <3>3
      <4> QED
        BY <2>3, <3>3, <4>1 DEF QueueOK
    <3> QED
      BY <2>3, <3>2, <3>3
  <2>6. loop \in {"snapshot", "notify"} => Taken > 0 /\ event = log'[Taken]
    <3>1. HAVE loop \in {"snapshot", "notify"}
    <3>2. Taken > 0 /\ event = log[Taken]
      BY <3>1 DEF QueueOK
    <3>3. Taken \in 1..Len(log)
      BY ONLY <2>4, <3>2, Len(ch) \in Nat, Len(log) \in Nat
    <3> QED
      BY ONLY <2>3, <3>2, <3>3
  <2> QED
    BY <2>1, <2>2, <2>4, <2>5, <2>6 DEF QueueOK
<1>2. CASE Receive
  <2>1. /\ loop' = "snapshot" /\ event' = Head(ch) /\ ch' = Tail(ch) /\ ch # << >>
        /\ loop = "receive" /\ UNCHANGED <<log, left, chClosed>>
    BY <1>2 DEF Receive, history
  <2>2. /\ Len(ch') = Len(ch) - 1 /\ Len(ch) > 0 /\ event' = ch[1]
        /\ \A i \in 1..Len(ch') : ch'[i] = ch[i + 1]
    BY <2>1, HeadTail
  <2>3. Taken' = Taken + 1 /\ Taken \in Nat
    BY <2>1, <2>2 DEF Taken, QueueOK
  <2>4. event' = log[Taken + 1]
    BY <2>2 DEF QueueOK
  <2>5. \A i \in 1..Len(ch') : ch'[i] = log[Taken + 1 + i]
    <3>1. \A i \in 1..Len(ch') : i + 1 \in 1..Len(ch) /\ Taken + (i + 1) = Taken + 1 + i
      BY <2>2, <2>3
    <3> QED
      BY <2>2, <3>1 DEF QueueOK
  <2> QED
    BY <2>1, <2>3, <2>4, <2>5 DEF QueueOK
<1>3. CASE Exit
  BY <1>3 DEF Exit, QueueOK, Taken, channel, history
<1>4. CASE Snapshot
  BY <1>4 DEF Snapshot, NotifyNext, QueueOK, Taken, channel, history
<1>5. CASE Notified
  BY <1>5 DEF Notified, NotifyNext, QueueOK, Taken, channel
<1>6. ASSUME NEW c \in Closer, CloseChannel(c) PROVE QueueOK'
  BY <1>6 DEF CloseChannel, QueueOK, Taken, delivery, history
<1>7. CASE UNCHANGED <<ch, chClosed, log, loop, event, left>>
  BY <1>7 DEF QueueOK, Taken
<1>8. ASSUME NEW e \in Emitter, Emit(e) \/ EmitStep(e), ~ (Send(e) /\ Len(ch) < BufferSize)
      PROVE  UNCHANGED <<ch, chClosed, log, loop, event, left>>
  BY <1>8 DEF Emit, EmitStep, RLock, CheckClosed, Send, channel, delivery, history
<1>9. ASSUME NEW c \in Closer, Close(c) \/ CloseStep(c), ~ CloseChannel(c)
      PROVE  UNCHANGED <<ch, chClosed, log, loop, event, left>>
  BY <1>9 DEF Close, CloseStep, Once, Lock, StoreClosed, Drained, TimeOut, channel, delivery, history
<1>10. ASSUME NEW s \in Subscriber, Subscribe(s)
       PROVE  UNCHANGED <<ch, chClosed, log, loop, event, left>>
  BY <1>10 DEF Subscribe, channel, delivery
<1>11. UNCHANGED vars => UNCHANGED <<ch, chClosed, log, loop, event, left>>
  BY DEF vars
<1> QED
  BY <1>1, <1>2, <1>3, <1>4, <1>5, <1>6, <1>7, <1>8, <1>9, <1>10, <1>11 DEF Next

-----------------------------------------------------------------------------
(* The numbers of events.                                                   *)

LEMMA NumbersInit == Init => NumbersOK
BY DEF Init, NumbersOK

LEMMA NumbersStep == ASSUME BusInv, [Next]_vars PROVE NumbersOK'
<1> USE DEF BusInv, BusTypeOK, EmitterGoto
<1>1. \A i \in DOMAIN log : log[i][1] \in Emitter /\ log[i][2] \in Nat
  BY BusAssumption DEF Event
<1>2. \A e \in Emitter : sent[e] \in Nat
  BY BusAssumption
<1>3. ASSUME NEW e \in Emitter, Emit(e) PROVE NumbersOK'
  BY <1>1, <1>2, <1>3 DEF Emit, NumbersOK, history
<1>4. ASSUME NEW e \in Emitter, RLock(e) PROVE NumbersOK'
  BY <1>1, <1>2, <1>4 DEF RLock, NumbersOK, history
<1>5. ASSUME NEW e \in Emitter, CheckClosed(e) PROVE NumbersOK'
  BY <1>1, <1>2, <1>5 DEF CheckClosed, NumbersOK, history
<1>6. ASSUME NEW e \in Emitter, Send(e) PROVE NumbersOK'
  <2> DEFINE x == <<e, sent[e]>>
  <2>1. /\ emitter' = [emitter EXCEPT ![e] = "idle"] /\ sent' = sent
        /\ log' = log \/ log' = Append(log, x)
    BY <1>6 DEF Send
  <2>2. ASSUME NEW i \in DOMAIN log'
        PROVE  log'[i] = x \/ (i \in DOMAIN log /\ log'[i] = log[i])
    <3>1. CASE log' = log
      BY <2>2, <3>1
    <3>2. CASE log' = Append(log, x)
      BY <2>2, <3>2
    <3> QED
      BY <2>1, <3>1, <3>2
  <2>3. ASSUME NEW d \in Emitter, emitter'[d] # "idle" PROVE emitter[d] # "idle"
    BY <2>1, <2>3
  <2>4. \A d \in Emitter : emitter'[d] # "idle" => sent'[d] > 0
    BY <2>1, <2>3 DEF NumbersOK
  <2>5. ASSUME NEW i \in DOMAIN log'
        PROVE  /\ log'[i][2] <= sent'[log'[i][1]]
               /\ emitter'[log'[i][1]] # "idle" => log'[i][2] < sent'[log'[i][1]]
    <3>1. CASE log'[i] = x
      BY <1>2, <2>1, <3>1
    <3>2. CASE i \in DOMAIN log /\ log'[i] = log[i]
      BY <1>1, <2>1, <2>3, <3>2 DEF NumbersOK
    <3> QED
      BY <2>2, <3>1, <3>2
  <2> QED
    BY <2>4, <2>5 DEF NumbersOK
<1>7. UNCHANGED <<log, sent, emitter>> => NumbersOK'
  BY DEF NumbersOK
<1>8. ASSUME NEW c \in Closer, Close(c) \/ CloseStep(c) PROVE UNCHANGED <<log, sent, emitter>>
  BY <1>8 DEF Close, CloseStep, Once, Lock, StoreClosed, CloseChannel, Drained, TimeOut, history
<1>9. Receive \/ Exit \/ Snapshot \/ Notified => UNCHANGED <<log, sent, emitter>>
  BY DEF Receive, Exit, Snapshot, Notified, history
<1>10. ASSUME NEW s \in Subscriber, Subscribe(s) PROVE UNCHANGED <<log, sent, emitter>>
  BY <1>10 DEF Subscribe
<1>11. UNCHANGED vars => UNCHANGED <<log, sent, emitter>>
  BY DEF vars
<1> QED
  BY <1>3, <1>4, <1>5, <1>6, <1>7, <1>8, <1>9, <1>10, <1>11 DEF Next, EmitStep

-----------------------------------------------------------------------------
(* The subscribers' positions in the log.                                   *)

LEMMA RangeEmpty == Range(<< >>) = {} /\ IsInjective(<< >>)
BY DEF Range, IsInjective

LEMMA RangeType == ASSUME NEW S, NEW q \in Seq(S) PROVE Range(q) \subseteq S
BY DEF Range

LEMMA RangeTail ==
  ASSUME NEW S, NEW q \in Seq(S), q # << >>, IsInjective(q)
  PROVE  /\ Head(q) \in Range(q) /\ Range(Tail(q)) = Range(q) \ {Head(q)}
         /\ IsInjective(Tail(q))
<1>1. /\ Len(q) \in Nat /\ Len(q) > 0 /\ Head(q) = q[1] /\ Tail(q) \in Seq(S)
      /\ DOMAIN q = 1..Len(q) /\ DOMAIN Tail(q) = 1..(Len(q) - 1)
      /\ \A i \in 1..(Len(q) - 1) : Tail(q)[i] = q[i + 1]
  BY HeadTail
<1>2. Head(q) \in Range(q)
  BY <1>1 DEF Range
<1>3. ASSUME NEW x \in Range(Tail(q)) PROVE x \in Range(q) \ {Head(q)}
  <2>1. PICK i \in 1..(Len(q) - 1) : x = q[i + 1]
    BY <1>1, <1>3 DEF Range
  <2>2. i + 1 \in DOMAIN q /\ 1 \in DOMAIN q /\ i + 1 # 1
    BY <1>1
  <2> QED
    BY <1>1, <2>1, <2>2 DEF Range, IsInjective
<1>4. ASSUME NEW x \in Range(q) \ {Head(q)} PROVE x \in Range(Tail(q))
  <2>1. PICK i \in 1..Len(q) : x = q[i]
    BY <1>1 DEF Range
  <2>2. i - 1 \in 1..(Len(q) - 1) /\ (i - 1) + 1 = i
    BY <1>1, <2>1
  <2> QED
    BY <1>1, <2>1, <2>2 DEF Range
<1>5. IsInjective(Tail(q))
  <2>1. \A i \in 1..(Len(q) - 1) : i + 1 \in 1..Len(q)
    BY <1>1
  <2> QED
    BY <1>1, <2>1 DEF IsInjective
<1> QED
  BY <1>2, <1>3, <1>4, <1>5

LEMMA RangeAppend ==
  ASSUME NEW S, NEW q \in Seq(S), NEW x \in S, x \notin Range(q), IsInjective(q)
  PROVE  Range(Append(q, x)) = Range(q) \cup {x} /\ IsInjective(Append(q, x))
<1>1. /\ Len(q) \in Nat /\ DOMAIN q = 1..Len(q)
      /\ DOMAIN Append(q, x) = 1..(Len(q) + 1) /\ Append(q, x)[Len(q) + 1] = x
      /\ \A i \in 1..Len(q) : Append(q, x)[i] = q[i]
  OBVIOUS
<1>2. \A i \in 1..(Len(q) + 1) : i \in 1..Len(q) \/ i = Len(q) + 1
  BY <1>1
<1>3. 1..Len(q) \subseteq 1..(Len(q) + 1) /\ Len(q) + 1 \in 1..(Len(q) + 1)
  BY <1>1
<1> DEFINE r == Append(q, x)
<1> HIDE DEF r
<1>4. Range(r) = Range(q) \cup {x}
  BY <1>1, <1>2, <1>3 DEF r, Range
<1>5. IsInjective(r)
  <2>1. ASSUME NEW a \in DOMAIN r, NEW b \in DOMAIN r, r[a] = r[b] PROVE a = b
    BY <1>1, <1>2, <2>1 DEF r, Range, IsInjective
  <2> QED
    BY <2>1 DEF IsInjective
<1> QED
  BY <1>4, <1>5 DEF r

LEMMA PositionsInit == Init => PositionsOK
BY RangeEmpty DEF Init, PositionsOK, Fanned

\* A step that keeps Fanned, the snapshot and the histories keeps PositionsOK.
LEMMA PositionsKept ==
  ASSUME PositionsOK, Fanned' = Fanned, UNCHANGED <<left, subs, got, missed>>
  PROVE  PositionsOK'
BY DEF PositionsOK

LEMMA PositionsStep == ASSUME BusInv, [Next]_vars PROVE PositionsOK'
<1> USE DEF BusInv, BusTypeOK
<1>1. ASSUME NEW e \in Emitter, Emit(e) \/ EmitStep(e) PROVE PositionsOK'
  <2>1. Fanned' = Fanned /\ UNCHANGED <<left, subs, got, missed>>
    <3>1. CASE UNCHANGED <<ch, log, loop, left, subs, got, missed>>
      BY <3>1 DEF Fanned
    <3>2. CASE Send(e)
      <4> DEFINE x == <<e, sent[e]>>
      <4>1. /\ UNCHANGED <<loop, left, subs, got, missed>>
            /\ UNCHANGED <<ch, log>> \/ (ch' = Append(ch, x) /\ log' = Append(log, x))
        BY <3>2 DEF Send, delivery
      <4>2. CASE ch' = Append(ch, x) /\ log' = Append(log, x)
        <5>1. Len(ch') = Len(ch) + 1 /\ Len(log') = Len(log) + 1
          BY <4>2
        <5> QED
          BY <4>1, <5>1 DEF Fanned
      <4> QED
        BY <3>1, <4>1, <4>2
    <3> QED
      BY <1>1, <3>1, <3>2
         DEF Emit, EmitStep, RLock, CheckClosed, channel, delivery, history
  <2> QED
    BY <2>1, PositionsKept
<1>2. ASSUME NEW c \in Closer, Close(c) \/ CloseStep(c) PROVE PositionsOK'
  <2>1. UNCHANGED <<ch, log, loop, left, subs, got, missed>>
    BY <1>2 DEF Close, CloseStep, Once, Lock, StoreClosed, CloseChannel, Drained, TimeOut,
                channel, delivery, history
  <2>2. Fanned' = Fanned
    BY <2>1 DEF Fanned
  <2> QED
    BY <2>1, <2>2, PositionsKept
<1>3. CASE Receive
  <2>1. /\ Len(ch) > 0 /\ Len(ch') = Len(ch) - 1 /\ loop = "receive" /\ loop' = "snapshot"
        /\ UNCHANGED <<log, left, subs, got, missed>>
    BY <1>3, HeadTail DEF Receive, history
  <2>2. Fanned' = Fanned
    BY <2>1 DEF Fanned
  <2> QED
    BY <2>1, <2>2, PositionsKept
<1>4. CASE Exit
  <2>1. Fanned' = Fanned /\ UNCHANGED <<left, subs, got, missed>>
    BY <1>4 DEF Exit, Fanned, channel, history
  <2> QED
    BY <2>1, PositionsKept
<1>5. CASE Snapshot
  <2>1. /\ loop = "snapshot" /\ loop' # "snapshot" /\ left' = subs
        /\ UNCHANGED <<ch, log, subs, got, missed>>
    BY <1>5 DEF Snapshot, NotifyNext, channel, history
  <2>2. left = << >>
    BY <2>1 DEF QueueOK
  <2>3. Range(left) = {}
    BY <2>2, RangeEmpty
  <2>4. Fanned' = Fanned + 1 /\ Fanned \in Nat
    BY <2>1, FannedNat DEF Fanned
  <2>5. \A s \in Range(subs) : missed[s] + Len(got[s]) = Fanned
    <3>1. ASSUME NEW s \in Range(subs) PROVE missed[s] + Len(got[s]) = Fanned - 0
      BY <2>3, <3>1 DEF PositionsOK
    <3> QED
      BY <2>4, <3>1
  <2> QED
    BY <2>1, <2>4, <2>5 DEF PositionsOK
<1>6. CASE Notified
  <2> DEFINE h == Head(left)
  <2>1. /\ left # << >> /\ left' = Tail(left) /\ loop = "notify" /\ loop' # "snapshot"
        /\ got' = [got EXCEPT ![h] = Append(@, event)]
        /\ UNCHANGED <<ch, log, subs, missed>>
    BY <1>6 DEF Notified, NotifyNext, QueueOK, channel
  <2>2. /\ h \in Range(left) /\ Range(left') = Range(left) \ {h} /\ IsInjective(left')
    BY <2>1, RangeTail DEF PositionsOK
  <2>3. h \in Subscriber /\ h \in Range(subs)
    BY <2>1, <2>2, HeadTail DEF PositionsOK
  <2>4. Fanned' = Fanned /\ Fanned \in Nat
    BY <2>1, FannedNat DEF Fanned
  <2> HIDE DEF h
  <2>5. Len(got'[h]) = Len(got[h]) + 1 /\ \A s \in Subscriber \ {h} : got'[s] = got[s]
    <3>1. event \in Event
      <4>1. Taken > 0 /\ event = log[Taken]
        BY <2>1 DEF QueueOK
      <4>2. Taken \in 1..Len(log)
        BY <4>1 DEF Taken
      <4> QED
        BY <4>1, <4>2
    <3> QED
      BY <2>1, <2>3, <3>1
  <2>6. ASSUME NEW s \in Range(subs)
        PROVE  missed'[s] + Len(got'[s]) = Fanned' - (IF s \in Range(left') THEN 1 ELSE 0)
    <3>1. s \in Subscriber /\ missed[s] \in Nat /\ Len(got[s]) \in Nat
      BY <2>6, RangeType
    <3>2. missed[s] + Len(got[s]) = Fanned - (IF s \in Range(left) THEN 1 ELSE 0)
      BY <2>6 DEF PositionsOK
    <3>3. CASE s = h
      <4>1. missed[s] + Len(got[s]) = Fanned - 1 /\ s \notin Range(left')
        BY <2>2, <3>2, <3>3
      <4>2. missed[s] + Len(got'[s]) = Fanned
        BY ONLY <2>4, <2>5, <3>1, <3>3, <4>1
      <4> QED
        BY <2>1, <2>4, <4>1, <4>2
    <3>4. CASE s # h
      <4>1. (s \in Range(left')) = (s \in Range(left)) /\ got'[s] = got[s]
        BY <2>2, <2>5, <3>1, <3>4
      <4> QED
        BY <2>1, <2>4, <3>2, <4>1
    <3> QED
      BY <3>3, <3>4
  <2>7. \A s \in Subscriber \ Range(subs) : got'[s] = << >> /\ missed'[s] = 0
    BY <2>1, <2>3, <2>5 DEF PositionsOK
  <2> QED
    BY <2>1, <2>2, <2>6, <2>7 DEF PositionsOK
<1>7. ASSUME NEW s \in Subscriber, Subscribe(s) PROVE PositionsOK'
  <2>1. /\ s \notin Range(subs) /\ subs' = Append(subs, s)
        /\ missed' = [missed EXCEPT ![s] = Fanned]
        /\ UNCHANGED <<ch, log, loop, left, got>>
    BY <1>7 DEF Subscribe, channel, delivery
  <2>2. Range(subs') = Range(subs) \cup {s} /\ IsInjective(subs')
    BY <2>1, RangeAppend DEF PositionsOK
  <2>3. Fanned' = Fanned /\ Fanned \in Nat
    BY <2>1, FannedNat DEF Fanned
  <2>4. got[s] = << >> /\ s \notin Range(left) /\ Len(got[s]) = 0
    BY <2>1 DEF PositionsOK
  <2>5. ASSUME NEW u \in Range(subs')
        PROVE  missed'[u] + Len(got'[u]) = Fanned' - (IF u \in Range(left') THEN 1 ELSE 0)
    <3>1. CASE u = s
      BY <2>1, <2>3, <2>4, <3>1
    <3>2. CASE u # s
      <4>1. u \in Range(subs) /\ u \in Subscriber
        BY <2>2, <2>5, <3>2, RangeType
      <4>2. missed'[u] = missed[u] /\ got' = got /\ left' = left
        BY <2>1, <3>2, <4>1
      <4> QED
        BY <2>3, <4>1, <4>2 DEF PositionsOK
    <3> QED
      BY <3>1, <3>2
  <2>6. \A u \in Subscriber \ Range(subs') : got'[u] = << >> /\ missed'[u] = 0
    BY <2>1, <2>2 DEF PositionsOK
  <2> QED
    BY <2>1, <2>2, <2>5, <2>6 DEF PositionsOK
<1>8. CASE UNCHANGED vars
  <2>1. UNCHANGED <<ch, log, loop, left, subs, got, missed>>
    BY <1>8 DEF vars
  <2>2. Fanned' = Fanned
    BY <2>1 DEF Fanned
  <2> QED
    BY <2>1, <2>2, PositionsKept
<1> QED
  BY <1>1, <1>2, <1>3, <1>4, <1>5, <1>6, <1>7, <1>8 DEF Next

-----------------------------------------------------------------------------
(* The theorems.                                                            *)

\* The five parts of BusInv hold in every reachable state of the event bus:
\* emitMu and closeOnce exclude whom they should, the channel is the end of
\* the log, and every subscriber is where the snapshots have put it.
THEOREM BusInvariance == Spec => []BusInv
<1>1. Init => BusInv
  BY TypeInit, LocksInit, QueueInit, NumbersInit, PositionsInit DEF BusInv
<1>2. BusInv /\ [Next]_vars => BusInv'
  BY TypeStep, LocksStep, QueueStep, NumbersStep, PositionsStep DEF BusInv
<1> QED
  BY <1>1, <1>2, PTL DEF Spec

\* Emit never sends on a closed channel and Close never closes it twice.
THEOREM NeverPanics == Spec => []NoPanic
<1>1. BusInv => NoPanic
  BY DEF BusInv, LocksHeld, NoPanic, Writers, OnceDone
<1> QED
  BY <1>1, BusInvariance, PTL

\* After any close call has returned, Emit adds nothing to the channel.
THEOREM ClosedForGood == Spec => CloseIsFinal
<1>1. ASSUME BusInv, [Next]_vars, Returned # {} PROVE log' = log
  <2>1. OnceDone /\ closed
    BY <1>1 DEF OnceDone, Returned, BusInv, LocksHeld
  <2>2. \A e \in Emitter : emitter[e] # "send"
    BY <1>1, <2>1 DEF BusInv, LocksHeld
  <2> QED
    BY <1>1, <2>2
       DEF Next, Emit, EmitStep, RLock, CheckClosed, Send, Close, CloseStep, Once, Lock,
           StoreClosed, CloseChannel, Drained, TimeOut, Receive, Exit, Snapshot, Notified,
           Subscribe, history, vars
<1>2. BusInv /\ [Next]_vars => [Returned # {} => log' = log]_vars
  BY <1>1
<1> QED
  BY <1>2, BusInvariance, PTL DEF Spec, CloseIsFinal

\* The event bus implements EventLog: what it accepts reaches every subscriber
\* in order and once, from its subscription on, and Close waits for the end.
THEOREM EventLogImplemented == Spec => KeepsPromise
<1> DEFINE state == IF loop = "done" THEN "drained"
                    ELSE IF chClosed THEN "closed" ELSE "open"
           view == <<log, Range(subs), missed, got, state>>
<1>1. Init => Promise!Init
  BY RangeEmpty DEF Init, Promise!Init
<1>2. ASSUME BusInv, [Next]_vars PROVE [Promise!Next]_view
  <2> USE <1>2 DEF BusInv, BusTypeOK
  <2>1. ASSUME NEW e \in Emitter, Send(e) PROVE [Promise!Next]_view
    <3>1. CASE UNCHANGED log
      BY <2>1, <3>1 DEF Send, delivery
    <3>2. CASE log' = Append(log, <<e, sent[e]>>)
      <4>1. emitter[e] = "send" /\ UNCHANGED <<loop, chClosed, subs, got, missed>>
        BY <2>1 DEF Send, delivery
      <4>2. ~ chClosed /\ loop # "done"
        BY <4>1 DEF LocksHeld, QueueOK
      <4>3. <<e, sent[e]>> \in Event
        <5>1. sent[e] \in 0..MaxEvents /\ sent[e] > 0
          BY <4>1 DEF NumbersOK
        <5> QED
          BY <5>1, BusAssumption DEF Event
      <4>4. \A i \in DOMAIN log : Promise!Follows(<<e, sent[e]>>, log[i])
        BY <4>1, BusAssumption DEF NumbersOK, Event, Promise!Follows
      <4>5. Promise!Accept(<<e, sent[e]>>)
        BY <3>2, <4>1, <4>2, <4>4 DEF Promise!Accept
      <4> QED
        BY <4>3, <4>5 DEF Promise!Next
    <3> QED
      BY <2>1, <3>1, <3>2 DEF Send
  <2>2. ASSUME NEW c \in Closer, CloseChannel(c) PROVE [Promise!Next]_view
    <3>1. closer[c] = "close" /\ chClosed' = TRUE /\ UNCHANGED <<log, loop, subs, got, missed>>
      BY <2>2 DEF CloseChannel, delivery, history
    <3>2. ~ chClosed
      BY <3>1 DEF LocksHeld, Writers
    <3>3. loop # "done"
      BY <3>2 DEF QueueOK
    <3>4. Promise!Close
      BY <3>1, <3>2, <3>3 DEF Promise!Close
    <3> QED
      BY <3>4 DEF Promise!Next
  <2>3. CASE Exit
    <3>1. /\ loop = "receive" /\ loop' = "done" /\ ch = << >> /\ chClosed
          /\ UNCHANGED <<log, subs, got, missed, chClosed>>
      BY <2>3 DEF Exit, channel, history
    <3>2. Range(left) = {}
      BY <3>1, RangeEmpty DEF QueueOK
    <3>3. Fanned = Len(log)
      BY <3>1 DEF Fanned
    <3>4. \A s \in Range(subs) : ~ Promise!Missing(s)
      <4>1. ASSUME NEW s \in Range(subs) PROVE missed[s] + Len(got[s]) = Len(log) - 0
        BY <3>2, <3>3, <4>1 DEF PositionsOK
      <4> QED
        BY <4>1 DEF Promise!Missing
    <3>5. Promise!Drain
      BY <3>1, <3>4 DEF Promise!Drain
    <3> QED
      BY <3>5 DEF Promise!Next
  <2>4. CASE Notified
    <3> DEFINE h == Head(left)
    <3>1. /\ left # << >> /\ loop = "notify" /\ loop' \notin {"done", "snapshot"}
          /\ got' = [got EXCEPT ![h] = Append(@, event)]
          /\ UNCHANGED <<log, subs, missed, chClosed>>
      BY <2>4 DEF Notified, NotifyNext, QueueOK, channel
    <3>2. h \in Range(left) /\ h \in Range(subs) /\ h \in Subscriber
      BY <3>1, RangeTail, RangeType DEF PositionsOK
    <3>3. /\ Fanned = Taken /\ Taken > 0 /\ Taken <= Len(log) /\ event = log[Taken]
          /\ Taken \in Nat
      BY <3>1 DEF Fanned, Taken, QueueOK
    <3> HIDE DEF h
    <3>4. missed[h] + Len(got[h]) = Taken - 1 /\ missed[h] \in Nat /\ Len(got[h]) \in Nat
      BY <3>2, <3>3 DEF PositionsOK
    <3>5. missed[h] + Len(got[h]) + 1 = Taken /\ missed[h] + Len(got[h]) < Len(log)
      BY ONLY <3>3, <3>4, Len(log) \in Nat
    <3>6. Promise!Deliver(h)
      BY <3>1, <3>2, <3>3, <3>5 DEF Promise!Deliver, Promise!Missing
    <3> QED
      BY <3>2, <3>6 DEF Promise!Next
  <2>5. ASSUME NEW s \in Subscriber, Subscribe(s) PROVE [Promise!Next]_view
    <3>1. /\ s \notin Range(subs) /\ subs' = Append(subs, s)
          /\ missed' = [missed EXCEPT ![s] = Fanned]
          /\ UNCHANGED <<log, loop, got, chClosed>>
      BY <2>5 DEF Subscribe, channel, delivery
    <3>2. Range(subs') = Range(subs) \cup {s}
      BY <3>1, RangeAppend DEF PositionsOK
    <3>3. Fanned \in 0..Len(log)
      BY FannedNat DEF Fanned
    <3>4. Promise!Join(s)
      BY <3>1, <3>2, <3>3 DEF Promise!Join
    <3> QED
      BY <3>4 DEF Promise!Next
  <2>6. CASE UNCHANGED <<log, loop, subs, got, missed, chClosed>>
    BY <2>6
  <2> QED
    BY <2>1, <2>2, <2>3, <2>4, <2>5, <2>6
       DEF Next, Emit, EmitStep, RLock, CheckClosed, Close, CloseStep, Once, Lock, StoreClosed,
           Drained, TimeOut, Receive, Snapshot, NotifyNext, channel, delivery, history, vars
<1> QED
  BY <1>1, <1>2, BusInvariance, PTL DEF Spec, KeepsPromise, Promise!Spec

=============================================================================
