---------------------------- MODULE AccessProofs ----------------------------
(***************************************************************************)
(* Requests are carried out, and turned away, only for a cause: for any      *)
(* number of requests and keys, any settings, any lifetime of the cache and *)
(* any slowness of the statements.                                          *)
(***************************************************************************)
EXTENDS Access, TLAPS

-----------------------------------------------------------------------------
(* The step of one request.                                                 *)

LEMMA Limits == hasKeysCacheTTL \in Nat \ {0} /\ MaxWait \in Nat
BY AccessAssumption

LEMMA NoRequestTyped == NoRequest \in InFlight
<1>1. 0 \in 0..MaxWait
  BY Limits
<1> QED
  BY <1>1 DEF NoRequest, InFlight, NoToken

\* Whether a credential is good is a truth value.
LEMMA GoodIsBoolean ==
  ASSUME NEW q, NEW table, NEW row \in BOOLEAN
  PROVE  Good(q, table, row) \in BOOLEAN
BY DEF Good

\* A request that goes where UnderWay allows keeps the invariant.
LEMMA OneGoes ==
  ASSUME AccessInv, NEW r \in Request, NEW q \in InFlight, UnderWay(q),
         req' = [req EXCEPT ![r] = q],
         UNCHANGED <<settings, keys, sender, since>>,
         cache' \in [has : BOOLEAN, age : 0..hasKeysCacheTTL], Remembered'
  PROVE  AccessInv'
<1>1. TypeOK'
  BY DEF AccessInv, TypeOK
<1>2. LastSeen'
  BY DEF AccessInv, LastSeen, HasAPIKeys
<1>3. ASSUME NEW s \in Request
      PROVE  UnderWay(req[s])'
  <2>1. UnderWay(req'[s])
    BY DEF AccessInv, TypeOK
  <2> QED
    BY <2>1 DEF UnderWay, Good
<1> QED
  BY <1>1, <1>2, <1>3 DEF AccessInv

\* Remembered says nothing of requests.
LEMMA MemoryStays ==
  ASSUME Remembered, UNCHANGED <<cache, since>>
  PROVE  Remembered'
BY DEF Remembered

\* An answer ends a request's way.
LEMMA AnswerKeeps ==
  ASSUME AccessInv, NEW r \in Request, NEW answer \in Answers, Answer(r, answer),
         UNCHANGED <<settings, keys, sender, since>>,
         cache' \in [has : BOOLEAN, age : 0..hasKeysCacheTTL], Remembered'
  PROVE  AccessInv'
<1> DEFINE q == [NoRequest EXCEPT !.pc = answer]
<1>1. q \in InFlight
  BY NoRequestTyped DEF InFlight, Answers
<1>2. UnderWay(q)
  BY DEF UnderWay, NoRequest, Answers
<1>3. req' = [req EXCEPT ![r] = q]
  BY DEF Answer
<1> HIDE DEF q
<1> QED
  BY <1>1, <1>2, <1>3, OneGoes

\* Decide, when the table was seen to hold a key lately enough.
LEMMA DecideKeeps ==
  ASSUME AccessInv, NEW r \in Request, NEW hasKeys \in BOOLEAN, Decide(r, hasKeys),
         req[r].door = "api", ~ settings.apiKey,
         hasKeys => since.some < hasKeysCacheTTL + MaxWait,
         UNCHANGED <<settings, keys, sender, since>>,
         cache' \in [has : BOOLEAN, age : 0..hasKeysCacheTTL], Remembered'
  PROVE  AccessInv'
<1>1. CASE ~ hasKeys \/ req[r].cred = NoToken
  <2>1. PICK answer \in Answers : Answer(r, answer)
    BY <1>1 DEF Decide, ServeHTTP, Answers
  <2> QED
    BY <2>1, AnswerKeeps
<1>2. CASE hasKeys /\ req[r].cred # NoToken
  <2> DEFINE q == [req[r] EXCEPT !.pc = "lookup", !.wait = 0]
  <2>1. req' = [req EXCEPT ![r] = q]
    BY <1>2 DEF Decide, Goto
  <2>3. UnderWay(req[r]) /\ req[r] \in InFlight /\ 0 \in 0..MaxWait
    BY Limits DEF AccessInv, TypeOK
  <2>2. q \in InFlight
    BY <2>3 DEF InFlight
  <2>4. /\ q.pc = "lookup" /\ q.wait = 0 /\ q.door = "api" /\ q.was = req[r].was
        /\ q.op = req[r].op /\ q.cred = req[r].cred
    BY <2>3 DEF InFlight
  <2> HIDE DEF q
  <2>5. UnderWay(q)
    <3>1. IF Good(q, keys, sender) THEN TRUE \in q.was ELSE FALSE \in q.was
      BY <2>3, <2>4 DEF UnderWay, Good
    <3>2. since.some < hasKeysCacheTTL + MaxWait + q.wait
      BY <1>2, <2>4, Limits
    <3> QED
      BY <2>4, <3>1, <3>2 DEF UnderWay, Answers
  <2> QED
    BY <2>1, <2>2, <2>5, OneGoes
<1> QED
  BY <1>1, <1>2

\* UnderWay says what a request on its way has behind it.
LEMMA Types ==
  ASSUME AccessInv, NEW r \in Request
  PROVE  /\ req[r] \in InFlight /\ UnderWay(req[r])
         /\ settings \in Setup /\ sender \in BOOLEAN
         /\ cache.has \in BOOLEAN /\ cache.age \in 0..hasKeysCacheTTL
         /\ since.some \in Nat /\ since.none \in Nat /\ req[r].wait \in Nat
<1>1. req[r] \in InFlight /\ UnderWay(req[r])
  BY DEF AccessInv, TypeOK
<1>2. req[r].wait \in 0..MaxWait
  BY <1>1 DEF InFlight
<1> QED
  BY <1>1, <1>2, Limits DEF AccessInv, TypeOK

LEMMA ArrivalKeeps ==
  ASSUME AccessInv, NEW r \in Request, Arrival(r)
  PROVE  AccessInv'
<1>1. PICK door \in {"api", "discord", "sms"}, op \in {"sms"} \cup Route \cup Command,
           cred \in Key \cup {NoToken, Configured, "role", "no role"} :
             Arrive(r, door, op, cred) /\ (door = "discord" => op \in Command)
  BY DEF Arrival
<1> DEFINE q0 == [NoRequest EXCEPT !.pc = "gate", !.door = door, !.op = op, !.cred = cred]
           q  == [q0 EXCEPT !.was = IF door = "discord" THEN {} ELSE {Good(q0, keys, sender)}]
<1>2. q0 \in InFlight /\ q0.pc = "gate" /\ q0.door = door /\ q0.op = op
  BY NoRequestTyped DEF InFlight
<1>3. req' = [req EXCEPT ![r] = q]
  BY <1>1 DEF Arrive
<1> HIDE DEF q0
<1>4. Good(q0, keys, sender) \in BOOLEAN
  BY Types, GoodIsBoolean
<1> DEFINE w == IF door = "discord" THEN {} ELSE {Good(q0, keys, sender)}
<1>5. w \in SUBSET BOOLEAN
  BY <1>4
<1>6. /\ q \in InFlight
      /\ q.pc = "gate" /\ q.door = door /\ q.op = q0.op /\ q.cred = q0.cred /\ q.was = w
  <2> HIDE DEF w
  <2> QED
    BY <1>2, <1>5 DEF InFlight, w
<1> HIDE DEF q
<1>7. UnderWay(q)
  <2>1. Good(q, keys, sender) <=> Good(q0, keys, sender)
    BY <1>2, <1>6 DEF Good
  <2>2. door # "discord" => IF Good(q, keys, sender) THEN TRUE \in q.was ELSE FALSE \in q.was
    BY <1>4, <1>6, <2>1
  <2> QED
    BY <1>1, <1>2, <1>6, <2>2 DEF UnderWay, Answers
<1>8. Remembered'
  BY <1>1, MemoryStays DEF Arrive, AccessInv
<1> QED
  BY <1>1, <1>3, <1>6, <1>7, <1>8, OneGoes DEF Arrive, AccessInv, TypeOK

-----------------------------------------------------------------------------
(* The middleware.                                                          *)

LEMMA CheckTokenKeeps ==
  ASSUME AccessInv, NEW r \in Request, CheckToken(r)
  PROVE  AccessInv'
<1>1. PICK answer \in Answers : Answer(r, answer)
  BY DEF CheckToken, ServeHTTP, Answers
<1> QED
  BY <1>1, AnswerKeeps, MemoryStays DEF CheckToken, AccessInv, TypeOK

\* An answer of the cache is younger than its lifetime.
LEMMA CachedIsFresh ==
  ASSUME AccessInv, NEW r \in Request, cache.age < hasKeysCacheTTL
  PROVE  (IF cache.has THEN since.some ELSE since.none) < hasKeysCacheTTL + MaxWait
BY Types, Limits DEF AccessInv, Remembered

LEMMA CheckCacheKeeps ==
  ASSUME AccessInv, NEW r \in Request, CheckCache(r)
  PROVE  AccessInv'
<1>1. /\ req[r].pc = "gate" /\ req[r].door = "api" /\ ~ settings.apiKey
      /\ UNCHANGED <<settings, keys, sender, since>> /\ Remembered'
      /\ cache' \in [has : BOOLEAN, age : 0..hasKeysCacheTTL]
  BY MemoryStays DEF CheckCache, AccessInv, TypeOK
<1>2. CASE cache.age < hasKeysCacheTTL
  BY <1>1, <1>2, Types, CachedIsFresh, DecideKeeps DEF CheckCache
<1>3. CASE ~ (cache.age < hasKeysCacheTTL)
  <2> DEFINE q == [req[r] EXCEPT !.pc = "query", !.wait = 0]
  <2>1. req' = [req EXCEPT ![r] = q]
    BY <1>3 DEF CheckCache, Goto
  <2>2. UnderWay(req[r]) /\ req[r] \in InFlight /\ 0 \in 0..MaxWait
    BY Limits, Types
  <2>3. q \in InFlight
    BY <2>2 DEF InFlight
  <2>4. /\ q.pc = "query" /\ q.door = "api" /\ q.was = req[r].was
        /\ q.op = req[r].op /\ q.cred = req[r].cred
    BY <1>1, <2>2 DEF InFlight
  <2> HIDE DEF q
  <2>5. UnderWay(q)
    BY <1>1, <2>2, <2>4 DEF UnderWay, Answers, Good
  <2> QED
    BY <1>1, <2>1, <2>3, <2>5, OneGoes
<1> QED
  BY <1>2, <1>3

LEMMA QueryKeeps ==
  ASSUME AccessInv, NEW r \in Request, Query(r)
  PROVE  AccessInv'
<1>1. /\ UNCHANGED <<settings, keys, sender, since>> /\ Remembered'
      /\ cache' \in [has : BOOLEAN, age : 0..hasKeysCacheTTL]
  BY MemoryStays DEF Query, AccessInv, TypeOK
<1>2. CASE Answer(r, "unavailable")
  BY <1>1, <1>2, AnswerKeeps DEF Answers
<1>3. CASE req' = [req EXCEPT ![r].pc = "store", ![r].has = HasAPIKeys(keys)]
  <2> DEFINE b == HasAPIKeys(keys)
             q == [req[r] EXCEPT !.pc = "store", !.has = b]
  <2>1. b \in BOOLEAN /\ (IF b THEN since.some ELSE since.none) = 0
    BY DEF HasAPIKeys, AccessInv, LastSeen
  <2>2. req' = [req EXCEPT ![r] = q]
    BY <1>3
  <2>3. UnderWay(req[r]) /\ req[r] \in InFlight /\ req[r].pc = "query"
    BY Types DEF Query
  <2> HIDE DEF b
  <2>4. q \in InFlight
    <3>1. b \in BOOLEAN
      BY <2>1
    <3> QED
      BY <2>3, <3>1 DEF InFlight
  <2>5. /\ q.pc = "store" /\ q.door = req[r].door /\ q.was = req[r].was /\ q.has = b
        /\ q.op = req[r].op /\ q.cred = req[r].cred /\ q.wait = req[r].wait
    BY <2>3 DEF InFlight
  <2>7. req[r].wait \in Nat
    BY Types
  <2> HIDE DEF q
  <2>6. UnderWay(q)
    <3>1. IF Good(q, keys, sender) THEN TRUE \in q.was ELSE FALSE \in q.was
      BY <2>3, <2>5 DEF UnderWay, Good
    <3>2. (IF q.has THEN since.some ELSE since.none) <= q.wait
      BY <2>1, <2>5, <2>7
    <3> QED
      BY <2>3, <2>5, <3>1, <3>2 DEF UnderWay, Answers
  <2> QED
    BY <1>1, <2>2, <2>4, <2>6, OneGoes
<1> QED
  BY <1>2, <1>3 DEF Query

\* What is remembered was true no longer ago than the request has waited.
LEMMA StoreCacheKeeps ==
  ASSUME AccessInv, NEW r \in Request, StoreCache(r)
  PROVE  AccessInv'
<1>1. /\ req[r] \in InFlight /\ UnderWay(req[r]) /\ req[r].pc = "store"
      /\ UNCHANGED <<settings, keys, sender, since>>
      /\ cache'.has = req[r].has /\ cache'.age = 0 /\ Decide(r, req[r].has)
  BY Types DEF StoreCache
<1>2. /\ req[r].has \in BOOLEAN /\ req[r].wait \in 0..MaxWait
      /\ req[r].door = "api" /\ ~ settings.apiKey
      /\ (IF req[r].has THEN since.some ELSE since.none) <= req[r].wait
  BY <1>1 DEF InFlight, UnderWay
<1>3. cache' \in [has : BOOLEAN, age : 0..hasKeysCacheTTL]
  BY <1>2, Limits DEF StoreCache
<1>4. Remembered'
  BY <1>1, <1>2, Limits, Types DEF Remembered
<1>5. req[r].has => since.some < hasKeysCacheTTL + MaxWait
  BY <1>2, Limits, Types
<1> QED
  BY <1>1, <1>2, <1>3, <1>4, <1>5, DecideKeeps

LEMMA LookUpKeyKeeps ==
  ASSUME AccessInv, NEW r \in Request, LookUpKey(r)
  PROVE  AccessInv'
<1>1. PICK answer \in Answers : Answer(r, answer)
  BY DEF LookUpKey, ServeHTTP, Answers
<1> QED
  BY <1>1, AnswerKeeps, MemoryStays DEF LookUpKey, AccessInv, TypeOK

-----------------------------------------------------------------------------
(* Discord, and text messages.                                              *)

LEMMA InteractKeeps ==
  ASSUME AccessInv, NEW r \in Request, Interact(r)
  PROVE  AccessInv'
<1>1. PICK answer \in Answers : Answer(r, answer)
  BY DEF Interact, Answers
<1> QED
  BY <1>1, AnswerKeeps, MemoryStays DEF Interact, AccessInv, TypeOK

LEMMA LookUpSenderKeeps ==
  ASSUME AccessInv, NEW r \in Request, LookUpSender(r)
  PROVE  AccessInv'
<1>1. /\ UNCHANGED <<settings, keys, sender, since>> /\ Remembered'
      /\ cache' \in [has : BOOLEAN, age : 0..hasKeysCacheTTL]
  BY MemoryStays DEF LookUpSender, AccessInv, TypeOK
<1>2. CASE \E answer \in Answers : Answer(r, answer)
  BY <1>1, <1>2, AnswerKeeps
<1>3. CASE sender /\ Goto(r, "create")
  <2> DEFINE q == [req[r] EXCEPT !.pc = "create", !.wait = 0]
  <2>1. req' = [req EXCEPT ![r] = q]
    BY <1>3 DEF Goto
  <2>2. /\ UnderWay(req[r]) /\ req[r] \in InFlight /\ 0 \in 0..MaxWait
        /\ req[r].door = "sms"
    BY Limits, Types DEF LookUpSender
  <2>3. q \in InFlight
    BY <2>2 DEF InFlight
  <2>4. q.pc = "create" /\ q.door = "sms" /\ q.was = req[r].was
    BY <2>2 DEF InFlight
  <2> HIDE DEF q
  <2>5. TRUE \in q.was
    BY <1>3, <2>2, <2>4 DEF UnderWay, Good
  <2>6. UnderWay(q)
    BY <1>3, <2>4, <2>5 DEF UnderWay, Answers, Good
  <2> QED
    BY <1>1, <2>1, <2>3, <2>6, OneGoes
<1> QED
  BY <1>2, <1>3 DEF LookUpSender, Answers

LEMMA CreateTaskKeeps ==
  ASSUME AccessInv, NEW r \in Request, CreateTask(r)
  PROVE  AccessInv'
<1>1. PICK answer \in Answers : Answer(r, answer)
  BY DEF CreateTask, Answers
<1> QED
  BY <1>1, AnswerKeeps, MemoryStays DEF CreateTask, AccessInv, TypeOK

-----------------------------------------------------------------------------
(* Edited tables, and time.                                                 *)

\* A request takes note of what a credential is worth after an edit.
LEMMA NotedKeeps ==
  ASSUME AccessInv, NEW r \in Request, NEW table, NEW row \in BOOLEAN,
         req' = Noted(table, row)
  PROVE  /\ req'[r] \in InFlight
         /\ \A f \in {"pc", "door", "op", "cred", "has", "wait"} : req'[r][f] = req[r][f]
         /\ req[r].was \subseteq req'[r].was
         /\ req[r].door \in {"api", "sms"} => Good(req[r], table, row) \in req'[r].was
<1>1. req[r] \in InFlight
  BY Types
<1> DEFINE g == Good(req[r], table, row)
<1>2. g \in BOOLEAN
  BY GoodIsBoolean
<1>3. req'[r] = IF req[r].door \in {"api", "sms"} THEN [req[r] EXCEPT !.was = @ \cup {g}] ELSE req[r]
  BY DEF Noted
<1> HIDE DEF g
<1>4. req[r].was \cup {g} \in SUBSET BOOLEAN
  BY <1>1, <1>2 DEF InFlight
<1>5. CASE req[r].door \in {"api", "sms"}
  <2>1. req'[r] = [req[r] EXCEPT !.was = req[r].was \cup {g}]
    BY <1>1, <1>3, <1>5 DEF InFlight
  <2> QED
    BY <1>1, <1>4, <1>5, <2>1 DEF InFlight, g
<1>6. CASE req[r].door \notin {"api", "sms"}
  BY <1>1, <1>3, <1>6
<1> QED
  BY <1>5, <1>6

LEMMA EditKeeps ==
  ASSUME AccessInv, keys' \in [Key -> {"absent", "valid", "expired"}], sender' \in BOOLEAN,
         since' \in [some : 0..Horizon, none : 0..Horizon],
         since'.some <= since.some, since'.none <= since.none,
         req' = Noted(keys', sender'), LastSeen', UNCHANGED <<settings, cache>>
  PROVE  AccessInv'
<1>1. Remembered'
  <2>1. /\ since'.some \in Nat /\ since'.none \in Nat
        /\ since.some \in Nat /\ since.none \in Nat
        /\ cache.has \in BOOLEAN /\ cache.age \in Nat
    BY Limits DEF AccessInv, TypeOK, Horizon
  <2> QED
    BY <2>1, Limits DEF AccessInv, Remembered
<1>2. ASSUME NEW r \in Request
      PROVE  UnderWay(req[r])' /\ req'[r] \in InFlight
  <2>1. /\ UnderWay(req[r]) /\ since.some \in Nat /\ since.none \in Nat
        /\ req[r].wait \in Nat /\ req[r] \in InFlight
    BY Types
  <2>2. since'.some \in Nat /\ since'.none \in Nat
    BY Limits DEF Horizon
  <2>3. /\ req'[r] \in InFlight /\ req[r].was \subseteq req'[r].was
        /\ req'[r].pc = req[r].pc /\ req'[r].door = req[r].door /\ req'[r].op = req[r].op
        /\ req'[r].cred = req[r].cred /\ req'[r].has = req[r].has /\ req'[r].wait = req[r].wait
    BY NotedKeeps
  <2>4. req[r].door \in {"api", "sms"} => Good(req[r], keys', sender') \in req'[r].was
    BY NotedKeeps
  <2>5. Good(req[r], keys', sender') \in BOOLEAN
    BY GoodIsBoolean
  <2>6. Good(req'[r], keys', sender') <=> Good(req[r], keys', sender')
    BY <2>3 DEF Good
  <2>7. req'[r].door \in {"api", "sms"} =>
          IF Good(req'[r], keys', sender') THEN TRUE \in req'[r].was ELSE FALSE \in req'[r].was
    BY <2>3, <2>4, <2>5, <2>6
  <2>8. req'[r].pc = "store" => (IF req'[r].has THEN since'.some ELSE since'.none) <= req'[r].wait
    BY <2>1, <2>2, <2>3 DEF UnderWay
  <2>9. req'[r].pc = "lookup" => since'.some < hasKeysCacheTTL + MaxWait + req'[r].wait
    BY <2>1, <2>2, <2>3, Limits DEF UnderWay
  <2> QED
    BY <2>1, <2>3, <2>7, <2>8, <2>9 DEF UnderWay
<1>3. TypeOK'
  <2>1. req' \in [Request -> InFlight]
    BY <1>2 DEF Noted
  <2> QED
    BY <2>1 DEF AccessInv, TypeOK
<1> QED
  BY <1>1, <1>2, <1>3 DEF AccessInv

LEMMA KeyChangesKeeps ==
  ASSUME AccessInv, NEW k \in Key, NEW st \in {"absent", "valid", "expired"}, KeyChanges(k, st)
  PROVE  AccessInv'
<1>1. keys' \in [Key -> {"absent", "valid", "expired"}] /\ sender' \in BOOLEAN
  BY DEF KeyChanges, AccessInv, TypeOK
<1>2. /\ since \in [some : 0..Horizon, none : 0..Horizon]
      /\ since.some \in Nat /\ since.none \in Nat /\ 0 \in 0..Horizon
  BY Limits DEF AccessInv, TypeOK, Horizon
<1>3. /\ since' \in [some : 0..Horizon, none : 0..Horizon]
      /\ since'.some <= since.some /\ since'.none <= since.none /\ LastSeen'
  <2>1. CASE HasAPIKeys(keys')
    <3>1. since' = [since EXCEPT !.some = 0]
      BY <2>1 DEF KeyChanges
    <3> QED
      BY <1>2, <2>1, <3>1 DEF LastSeen
  <2>2. CASE ~ HasAPIKeys(keys')
    <3>1. since' = [since EXCEPT !.none = 0]
      BY <2>2 DEF KeyChanges
    <3> QED
      BY <1>2, <2>2, <3>1 DEF LastSeen
  <2> QED
    BY <2>1, <2>2
<1> QED
  BY <1>1, <1>3, EditKeeps DEF KeyChanges

LEMMA SenderChangesKeeps ==
  ASSUME AccessInv, SenderChanges
  PROVE  AccessInv'
<1>1. /\ keys' \in [Key -> {"absent", "valid", "expired"}] /\ sender' \in BOOLEAN
      /\ since' \in [some : 0..Horizon, none : 0..Horizon]
  BY DEF SenderChanges, AccessInv, TypeOK
<1>2. since'.some <= since.some /\ since'.none <= since.none
  BY Limits DEF SenderChanges, AccessInv, TypeOK, Horizon
<1>3. LastSeen'
  BY DEF SenderChanges, AccessInv, LastSeen, HasAPIKeys
<1> QED
  BY <1>1, <1>2, <1>3, EditKeeps DEF SenderChanges

\* Ages grow together, and a request's wait with them.
LEMMA TickKeeps ==
  ASSUME AccessInv, Tick
  PROVE  AccessInv'
<1>1. /\ settings' = settings /\ keys' = keys /\ sender' = sender
      /\ cache.has \in BOOLEAN /\ cache.age \in Nat /\ cache.age <= hasKeysCacheTTL
      /\ since.some \in Nat /\ since.some <= Horizon
      /\ since.none \in Nat /\ since.none <= Horizon
      /\ Horizon \in Nat /\ hasKeysCacheTTL \in Nat /\ MaxWait \in Nat
  BY Limits DEF Tick, AccessInv, TypeOK, Horizon
<1> HIDE DEF Horizon
<1>2. /\ cache' \in [has : BOOLEAN, age : 0..hasKeysCacheTTL]
      /\ cache'.has = cache.has
      /\ cache'.age = IF cache.age < hasKeysCacheTTL THEN cache.age + 1 ELSE hasKeysCacheTTL
  <2>1. Older(cache.age, hasKeysCacheTTL) \in 0..hasKeysCacheTTL
    BY <1>1 DEF Older
  <2>2. cache' = [cache EXCEPT !.age = Older(cache.age, hasKeysCacheTTL)]
    BY DEF Tick
  <2> QED
    BY <2>1, <2>2 DEF Older, AccessInv, TypeOK
<1>3. /\ since' \in [some : 0..Horizon, none : 0..Horizon]
      /\ since'.some \in Nat /\ since'.some <= since.some + 1
      /\ since'.none \in Nat /\ since'.none <= since.none + 1
      /\ IF HasAPIKeys(keys) THEN since'.some = 0 ELSE since'.none = 0
  BY <1>1 DEF Tick, Older
<1>4. LastSeen'
  BY <1>1, <1>3 DEF LastSeen, HasAPIKeys
<1>5. Remembered'
  BY <1>1, <1>2, <1>3 DEF AccessInv, Remembered
<1>6. ASSUME NEW r \in Request
      PROVE  UnderWay(req[r])' /\ req'[r] \in InFlight
  <2> DEFINE q == req[r]
  <2>1. q \in InFlight /\ UnderWay(q) /\ q.wait \in 0..MaxWait /\ q.wait \in Nat
    BY Types DEF InFlight
  <2>2. CASE Waiting(r)
    <3>1. q.wait + 1 \in 0..MaxWait
      BY <1>1, <2>1, <2>2 DEF Tick
    <3>2. req'[r] = [q EXCEPT !.wait = q.wait + 1]
      BY <2>1, <2>2 DEF Tick, InFlight
    <3> HIDE DEF q
    <3>3. /\ req'[r] \in InFlight
          /\ req'[r].pc = q.pc /\ req'[r].door = q.door /\ req'[r].op = q.op
          /\ req'[r].cred = q.cred /\ req'[r].has = q.has /\ req'[r].was = q.was
          /\ req'[r].wait = q.wait + 1
      BY <2>1, <3>1, <3>2 DEF InFlight
    <3>4. Good(req'[r], keys, sender) <=> Good(q, keys, sender)
      BY <3>3 DEF Good
    <3>5. q.pc = "store" => (IF q.has THEN since'.some ELSE since'.none) <= q.wait + 1
      BY <1>1, <1>3, <2>1 DEF UnderWay
    <3>6. q.pc = "lookup" => since'.some < hasKeysCacheTTL + MaxWait + (q.wait + 1)
      BY <1>1, <1>3, <2>1 DEF UnderWay
    <3> QED
      BY <1>1, <2>1, <3>3, <3>4, <3>5, <3>6 DEF UnderWay
  <2>3. CASE ~ Waiting(r)
    <3>1. req'[r] = req[r] /\ q.pc \notin {"store", "lookup"}
      BY <2>3 DEF Tick, Waiting
    <3>2. Good(req'[r], keys, sender) <=> Good(q, keys, sender)
      BY <3>1
    <3> QED
      BY <1>1, <2>1, <3>1, <3>2 DEF UnderWay
  <2> QED
    BY <2>2, <2>3
<1>7. TypeOK'
  <2>1. req' \in [Request -> InFlight]
    BY <1>6 DEF Tick
  <2> QED
    BY <1>1, <1>2, <1>3, <2>1 DEF AccessInv, TypeOK
<1> QED
  BY <1>4, <1>5, <1>6, <1>7 DEF AccessInv

-----------------------------------------------------------------------------
(* The invariant.                                                           *)

LEMMA InitAccess ==
  ASSUME Init
  PROVE  AccessInv
<1>1. Horizon \in Nat /\ hasKeysCacheTTL \in 0..hasKeysCacheTTL /\ 0 \in 0..Horizon
      /\ Horizon \in 0..Horizon
  BY Limits DEF Horizon
<1>2. TypeOK
  <2>1. req \in [Request -> InFlight]
    BY NoRequestTyped DEF Init
  <2> HIDE DEF Horizon
  <2>2. since \in [some : 0..Horizon, none : 0..Horizon]
    BY <1>1 DEF Init
  <2> QED
    BY <1>1, <2>1, <2>2 DEF Init, TypeOK
<1>3. LastSeen /\ Remembered
  BY Limits DEF Init, LastSeen, Remembered
<1>4. ASSUME NEW r \in Request
      PROVE  UnderWay(req[r])
  BY DEF Init, NoRequest, UnderWay, Answers
<1> QED
  BY <1>2, <1>3, <1>4 DEF AccessInv

LEMMA StutterAccess ==
  ASSUME AccessInv, UNCHANGED vars
  PROVE  AccessInv'
BY DEF vars, AccessInv, TypeOK, LastSeen, Remembered, UnderWay, Good, HasAPIKeys

\* Whatever a request does, and whatever befalls keys and senders meanwhile, what
\* it has been told of api_keys is as old as the cache and its waits allow.
THEOREM AccessInvariance == Spec => []AccessInv
<1>1. Init => AccessInv
  BY InitAccess
<1>2. AccessInv /\ [Next]_vars => AccessInv'
  <2> SUFFICES ASSUME AccessInv, [Next]_vars
               PROVE  AccessInv'
    OBVIOUS
  <2>1. ASSUME NEW r \in Request,
               \/ Arrival(r) \/ CheckToken(r) \/ CheckCache(r) \/ Query(r) \/ StoreCache(r)
               \/ LookUpKey(r) \/ Interact(r) \/ LookUpSender(r) \/ CreateTask(r)
        PROVE  AccessInv'
    BY <2>1, ArrivalKeeps, CheckTokenKeeps, CheckCacheKeeps, QueryKeeps, StoreCacheKeeps,
       LookUpKeyKeeps, InteractKeeps, LookUpSenderKeeps, CreateTaskKeeps
  <2>2. CASE \E k \in Key, st \in {"absent", "valid", "expired"} : KeyChanges(k, st)
    BY <2>2, KeyChangesKeeps
  <2>3. CASE SenderChanges \/ Tick
    BY <2>3, SenderChangesKeeps, TickKeeps
  <2>4. CASE UNCHANGED vars
    BY <2>4, StutterAccess
  <2> QED
    BY <2>1, <2>2, <2>3, <2>4 DEF Next
<1> QED
  BY <1>1, <1>2, PTL DEF Spec

-----------------------------------------------------------------------------
(* The causes.                                                              *)

\* No answer without a cause.
ForCause ==
  \A r \in Request : /\ Becomes(r, "acted") => MayAct(req[r])
                     /\ Becomes(r, "refused") => MayRefuse(req[r])

\* One request is answered, for a cause.
LEMMA AnsweredForCause ==
  ASSUME AccessInv, NEW r \in Request, NEW answer \in Answers, Answer(r, answer),
         answer = "acted" => MayAct(req[r]),
         answer = "refused" => MayRefuse(req[r])
  PROVE  ForCause
<1> DEFINE q == [NoRequest EXCEPT !.pc = answer]
<1>1. q.pc = answer /\ req' = [req EXCEPT ![r] = q]
  BY NoRequestTyped DEF InFlight, Answer
<1> HIDE DEF q
<1> QED
  BY <1>1 DEF AccessInv, TypeOK, ForCause, Becomes

\* No request is answered.
LEMMA NotAnswered ==
  ASSUME \A r \in Request : req'[r].pc \in {req[r].pc, "gate", "query", "store", "lookup", "create"}
  PROVE  ForCause
BY DEF ForCause, Becomes

LEMMA GoesOn ==
  ASSUME AccessInv, NEW r \in Request, NEW label \in {"query", "lookup", "create"}, Goto(r, label)
  PROVE  ForCause
<1>1. req \in [Request -> InFlight]
  BY DEF AccessInv, TypeOK
<1>2. \A s \in Request \ {r} : req'[s] = req[s]
  BY <1>1 DEF Goto
<1>3. req[r] \in InFlight /\ req'[r] = [[req[r] EXCEPT !.pc = label] EXCEPT !.wait = 0]
  BY <1>1 DEF Goto
<1>4. req'[r].pc = label
  BY <1>3 DEF InFlight
<1>5. \A s \in Request : req'[s].pc \in {req[s].pc, label}
  BY <1>2, <1>4
<1> QED
  BY <1>5, NotAnswered

\* Past the middleware a request is carried out, but for blockPublicAccess.
LEMMA ServedForCause ==
  ASSUME AccessInv, NEW r \in Request, ServeHTTP(r), req[r].door = "api",
         IF settings.apiKey THEN req[r].cred = Configured
         ELSE TRUE \in req[r].was \/ since.none < hasKeysCacheTTL + MaxWait
  PROVE  ForCause
<1> DEFINE a == IF settings.restrictAPI /\ req[r].op # "getStats" THEN "refused" ELSE "acted"
<1>1. a \in Answers /\ Answer(r, a)
  BY DEF Answers, ServeHTTP
<1>2. /\ a = "acted" => MayAct(req[r])
      /\ a = "refused" => MayRefuse(req[r])
  BY DEF MayAct, MayRefuse
<1> HIDE DEF a
<1> QED
  BY <1>1, <1>2, AnsweredForCause

\* Decide, when the table was lately enough seen as it says.
LEMMA DecidedForCause ==
  ASSUME AccessInv, NEW r \in Request, NEW hasKeys \in BOOLEAN, Decide(r, hasKeys),
         req[r].door = "api", ~ settings.apiKey,
         (IF hasKeys THEN since.some ELSE since.none) < hasKeysCacheTTL + MaxWait
  PROVE  ForCause
<1>1. CASE ~ hasKeys
  BY <1>1, ServedForCause DEF Decide
<1>2. CASE hasKeys /\ req[r].cred = NoToken
  <2>1. FALSE \in req[r].was
    BY <1>2, Types, AccessAssumption DEF UnderWay, Good
  <2>2. since.some < Horizon
    BY <1>2, Types, Limits DEF Horizon
  <2>3. MayRefuse(req[r])
    BY <2>1, <2>2 DEF MayRefuse
  <2> QED
    BY <1>2, <2>3, AnsweredForCause DEF Decide, Answers
<1>3. CASE hasKeys /\ req[r].cred # NoToken
  BY <1>3, GoesOn DEF Decide
<1> QED
  BY <1>1, <1>2, <1>3

LEMMA MiddlewareForCause ==
  ASSUME AccessInv, NEW r \in Request, CheckToken(r) \/ CheckCache(r) \/ Query(r) \/ StoreCache(r)
  PROVE  ForCause
<1>1. CASE CheckToken(r)
  <2>1. req[r].door = "api" /\ settings.apiKey
    BY <1>1 DEF CheckToken
  <2>2. CASE req[r].cred = Configured
    BY <1>1, <2>1, <2>2, ServedForCause DEF CheckToken
  <2>3. CASE req[r].cred # Configured
    BY <1>1, <2>1, <2>3, AnsweredForCause DEF CheckToken, Answers, MayRefuse
  <2> QED
    BY <2>2, <2>3
<1>2. CASE CheckCache(r)
  <2>1. CASE cache.age < hasKeysCacheTTL
    BY <1>2, <2>1, Types, CachedIsFresh, DecidedForCause DEF CheckCache
  <2>2. CASE ~ (cache.age < hasKeysCacheTTL)
    BY <1>2, <2>2, GoesOn DEF CheckCache
  <2> QED
    BY <2>1, <2>2
<1>3. CASE Query(r)
  <2>1. CASE Answer(r, "unavailable")
    BY <2>1, AnsweredForCause DEF Answers
  <2>2. CASE req' = [req EXCEPT ![r].pc = "store", ![r].has = HasAPIKeys(keys)]
    <3> DEFINE b == HasAPIKeys(keys)
               q == [req[r] EXCEPT !.pc = "store", !.has = b]
    <3>1. req' = [req EXCEPT ![r] = q]
      BY <2>2
    <3> HIDE DEF b
    <3>2. q.pc = "store"
      BY Types DEF InFlight
    <3> HIDE DEF q
    <3>3. \A s \in Request : req'[s].pc \in {req[s].pc, "store"}
      BY <3>1, <3>2 DEF AccessInv, TypeOK
    <3> QED
      BY <3>3, NotAnswered
  <2> QED
    BY <1>3, <2>1, <2>2 DEF Query
<1>4. CASE StoreCache(r)
  <2>1. /\ UnderWay(req[r]) /\ req[r] \in InFlight /\ req[r].pc = "store" /\ Decide(r, req[r].has)
        /\ since.some \in Nat /\ since.none \in Nat
    BY <1>4, Types DEF StoreCache
  <2>2. /\ req[r].has \in BOOLEAN /\ req[r].wait \in 0..MaxWait
        /\ req[r].door = "api" /\ ~ settings.apiKey
        /\ (IF req[r].has THEN since.some ELSE since.none) <= req[r].wait
    BY <2>1 DEF InFlight, UnderWay
  <2>3. (IF req[r].has THEN since.some ELSE since.none) < hasKeysCacheTTL + MaxWait
    BY <2>1, <2>2, Limits
  <2> QED
    BY <2>1, <2>2, <2>3, DecidedForCause
<1> QED
  BY <1>1, <1>2, <1>3, <1>4

LEMMA HandlersForCause ==
  ASSUME AccessInv, NEW r \in Request,
         LookUpKey(r) \/ Interact(r) \/ LookUpSender(r) \/ CreateTask(r)
  PROVE  ForCause
<1>0. UnderWay(req[r])
  BY Types
<1>1. CASE LookUpKey(r)
  <2>1. /\ req[r].door = "api" /\ ~ settings.apiKey
        /\ IF Good(req[r], keys, sender) THEN TRUE \in req[r].was ELSE FALSE \in req[r].was
    BY <1>0, <1>1 DEF LookUpKey, UnderWay
  <2>2. since.some < Horizon
    <3>1. since.some < hasKeysCacheTTL + MaxWait + req[r].wait
      BY <1>0, <1>1 DEF LookUpKey, UnderWay
    <3>2. req[r].wait \in 0..MaxWait /\ since.some \in Nat
      BY Types DEF InFlight
    <3> QED
      BY <3>1, <3>2, Limits DEF Horizon
  <2>3. CASE Good(req[r], keys, sender) /\ ServeHTTP(r)
    BY <2>1, <2>3, ServedForCause
  <2>4. CASE ~ Good(req[r], keys, sender) /\ Answer(r, "refused")
    BY <2>1, <2>2, <2>4, AnsweredForCause DEF Answers, MayRefuse
  <2>5. CASE Answer(r, "misjudged")
    BY <2>5, AnsweredForCause DEF Answers
  <2> QED
    BY <1>1, <2>3, <2>4, <2>5 DEF LookUpKey
<1>2. CASE Interact(r)
  <2> DEFINE a == IF req[r].op \in NeedsRole /\ settings.roles /\ req[r].cred # "role"
                  THEN "refused" ELSE "acted"
  <2>1. req[r].door = "discord" /\ Answer(r, a) /\ a \in Answers
    BY <1>2 DEF Interact, Answers
  <2>2. a = "refused" => MayRefuse(req[r])
    BY <2>1 DEF MayRefuse
  <2>3. req[r].op \in NeedsRole \cup Open
    BY <2>1, Types, AccessAssumption DEF UnderWay
  <2>4. a = "acted" => MayAct(req[r])
    BY <2>1, <2>3 DEF MayAct
  <2> HIDE DEF a
  <2> QED
    BY <2>1, <2>2, <2>4, AnsweredForCause
<1>3. CASE LookUpSender(r)
  <2>1. /\ req[r].door = "sms"
        /\ IF sender THEN TRUE \in req[r].was ELSE FALSE \in req[r].was
    BY <1>0, <1>3 DEF LookUpSender, UnderWay, Good
  <2>2. CASE sender /\ Goto(r, "create")
    BY <2>2, GoesOn
  <2>3. CASE ~ sender /\ Answer(r, "refused")
    BY <2>1, <2>3, AnsweredForCause DEF Answers, MayRefuse
  <2>4. CASE Answer(r, "unavailable")
    BY <2>4, AnsweredForCause DEF Answers
  <2> QED
    BY <1>3, <2>2, <2>3, <2>4 DEF LookUpSender
<1>4. CASE CreateTask(r)
  <2>1. req[r].door = "sms" /\ TRUE \in req[r].was
    BY <1>0, <1>4 DEF CreateTask, UnderWay
  <2>2. PICK answer \in {"acted", "unavailable"} : Answer(r, answer)
    BY <1>4 DEF CreateTask
  <2> QED
    BY <2>1, <2>2, AnsweredForCause DEF Answers, MayAct
<1> QED
  BY <1>1, <1>2, <1>3, <1>4

\* Arrivals, edits and time answer nobody.
LEMMA OthersForCause ==
  ASSUME AccessInv,
         \/ \E r \in Request : Arrival(r)
         \/ \E k \in Key, st \in {"absent", "valid", "expired"} : KeyChanges(k, st)
         \/ SenderChanges \/ Tick \/ UNCHANGED vars
  PROVE  ForCause
<1>1. CASE \E r \in Request : Arrival(r)
  <2>1. PICK r \in Request, door \in {"api", "discord", "sms"},
             op \in {"sms"} \cup Route \cup Command,
             cred \in Key \cup {NoToken, Configured, "role", "no role"} : Arrive(r, door, op, cred)
    BY <1>1 DEF Arrival
  <2> DEFINE q0 == [NoRequest EXCEPT !.pc = "gate", !.door = door, !.op = op, !.cred = cred]
             w  == IF door = "discord" THEN {} ELSE {Good(q0, keys, sender)}
             q  == [q0 EXCEPT !.was = w]
  <2>2. q0 \in InFlight /\ q0.pc = "gate"
    BY NoRequestTyped DEF InFlight
  <2>3. req' = [req EXCEPT ![r] = q]
    BY <2>1 DEF Arrive
  <2> HIDE DEF q0, w
  <2>4. q.pc = "gate"
    BY <2>2 DEF InFlight
  <2> HIDE DEF q
  <2>5. \A s \in Request : req'[s].pc \in {req[s].pc, "gate"}
    BY <2>3, <2>4 DEF AccessInv, TypeOK
  <2> QED
    BY <2>5, NotAnswered
<1>2. ASSUME NEW k \in Key, NEW st \in {"absent", "valid", "expired"}, KeyChanges(k, st)
      PROVE  ForCause
  <2>1. req' = Noted(keys', sender) /\ sender \in BOOLEAN
    BY <1>2 DEF KeyChanges, AccessInv, TypeOK
  <2>2. \A r \in Request : req'[r].pc = req[r].pc
    BY <2>1, NotedKeeps
  <2> QED
    BY <2>2, NotAnswered
<1>3. CASE SenderChanges
  <2>1. req' = Noted(keys, sender') /\ sender' \in BOOLEAN
    BY <1>3 DEF SenderChanges, AccessInv, TypeOK
  <2>2. \A r \in Request : req'[r].pc = req[r].pc
    BY <2>1, NotedKeeps
  <2> QED
    BY <2>2, NotAnswered
<1>4. CASE Tick
  <2>1. \A r \in Request : req'[r].pc = req[r].pc
    BY <1>4 DEF Tick, AccessInv, TypeOK, InFlight
  <2> QED
    BY <2>1, NotAnswered
<1>5. CASE UNCHANGED vars
  BY <1>5, NotAnswered DEF vars
<1> QED
  BY <1>1, <1>2, <1>3, <1>4, <1>5

LEMMA StepForCause ==
  ASSUME AccessInv, [Next]_vars
  PROVE  ForCause
<1>1. ASSUME NEW r \in Request,
             \/ Arrival(r) \/ CheckToken(r) \/ CheckCache(r) \/ Query(r) \/ StoreCache(r)
             \/ LookUpKey(r) \/ Interact(r) \/ LookUpSender(r) \/ CreateTask(r)
      PROVE  ForCause
  BY <1>1, OthersForCause, MiddlewareForCause, HandlersForCause
<1> QED
  BY <1>1, OthersForCause DEF Next

\* For any number of requests, keys, settings, any lifetime of the cache and any
\* slowness: a request is carried out only if it may be.
THEOREM OnlyForCause == Spec => ActedForCause
<1>1. AccessInv /\ [Next]_vars => [\A r \in Request : Becomes(r, "acted") => MayAct(req[r])]_vars
  BY StepForCause DEF ForCause
<1> QED
  BY <1>1, AccessInvariance, PTL DEF Spec, ActedForCause

\* And it is turned away only if it may be.
THEOREM NotWithoutCause == Spec => TurnedAwayForCause
<1>1. AccessInv /\ [Next]_vars => [\A r \in Request : Becomes(r, "refused") => MayRefuse(req[r])]_vars
  BY StepForCause DEF ForCause
<1> QED
  BY <1>1, AccessInvariance, PTL DEF Spec, TurnedAwayForCause

=============================================================================
