------------------------------- MODULE Access -------------------------------
(***************************************************************************)
(* Who may do what: the doors in front of the handlers.                     *)
(*                                                                         *)
(* The API's middleware (internal/api/auth.go) tests one configured token,  *)
(* or the keys of the table api_keys, unless that table is empty; that it   *)
(* is empty is remembered for a while, and asked for by several requests at *)
(* a time without a lock.  Interactions of Discord are tested against the   *)
(* configured roles, text messages against the table allowed_senders.  Both *)
(* tables are edited by hand while the server runs.                         *)
(*                                                                         *)
(* An action is one statement with the work up to the next; Discord is      *)
(* answered at once.  Signatures are taken as verified.  Of an answer the   *)
(* model keeps whether the request was carried out, refused, or neither     *)
(* because a statement had failed, which the middleware reports as such     *)
(* ("unavailable") or as a bad key ("misjudged").                           *)
(*                                                                         *)
(* Bounds: one Tick is a slice of time; ages are counted up to Horizon,     *)
(* beyond which nothing depends on them.  MaxWait is how long a statement   *)
(* and what a request does around it take at most.                          *)
(***************************************************************************)
EXTENDS Naturals, Functions

CONSTANTS
  Request,            \* the requests in flight together
  Key,                \* the keys that api_keys may hold
  Permissions,        \* what each of them permits
  Route,              \* the routes asked for, of those requiredScopeForRequest knows
  Command,            \* the commands and buttons used
  Setup,              \* the settings the server may be started with
  hasKeysCacheTTL,
  MaxWait

NoToken    == "none"
Configured == "configured"        \* the token in BACKFLOW_API_KEY

\* The scope each route asks a key for.
requiredScopeForRequest ==
  [getHealth  |-> "health:read", getStats |-> "stats:read",
   listTasks  |-> "tasks:read",  getTask  |-> "tasks:read", getLogs   |-> "tasks:read",
   postTask   |-> "tasks:write", deleteTask |-> "tasks:write", postRetry |-> "tasks:write"]

\* The commands and buttons behind hasPermission, and those that are not.
NeedsRole == {"cancel", "read", "retry", "cancel button", "retry button"}
Open      == {"create", "modal", "status", "list"}

ASSUME AccessAssumption ==
  /\ Key \cap {NoToken, Configured} = {}
  /\ Permissions \in [Key -> SUBSET Range(requiredScopeForRequest)]
  /\ Route \subseteq DOMAIN requiredScopeForRequest
  /\ Command \subseteq NeedsRole \cup Open
  /\ Setup \subseteq [apiKey : BOOLEAN, restrictAPI : BOOLEAN, roles : BOOLEAN]
  /\ hasKeysCacheTTL \in Nat \ {0} /\ MaxWait \in Nat

VARIABLES
  settings,   \* what the server was started with
  keys,       \* api_keys: "absent", "valid" or "expired"
  sender,     \* whether the sender is in allowed_senders, and enabled
  cache,      \* cachedHas and the age of cachedAt
  since,      \* how long ago api_keys was last seen empty, and not empty, by anyone
  req         \* the requests in flight

vars == <<settings, keys, sender, cache, since, req>>

Horizon == hasKeysCacheTTL + 2 * MaxWait

Older(age, limit) == IF age < limit THEN age + 1 ELSE limit

\* was: whether the credential was good at moments since the request arrived.
\* Of an answered request only the answer is kept, till the next one.
NoRequest == [pc |-> "idle", door |-> "none", op |-> "none", cred |-> NoToken,
              has |-> FALSE, wait |-> 0, was |-> {}]

HasAPIKeys(table) == \E k \in Key : table[k] # "absent"

\* A key that exists, has not expired and permits the route; an enabled sender.
Good(q, table, row) ==
  IF q.door = "sms" THEN row
  ELSE /\ q.cred \in Key /\ table[q.cred] = "valid"
       /\ requiredScopeForRequest[q.op] \in Permissions[q.cred]

-----------------------------------------------------------------------------
(* The state changes of a request.                                          *)

Goto(r, label) == req' = [req EXCEPT ![r].pc = label, ![r].wait = 0]

Answer(r, answer) == req' = [req EXCEPT ![r] = [NoRequest EXCEPT !.pc = answer]]

\* The labels where a statement is waited for; a cached answer takes no time.
Waiting(r) == req[r].pc \in {"query", "store", "lookup"}

Arrive(r, door, op, cred) ==
  /\ req[r].door = "none"
  /\ LET q == [NoRequest EXCEPT !.pc = "gate", !.door = door, !.op = op, !.cred = cred]
     IN  req' = [req EXCEPT ![r] =
                   [q EXCEPT !.was = IF door = "discord" THEN {} ELSE {Good(q, keys, sender)}]]
  /\ UNCHANGED <<settings, keys, sender, cache, since>>

\* blockPublicAccess comes after the middleware, on /api/v1 alone.
ServeHTTP(r) ==
  Answer(r, IF settings.restrictAPI /\ req[r].op # "getStats" THEN "refused" ELSE "acted")

-----------------------------------------------------------------------------
(* AuthMiddleware.                                                          *)

CheckToken(r) ==
  /\ req[r].pc = "gate" /\ req[r].door = "api" /\ settings.apiKey
  /\ IF req[r].cred = Configured THEN ServeHTTP(r) ELSE Answer(r, "refused")
  /\ UNCHANGED <<settings, keys, sender, cache, since>>

\* With no key in the table everyone is let in.
Decide(r, hasKeys) ==
  IF ~ hasKeys THEN ServeHTTP(r)
  ELSE IF req[r].cred = NoToken THEN Answer(r, "refused")
  ELSE Goto(r, "lookup")

CheckCache_Renews(r) ==
  /\ req[r].pc = "gate" /\ req[r].door = "api" /\ ~ settings.apiKey
  /\ IF cache.age < hasKeysCacheTTL THEN Decide(r, cache.has) /\ cache' = [cache EXCEPT !.age = 0]
                                    ELSE Goto(r, "query") /\ UNCHANGED cache
  /\ UNCHANGED <<settings, keys, sender, since>>

CheckCache(r) ==
  /\ req[r].pc = "gate" /\ req[r].door = "api" /\ ~ settings.apiKey
  /\ IF cache.age < hasKeysCacheTTL THEN Decide(r, cache.has) ELSE Goto(r, "query")
  /\ UNCHANGED <<settings, keys, sender, cache, since>>

Query_FailsOpen(r) ==
  /\ req[r].pc = "query"
  /\ \E has \in {HasAPIKeys(keys), FALSE} :
       req' = [req EXCEPT ![r].pc = "store", ![r].has = has]
  /\ UNCHANGED <<settings, keys, sender, cache, since>>

\* HasAPIKeys, without the lock.
Query(r) ==
  /\ req[r].pc = "query"
  /\ \/ req' = [req EXCEPT ![r].pc = "store", ![r].has = HasAPIKeys(keys)]
     \/ Answer(r, "unavailable")
  /\ UNCHANGED <<settings, keys, sender, cache, since>>

StoreCache_OnlyTrue(r) ==
  /\ req[r].pc = "store"
  /\ cache' = [has |-> cache.has \/ req[r].has, age |-> 0]
  /\ Decide(r, cache'.has)
  /\ UNCHANGED <<settings, keys, sender, since>>

\* The answer is remembered as of now, over what was asked later and is known.
StoreCache(r) ==
  /\ req[r].pc = "store"
  /\ cache' = [has |-> req[r].has, age |-> 0]
  /\ Decide(r, req[r].has)
  /\ UNCHANGED <<settings, keys, sender, since>>

\* GetAPIKeyByHash, Expired and HasPermission.  When the statement fails the
\* answer is the one for a bad key.
LookUpKey(r) ==
  /\ req[r].pc = "lookup"
  /\ \/ IF Good(req[r], keys, sender) THEN ServeHTTP(r) ELSE Answer(r, "refused")
     \/ Answer(r, "misjudged")
  /\ UNCHANGED <<settings, keys, sender, cache, since>>

-----------------------------------------------------------------------------
(* InteractionHandler and InboundHandler.                                   *)

\* hasPermission: no roles configured, or the member has one of them.
Interact(r) ==
  /\ req[r].pc = "gate" /\ req[r].door = "discord"
  /\ Answer(r, IF req[r].op \in NeedsRole /\ settings.roles /\ req[r].cred # "role"
               THEN "refused" ELSE "acted")
  /\ UNCHANGED <<settings, keys, sender, cache, since>>

\* GetAllowedSender.
LookUpSender(r) ==
  /\ req[r].pc = "gate" /\ req[r].door = "sms"
  /\ \/ IF sender THEN Goto(r, "create") ELSE Answer(r, "refused")
     \/ Answer(r, "unavailable")
  /\ UNCHANGED <<settings, keys, sender, cache, since>>

CreateTask(r) ==
  /\ req[r].pc = "create"
  /\ \E result \in {"acted", "unavailable"} : Answer(r, result)
  /\ UNCHANGED <<settings, keys, sender, cache, since>>

-----------------------------------------------------------------------------
(* Keys and senders, and time.                                              *)

Noted(table, row) ==
  [r \in Request |->
     IF req[r].door \in {"api", "sms"}
       THEN [req[r] EXCEPT !.was = @ \cup {Good(req[r], table, row)}] ELSE req[r]]

\* A key is created, expires or is deleted.  With a configured token nothing
\* reads the table.
KeyChanges(k, st) ==
  /\ ~ settings.apiKey
  /\ <<keys[k], st>> \in {<<"absent", "valid">>, <<"valid", "expired">>,
                          <<"valid", "absent">>, <<"expired", "absent">>}
  /\ keys' = [keys EXCEPT ![k] = st]
  /\ since' = IF HasAPIKeys(keys') THEN [since EXCEPT !.some = 0] ELSE [since EXCEPT !.none = 0]
  /\ req' = Noted(keys', sender)
  /\ UNCHANGED <<settings, sender, cache>>

SenderChanges ==
  /\ sender' = ~ sender
  /\ req' = Noted(keys, sender')
  /\ UNCHANGED <<settings, keys, cache, since>>

\* No statement takes longer than MaxWait.
Tick ==
  /\ \A r \in Request : Waiting(r) => req[r].wait < MaxWait
  /\ req' = [r \in Request |->
               IF Waiting(r) THEN [req[r] EXCEPT !.wait = @ + 1] ELSE req[r]]
  /\ cache' = [cache EXCEPT !.age = Older(@, hasKeysCacheTTL)]
  /\ since' = [some |-> IF HasAPIKeys(keys) THEN 0 ELSE Older(since.some, Horizon),
               none |-> IF HasAPIKeys(keys) THEN Older(since.none, Horizon) ELSE 0]
  /\ UNCHANGED <<settings, keys, sender>>

-----------------------------------------------------------------------------
Init ==
  /\ settings \in Setup
  /\ keys \in [Key -> {"absent", "valid"}]
  /\ sender = FALSE
  /\ cache = [has |-> FALSE, age |-> hasKeysCacheTTL]    \* cachedAt is zero
  /\ since = [some |-> IF HasAPIKeys(keys) THEN 0 ELSE Horizon,
              none |-> IF HasAPIKeys(keys) THEN Horizon ELSE 0]
  /\ req = [r \in Request |-> NoRequest]

Arrival(r) ==
  \/ \E op \in Route, cred \in Key \cup {NoToken, Configured} : Arrive(r, "api", op, cred)
  \/ \E op \in Command, cred \in {"role", "no role"} : Arrive(r, "discord", op, cred)
  \/ Arrive(r, "sms", "sms", NoToken)

Next ==
  \/ \E r \in Request :
       \/ Arrival(r) \/ CheckToken(r) \/ CheckCache(r) \/ Query(r) \/ StoreCache(r)
       \/ LookUpKey(r) \/ Interact(r) \/ LookUpSender(r) \/ CreateTask(r)
  \/ \E k \in Key, st \in {"absent", "valid", "expired"} : KeyChanges(k, st)
  \/ SenderChanges \/ Tick

Spec == Init /\ [][Next]_vars

-----------------------------------------------------------------------------
Answers == {"acted", "refused", "misjudged", "unavailable"}

InFlight ==
  [pc   : {"idle", "gate", "query", "store", "lookup", "create"} \cup Answers,
   door : {"none", "api", "discord", "sms"},
   op   : {"none", "sms"} \cup Route \cup Command,
   cred : Key \cup {NoToken, Configured, "role", "no role"},
   has  : BOOLEAN, wait : 0..MaxWait, was : SUBSET BOOLEAN]

TypeOK ==
  /\ settings \in Setup
  /\ keys \in [Key -> {"absent", "valid", "expired"}] /\ sender \in BOOLEAN
  /\ cache \in [has : BOOLEAN, age : 0..hasKeysCacheTTL]
  /\ since \in [some : 0..Horizon, none : 0..Horizon]
  /\ req \in [Request -> InFlight]

LastSeen == IF HasAPIKeys(keys) THEN since.some = 0 ELSE since.none = 0

\* An answer was true when it was got, by a statement no older than MaxWait.
Remembered ==
  cache.age < hasKeysCacheTTL =>
    (IF cache.has THEN since.some ELSE since.none) <= cache.age + MaxWait

\* Where a request is tells which door it has come by and what it has been told.
UnderWay(q) ==
  /\ q.pc \in {"idle"} \cup Answers <=> q.door = "none"
  /\ q.pc \in {"query", "store", "lookup"} => q.door = "api" /\ ~ settings.apiKey
  /\ q.door = "discord" => q.op \in Command
  /\ q.pc = "create" => q.door = "sms" /\ TRUE \in q.was
  /\ q.door \in {"api", "sms"} =>
       IF Good(q, keys, sender) THEN TRUE \in q.was ELSE FALSE \in q.was
  /\ q.pc = "store" => (IF q.has THEN since.some ELSE since.none) <= q.wait
  /\ q.pc = "lookup" => since.some < hasKeysCacheTTL + MaxWait + q.wait

\* What is remembered of api_keys, and what a request was told of it on its way,
\* is no older than the lifetime of the cache and the statements since: the
\* inductive invariant of the proofs.
AccessInv ==
  /\ TypeOK
  /\ LastSeen /\ Remembered
  /\ \A r \in Request : UnderWay(req[r])

\* What entitles a request to be carried out.  The API asks for the configured
\* token; else for a key that was good at some moment while the request was in
\* the server, or for none as long as the table has been empty so lately that
\* no remembered answer, nor one that a slow request has written over a later
\* one, can be older.  Discord asks for a role, a text message for its sender.
MayAct(q) ==
  CASE q.door = "api"     -> /\ ~ settings.restrictAPI \/ q.op = "getStats"
                             /\ IF settings.apiKey THEN q.cred = Configured
                                ELSE TRUE \in q.was \/ since.none < hasKeysCacheTTL + MaxWait
    [] q.door = "discord" -> q.op \in Open \/ q.cred = "role" \/ ~ settings.roles
    [] OTHER              -> TRUE \in q.was

\* What may have it turned away: never with the configured token, with a key or a
\* sender that was good all along, or without a key when the table has been empty
\* long enough.
MayRefuse(q) ==
  CASE q.door = "api"     -> \/ settings.restrictAPI /\ q.op # "getStats"
                             \/ IF settings.apiKey THEN q.cred # Configured
                                ELSE FALSE \in q.was /\ since.some < Horizon
    [] q.door = "discord" -> settings.roles /\ q.cred # "role"
    [] OTHER              -> FALSE \in q.was

Becomes(r, answer) == req[r].pc # answer /\ req'[r].pc = answer

\* A request is carried out only for a cause (auth.go, server.go, interactions.go,
\* inbound.go), however late a cached answer or a slow statement is.
ActedForCause == [][\A r \in Request : Becomes(r, "acted") => MayAct(req[r])]_vars

\* A request is turned away only for a cause.
TurnedAwayForCause == [][\A r \in Request : Becomes(r, "refused") => MayRefuse(req[r])]_vars

=============================================================================
