------------------------------- MODULE Gateway -------------------------------
(***************************************************************************)
(* The way of a request through the API: overload and rate limits, the     *)
(* timer, the API key guards, the idempotency keys, and a handler, which   *)
(* for a vault is a read through ReadCaches.  Requests of one client       *)
(* address interleave wherever the code awaits the database or Redis; a    *)
(* request that was answered by its timer runs on, its answer discarded.   *)
(*                                                                         *)
(* A route is a sequence of stations (app.ts and the routers): admin       *)
(* writes pass a guard of the router, the idempotency keys, then a guard   *)
(* of their own.                                                           *)
(***************************************************************************)
EXTENDS ReadCaches, Sequences, FiniteSets

CONSTANTS MaxRequests, \* bound on the requests of a mix
          ApiKeys,
          Lockout,     \* AUTH_FAIL_LOCKOUT_THRESHOLD (20)
          LockoutTtl,  \* AUTH_FAIL_LOCKOUT_TTL_SECONDS (15 minutes)
          RevokedTtl,  \* REVOKED_KEY_CACHE_TTL_SECONDS (5 minutes)
          SessionTtl,  \* adminSessionExpiryMinutes
          Purge,       \* PURGE_INTERVAL of idempotency keys (24 hours)
          WindowLength,\* WINDOW_MS of the rate limits
          Inactivity,  \* KEY_INACTIVITY_DAYS
          Mixes        \* requests, settings and failures of a behaviour
ASSUME GatewayAssumption ==
  {MaxRequests, Lockout, LockoutTtl, RevokedTtl, SessionTtl, Purge, WindowLength, Inactivity} \subseteq Nat \ {0}
\* Requests of known kinds; a key that is not live at the start is so from then on.
ASSUME MixAssumption ==
  \A m \in Mixes :
    /\ DOMAIN m.requests \subseteq 1..MaxRequests
    /\ \A i \in DOMAIN m.requests : m.requests[i].id \in ApiKeys
    /\ m.keys \in [ApiKeys -> [known : BOOLEAN, active : BOOLEAN, salted : BOOLEAN,
                               role : STRING, methods : SUBSET STRING, elsewhere : BOOLEAN,
                               expires : Int, used : Int, deadAt : Int]]
    /\ \A k \in ApiKeys : /\ m.keys[k].deadAt <= 0
                          /\ ~(m.keys[k].known /\ m.keys[k].active) => m.keys[k].deadAt = 0

VARIABLES req,       \* what is under way for each request
          keys,      \* table api_keys
          sessions,  \* until when the admin session of a key is valid, 0 without one
          revoked,   \* revoked_key:* in Redis, by token, with their end
          failures,  \* auth_fail:<ip> in Redis
          windows,   \* the counters of the rate limiters
          stored,    \* table idempotency_keys
          landing,   \* inserts into it nobody waits for
          busy,      \* whether the event loop lags
          ran,       \* history: the requests whose handler took effect
          mix
gateVars == <<req, keys, sessions, revoked, failures, windows, stored, landing, busy, ran, mix>>
vars == <<now, up, cacheVars, gateVars>>

Forever == 1000
NoAnswer == [status |-> 0, of |-> 0, why |-> "", version |-> 0, age |-> 0, refused |-> 0]
Status(code, why) == [NoAnswer EXCEPT !.status = code, !.why = why]
Sent(i) == req[i].answer # NoAnswer
Ids == DOMAIN mix.requests
Request(i) == mix.requests[i]

Init ==
  /\ CacheInit /\ mix \in Mixes
  /\ req = [i \in Ids |-> [at |-> "new", left |-> <<>>, wrapped |-> FALSE, known |-> FALSE,
                           body |-> [version |-> 0, age |-> 0], answer |-> NoAnswer]]
  /\ keys = mix.keys /\ sessions = [k \in ApiKeys |-> 0]
  /\ revoked = [t \in ApiKeys |-> 0] /\ failures = [count |-> 0, refused |-> 0, until |-> 0]
  /\ windows = [l \in {"public", "auth"} |-> [count |-> 0, until |-> 0]]
  /\ stored = {} /\ landing = {} /\ busy = FALSE /\ ran = {}

\* The stations of a route, after its rate limiter.
Stations(r) ==
  CASE r.path = "admin" /\ r.method = "POST" -> <<"minRole", "idempotency", "admin", "handler">>
    [] r.path = "admin" /\ r.method # "POST" -> <<"minRole", "handler">>
    [] r.path = "webhooks"                   -> <<"anyRole", "idempotency", "handler">>
    [] r.path = "vault" /\ r.token = "none"  -> <<"handler">>
    [] r.path = "vault" /\ r.token # "none"  -> <<"minRole", "handler">>
    [] r.path \in {"login", "refresh"}       -> <<"handler">>
IsEssentialPath(r) == r.path \in {"admin", "login", "refresh"}
Limiter(r) == IF r.path = "vault" THEN "public" ELSE "auth"
\* The vault routes are mounted twice, each time behind the limiter.
Cost(r) == IF r.path = "vault" THEN 2 ELSE 1
-----------------------------------------------------------------------------
\* What res.json does with an answer by now: it is sent unless the timer has
\* answered already, inserted if the idempotency wrapper is on, and a 200 for
\* an anonymous vault read is kept as its copy.
Row(i, answer) ==
  [key |-> Request(i).key, route |-> Request(i).path, body |-> Request(i).body,
   status |-> answer.status, of |-> answer.of, at |-> now]
Captures(i, answer) ==
  Request(i).path = "vault" /\ ~Sent(i) /\ ~req[i].known /\ answer.status = 200 /\ answer.why = ""
Answer(i, answer) ==
  /\ req' = [req EXCEPT ![i].at = "done", ![i].wrapped = FALSE,
                        ![i].answer = IF Sent(i) THEN @ ELSE answer]
  /\ landing' = landing \cup (IF req[i].wrapped THEN {Row(i, answer)} ELSE {})
  /\ IF Captures(i, answer)
     THEN RememberStaleResponse([version |-> answer.version, age |-> answer.age])
     ELSE UNCHANGED copy
GoTo(i, at) == req' = [req EXCEPT ![i].at = at]
At(station) == CASE station \in {"minRole", "anyRole", "admin"} -> "count"
                 [] station = "idempotency" -> "purge"
                 [] OTHER -> "run"
\* next(): on to the next station.
Pass(i, r) == req' = [req EXCEPT ![i] = [r EXCEPT !.left = Tail(@), !.at = At(Head(Tail(r.left)))]]
-----------------------------------------------------------------------------
\* loadShedder, requestTimeout, rateLimit.
\* Requests are numbered as they arrive.  Bound: those under way at a time.
Arrives(i) ==
  /\ req[i].at = "new" /\ \A j \in 1..(i - 1) : req[j].at # "new"
  /\ Cardinality({j \in Ids : req[j].at \notin {"new", "done"}}) < mix.abreast
Shed(i) ==
  /\ Arrives(i) /\ busy /\ ~IsEssentialPath(Request(i))
  /\ Answer(i, Status(503, "overloaded"))
  /\ UNCHANGED <<now, up, version, writing, entry, keys, sessions, revoked, failures, windows,
                 stored, busy, ran, mix>>

Window(l) == IF now < windows[l].until THEN windows[l]
             ELSE [count |-> 0, until |-> now + WindowLength]
Counted(r) == LET w == Window(Limiter(r)) IN [w EXCEPT !.count = @ + Cost(r)]
Admit(i) ==
  /\ Arrives(i) /\ (~busy \/ IsEssentialPath(Request(i)))
  /\ LET r == Request(i)
         w == Counted(r)
         stations == Stations(r)
     IN  /\ windows' = [windows EXCEPT ![Limiter(r)] = w]
         /\ IF w.count > mix.limit THEN Answer(i, Status(429, "rate"))
            ELSE /\ req' = [req EXCEPT ![i].left = stations, ![i].at = At(Head(stations))]
                 /\ UNCHANGED <<copy, landing>>
  /\ UNCHANGED <<now, up, version, writing, entry, keys, sessions, revoked, failures, stored,
                 busy, ran, mix>>

\* Mutant: the timer is cleared when the handler is reached.
TimeoutBeforeHandler(i) ==
  /\ req[i].at \notin {"new", "done", "run", "ran", "query", "fill"} /\ ~Sent(i)
  /\ req' = [req EXCEPT ![i].wrapped = FALSE, ![i].answer = Status(503, "timeout")]
  /\ landing' = landing \cup (IF req[i].wrapped THEN {Row(i, Status(503, "timeout"))} ELSE {})
  /\ UNCHANGED <<now, up, cacheVars, keys, sessions, revoked, failures, windows, stored, busy, ran, mix>>
\* The timer: its own answer goes through the idempotency wrapper too.
Timeout(i) ==
  /\ req[i].at \notin {"new", "done"} /\ ~Sent(i)
  /\ req' = [req EXCEPT ![i].wrapped = FALSE, ![i].answer = Status(503, "timeout")]
  /\ landing' = landing \cup (IF req[i].wrapped THEN {Row(i, Status(503, "timeout"))} ELSE {})
  /\ UNCHANGED <<now, up, cacheVars, keys, sessions, revoked, failures, windows, stored, busy, ran, mix>>
-----------------------------------------------------------------------------
\* requireApiKey counts every call, whatever it ends in.
Failures == IF now < failures.until THEN failures
            ELSE [count |-> 0, refused |-> 0, until |-> Forever]
CountAttempt(i) ==
  /\ req[i].at = "count"
  /\ IF "redis" \notin up THEN /\ GoTo(i, "token")
                               /\ UNCHANGED <<failures, copy, landing>>
     ELSE LET count == Failures.count + 1
          IN  /\ failures' = [Failures EXCEPT !.count = count]
              /\ IF count > Lockout
                 THEN Answer(i, [Status(429, "lockout") EXCEPT !.refused = Failures.refused])
                 ELSE /\ GoTo(i, IF count = 1 THEN "expire" ELSE "token")
                      /\ UNCHANGED <<copy, landing>>
  /\ UNCHANGED <<now, up, version, writing, entry, keys, sessions, revoked, windows, stored,
                 busy, ran, mix>>

\* The counter gets its end in a second call.
AttachTtl(i) ==
  /\ req[i].at = "expire" /\ GoTo(i, "token")
  /\ failures' = IF "redis" \in up /\ failures.count > 0
                 THEN [failures EXCEPT !.until = now + LockoutTtl] ELSE failures
  /\ UNCHANGED <<now, up, cacheVars, keys, sessions, revoked, windows, stored, landing, busy, ran, mix>>

Guard(i) == Head(req[i].left)
Refuse(i, answer) ==
  /\ Answer(i, answer)
  /\ failures' = [failures EXCEPT !.refused = @ + 1]
\* The roles a guard lets through with a method.
RoleFits(role, guard, method) ==
  CASE guard = "anyRole" -> TRUE
    [] guard = "admin"   -> role = "admin"
    [] guard = "minRole" -> role = "admin" \/ (role = "readonly" /\ method = "GET")
Allowed(k, i) == /\ Request(i).method \in keys[k].methods
                 /\ RoleFits(keys[k].role, Guard(i), Request(i).method)
\* Whether the address is within the ranges of the key.
Scoped(k, i) == keys[k].known => ~keys[k].elsewhere

\* The session, if the token is one; its role and methods are the key's.
Session(i) == Request(i).token = "session" /\ sessions[Request(i).id] > 0
CheckToken(i) ==
  /\ req[i].at = "token"
  /\ LET k == Request(i).id
     IN  IF Request(i).token = "none" THEN Refuse(i, Status(401, "missing"))
         ELSE IF ~Session(i) THEN GoTo(i, "revoked") /\ UNCHANGED <<failures, copy, landing>>
         ELSE IF sessions[k] <= now THEN Refuse(i, Status(401, "expired"))
         ELSE IF ~Allowed(k, i) THEN Refuse(i, Status(403, "permissions"))
         ELSE GoTo(i, "scope") /\ UNCHANGED <<failures, copy, landing>>
  /\ UNCHANGED <<now, up, version, writing, entry, keys, sessions, revoked, windows, stored,
                 busy, ran, mix>>

\* lookupApiKeyScopeById: a failing query is caught, and the token is tried as
\* a key; the session of a key that is gone has no scope.
CheckScope(i) ==
  /\ req[i].at = "scope"
  /\ LET k == Request(i).id
     IN  CASE "db" \notin up -> GoTo(i, "revoked") /\ UNCHANGED <<failures, copy, landing>>
           [] "db" \in up /\ ~Scoped(k, i) -> Refuse(i, Status(403, "scope"))
           [] "db" \in up /\ Scoped(k, i) -> /\ Pass(i, [req[i] EXCEPT !.known = TRUE])
                                             /\ UNCHANGED <<failures, copy, landing>>
  /\ UNCHANGED <<now, up, version, writing, entry, keys, sessions, revoked, windows, stored,
                 busy, ran, mix>>

\* The negative results in Redis are those of keys; no other token is in use
\* often enough to matter.
CheckRevoked(i) ==
  /\ req[i].at = "revoked"
  /\ IF Request(i).token = "key" /\ "redis" \in up /\ now < revoked[Request(i).id]
     THEN Refuse(i, Status(401, "revoked"))
     ELSE GoTo(i, "lookup") /\ UNCHANGED <<failures, copy, landing>>
  /\ UNCHANGED <<now, up, version, writing, entry, keys, sessions, revoked, windows, stored,
                 busy, ran, mix>>

\* Mutant: a negative result that never ends.
RevokedForGood == Forever
RevokedUntil == now + RevokedTtl
Unexpired(k) == now < keys[k].expires
Live(k) == keys[k].known /\ keys[k].active /\ Unexpired(k)
\* A row is selected by the plain hash of the token.  generate-api-key stores
\* the hash of salt and key, rotate-api-key the plain one, so that a salted key
\* is never selected, and the comparison of salted hashes meant for it never
\* reached: no script stores a salt beside a plain hash.
Selected(k) == keys[k].known /\ ~keys[k].salted
\* An outage looks like an unknown key.  A key that is not selected, or is
\* inactive, is remembered as such; the entry is written within the time step.
LookupApiKeyByPlaintext(k, found) ==
  revoked' = IF found /\ "redis" \in up /\ ~(Selected(k) /\ keys[k].active)
             THEN [revoked EXCEPT ![k] = RevokedUntil] ELSE revoked
LookupKey(i) ==
  /\ req[i].at = "lookup"
  /\ LET k == Request(i).id
         found == Request(i).token = "key" /\ "db" \in up
     IN  /\ LookupApiKeyByPlaintext(k, found)
         /\ IF ~found \/ ~(Selected(k) /\ Live(k))
            THEN Refuse(i, Status(401, IF found THEN "key" ELSE "outage")) /\ UNCHANGED keys
            ELSE IF ~Allowed(k, i) \/ ~Scoped(k, i)
            THEN Refuse(i, Status(403, "permissions")) /\ UNCHANGED keys
            ELSE /\ Pass(i, [req[i] EXCEPT !.known = TRUE])
                 \* touchLastUsed, once per request.
                 /\ keys' = IF req[i].known THEN keys ELSE [keys EXCEPT ![k].used = now]
                 /\ UNCHANGED <<failures, copy, landing>>
  /\ UNCHANGED <<now, up, version, writing, entry, sessions, windows, stored, busy, ran, mix>>
-----------------------------------------------------------------------------
\* idempotency(): purge, look, and either answer or wrap res.json.
Unavailable(i) == Answer(i, Status(503, "database"))
Keyed(i) == Request(i).method = "POST" /\ Request(i).key # 0
Recent == {row \in stored : now - row.at <= Purge}
PurgeKeys(i) ==
  /\ req[i].at = "purge"
  /\ IF ~Keyed(i)
     THEN Pass(i, req[i]) /\ UNCHANGED <<stored, copy, landing>>
     ELSE IF "db" \in up
     THEN stored' = Recent /\ GoTo(i, "select") /\ UNCHANGED <<copy, landing>>
     ELSE Unavailable(i) /\ UNCHANGED stored
  /\ UNCHANGED <<now, up, version, writing, entry, keys, sessions, revoked, failures, windows,
                 busy, ran, mix>>

Rows(r) == {row \in stored : row.key = r.key /\ row.route = r.path}
\* Mutant: the hash of the body is not compared.
AnyBody(row, r) == TRUE
SameBody(row, r) == row.body = r.body
SelectRow(i) ==
  /\ req[i].at = "select"
  /\ LET r == Request(i)
     IN  CASE "db" \notin up -> Unavailable(i)
           [] "db" \in up /\ Rows(r) = {} ->
                Pass(i, [req[i] EXCEPT !.wrapped = TRUE]) /\ UNCHANGED <<copy, landing>>
           [] "db" \in up /\ Rows(r) # {} ->
                \E row \in Rows(r) :
                  Answer(i, IF SameBody(row, r)
                            THEN [Status(row.status, "replayed") EXCEPT !.of = row.of]
                            ELSE Status(422, "reused"))
  /\ UNCHANGED <<now, up, version, writing, entry, keys, sessions, revoked, failures, windows,
                 stored, busy, ran, mix>>

\* The insert the wrapper does not wait for; the first row of a key stays.
InsertLands(row) ==
  /\ row \in landing /\ "db" \in up /\ landing' = landing \ {row}
  /\ stored' = stored \cup
       (IF \E s \in stored : s.key = row.key /\ s.route = row.route THEN {} ELSE {[row EXCEPT !.at = now]})
  /\ UNCHANGED <<now, up, cacheVars, req, keys, sessions, revoked, failures, windows, busy, ran, mix>>
InsertFails(row) ==
  /\ row \in landing /\ "db" \notin up /\ landing' = landing \ {row}
  /\ UNCHANGED <<now, up, cacheVars, req, keys, sessions, revoked, failures, windows, stored, busy,
                 ran, mix>>
-----------------------------------------------------------------------------
\* A handler that writes: its effect, then its answer.
Handles(i, paths) == req[i].at = "run" /\ Request(i).path \in paths
RunHandler(i) ==
  /\ Handles(i, {"admin", "webhooks"})
  /\ IF "db" \in up THEN ran' = ran \cup {i} /\ GoTo(i, "ran") /\ UNCHANGED <<copy, landing>>
     ELSE Unavailable(i) /\ UNCHANGED ran
  /\ UNCHANGED <<now, up, version, writing, entry, keys, sessions, revoked, failures, windows,
                 stored, busy, mix>>
AnswerHandled(i) ==
  /\ req[i].at = "ran" /\ Answer(i, [Status(200, "") EXCEPT !.of = i])
  /\ UNCHANGED <<now, up, version, writing, entry, keys, sessions, revoked, failures, windows,
                 stored, busy, ran, mix>>

\* createAdminSession, which selects the key by its plain hash too, and
\* refreshAdminSession, which looks only at the token.
Login(i) ==
  /\ Handles(i, {"login"})
  /\ LET k == Request(i).id
         found == "db" \in up /\ Selected(k) /\ Live(k)
     IN  CASE ~found -> /\ Answer(i, Status(401, "login"))
                        /\ UNCHANGED <<keys, sessions>>
           [] found /\ keys[k].role # "admin" ->
                /\ Answer(i, Status(403, "login")) /\ UNCHANGED <<keys, sessions>>
           [] found /\ keys[k].role = "admin" ->
                /\ Answer(i, [Status(200, "session") EXCEPT !.of = i])
                /\ keys' = [keys EXCEPT ![k].used = now]
                /\ sessions' = [sessions EXCEPT ![k] = now + SessionTtl]
  /\ UNCHANGED <<now, up, version, writing, entry, revoked, failures, windows, stored, busy, ran, mix>>
Refresh(i) ==
  /\ Handles(i, {"refresh"})
  /\ LET k == Request(i).id
     IN  IF Session(i) /\ now < sessions[k]
         THEN /\ Answer(i, [Status(200, "session") EXCEPT !.of = i])
              /\ sessions' = [sessions EXCEPT ![k] = now + SessionTtl]
         ELSE Answer(i, Status(401, "refresh")) /\ UNCHANGED sessions
  /\ UNCHANGED <<now, up, version, writing, entry, keys, revoked, failures, windows, stored, busy,
                 ran, mix>>

\* getVault: from Redis, or from the database and then into Redis.
Read(body) == [Status(200, "") EXCEPT !.version = body.version, !.age = body.age]
GetVault(i) ==
  /\ Handles(i, {"vault"})
  /\ IF Cached THEN Answer(i, Read(Body(entry)))
     ELSE GoTo(i, "query") /\ UNCHANGED <<copy, landing>>
  /\ UNCHANGED <<now, up, version, writing, entry, keys, sessions, revoked, failures, windows,
                 stored, busy, ran, mix>>

\* Mutant: a stale answer is captured like any other.
CaptureStale(i) ==
  LET body == Body(copy)
  IN  /\ req' = [req EXCEPT ![i].at = "done", ![i].answer =
                   IF Sent(i) THEN @ ELSE [Read(body) EXCEPT !.why = "stale"]]
      /\ RememberStaleResponse(body) /\ UNCHANGED landing
\* sendStaleResponse writes with res.send, which captures nothing.
SendStaleResponse(i) == Answer(i, [Read(Body(copy)) EXCEPT !.why = "stale"])
QueryVault(i) ==
  /\ req[i].at = "query"
  /\ CASE "db" \in up -> /\ req' = [req EXCEPT ![i].at = "fill",
                                               ![i].body = [version |-> version, age |-> 0]]
                         /\ UNCHANGED <<copy, landing>>
       [] "db" \notin up /\ HasStaleResponse /\ ~req[i].known -> SendStaleResponse(i)
       [] "db" \notin up /\ ~(HasStaleResponse /\ ~req[i].known) -> Unavailable(i)
  /\ UNCHANGED <<now, up, version, writing, entry, keys, sessions, revoked, failures, windows,
                 stored, busy, ran, mix>>
FillCache(i) ==
  /\ req[i].at = "fill" /\ CacheSet(req[i].body) /\ Answer(i, Read(req[i].body))
  /\ UNCHANGED <<now, up, version, writing, keys, sessions, revoked, failures, windows, stored,
                 busy, ran, mix>>
-----------------------------------------------------------------------------
\* What happens around the requests.
DeleteApiKey(k) ==
  /\ "delete" \in mix.may /\ "db" \in up /\ keys[k].known
  /\ keys' = [keys EXCEPT ![k].known = FALSE, ![k].deadAt = now]
  /\ UNCHANGED <<now, up, cacheVars, req, sessions, revoked, failures, windows, stored, landing,
                 busy, ran, mix>>
Idle(k) == keys[k].known /\ keys[k].active /\ keys[k].used < now - Inactivity
DeactivateInactiveApiKeys ==
  /\ "sweep" \in mix.may /\ "db" \in up /\ \E k \in ApiKeys : Idle(k)
  /\ keys' = [k \in ApiKeys |-> IF Idle(k) THEN [keys[k] EXCEPT !.active = FALSE, !.deadAt = now]
                                ELSE keys[k]]
  /\ UNCHANGED <<now, up, cacheVars, req, sessions, revoked, failures, windows, stored, landing,
                 busy, ran, mix>>
\* External: an operator activates a key again, or issues it.
ActivateKey(k) ==
  /\ "activate" \in mix.may /\ "db" \in up /\ ~(keys[k].known /\ keys[k].active)
  /\ keys' = [keys EXCEPT ![k].known = TRUE, ![k].active = TRUE, ![k].used = now, ![k].deadAt = now]
  /\ UNCHANGED <<now, up, cacheVars, req, sessions, revoked, failures, windows, stored, landing,
                 busy, ran, mix>>

Tick ==
  /\ now < mix.until /\ now' = now + 1
  /\ keys' = [k \in ApiKeys |-> IF Live(k) THEN keys[k] ELSE [keys[k] EXCEPT !.deadAt = now + 1]]
  /\ UNCHANGED <<up, cacheVars, req, sessions, revoked, failures, windows, stored, landing, busy,
                 ran, mix>>
Lag ==
  /\ "lag" \in mix.may /\ busy' = ~busy
  /\ UNCHANGED <<now, up, cacheVars, req, keys, sessions, revoked, failures, windows, stored,
                 landing, ran, mix>>
\* The process restarts: its connections, copies and rate counters are gone.
Crash ==
  /\ "crash" \in mix.may
  /\ \E i \in Ids : req[i].at \notin {"new", "done"}
  /\ req' = [i \in Ids |-> IF req[i].at \in {"new", "done"} THEN req[i]
                           ELSE [req[i] EXCEPT !.at = "done", !.wrapped = FALSE,
                                  !.answer = IF Sent(i) THEN @ ELSE Status(0, "closed")]]
  /\ landing' = {} /\ copy' = Empty
  /\ windows' = [l \in DOMAIN windows |-> [count |-> 0, until |-> 0]]
  /\ UNCHANGED <<now, up, version, writing, entry, keys, sessions, revoked, failures, stored, busy,
                 ran, mix>>

Guards(i) == CountAttempt(i) \/ AttachTtl(i) \/ CheckToken(i) \/ CheckScope(i)
             \/ CheckRevoked(i) \/ LookupKey(i)
Handlers(i) == \/ RunHandler(i) \/ AnswerHandled(i) \/ Login(i) \/ Refresh(i)
               \/ GetVault(i) \/ QueryVault(i) \/ FillCache(i)
Indexed == /\ "write" \in mix.may /\ version < 3
           /\ InvalidateVault \/ CommitVault
           /\ UNCHANGED gateVars
Services == /\ \E s \in mix.may \cap {"db", "redis"} : ServiceFails(s) \/ ServiceReturns(s)
            /\ UNCHANGED gateVars
Operators == DeactivateInactiveApiKeys \/ \E k \in ApiKeys : DeleteApiKey(k) \/ ActivateKey(k)
Next ==
  \/ \E i \in Ids : \/ Shed(i) \/ Admit(i) \/ Timeout(i) \/ Guards(i)
                    \/ PurgeKeys(i) \/ SelectRow(i) \/ Handlers(i)
  \/ \E row \in landing : InsertLands(row) \/ InsertFails(row)
  \/ Indexed \/ Services \/ Operators \/ Tick \/ Lag \/ Crash

\* Only the timers are sure to make progress: a query may hang.
Spec == Init /\ [][Next]_vars /\ \A i \in 1..MaxRequests : WF_vars(i \in Ids /\ Timeout(i))
-----------------------------------------------------------------------------
SameCall(i, j) == /\ Keyed(i) /\ Keyed(j) /\ Request(i).key = Request(j).key
                  /\ Request(i).path = Request(j).path /\ Request(i).body = Request(j).body

\* A result is only ever given to the request that computed it or, by its
\* idempotency key, to a request with the same route and body, whatever timers,
\* late inserts and purges come between.
ReplaysAreOwnAnswers ==
  \A i \in Ids : req[i].answer.of \in Ids =>
    req[i].answer.of = i \/ SameCall(i, req[i].answer.of)

\* A vault's answer has spent less than the Redis time to live in caches, a
\* stale one that and less than the time a copy is kept: the two caches never
\* feed each other to keep a value alive, in whatever order Redis and the
\* database fail and return.
AnswersRecent ==
  \A i \in Ids : Request(i).path = "vault" /\ req[i].answer.status = 200 =>
    req[i].answer.age
      <= (Ttl - 1) + (IF req[i].answer.why = "stale" THEN Fresh + StaleTtl - 1 ELSE 0)

\* The request is told that its key, which is live, is unknown or revoked.
LiveKeyRefused(i) ==
  /\ ~Sent(i) /\ req'[i].answer.why \in {"revoked", "key", "outage"}
  /\ Request(i).token = "key" /\ Live(Request(i).id)
\* The database is down, or the key was not live within the last RevokedTtl.
ReasonPasses(k) == "db" \notin up \/ now - keys[k].deadAt <= RevokedTtl

\* A live key stored by its plain hash is refused as unknown only for a reason
\* that passes, whoever deleted, swept or issued it in between.  (Of a key that
\* is stored salted, see SaltedKeysVerified.)
RefusedForReason ==
  [][\A i \in Ids :
       LiveKeyRefused(i) /\ ~keys[Request(i).id].salted => ReasonPasses(Request(i).id)]_vars

\* Every request that arrives is answered, however long the database hangs.
EveryRequestAnswered ==
  \A i \in 1..MaxRequests : (i \in Ids /\ req[i].at # "new") ~> (i \in Ids /\ Sent(i))

\* "Re-derive the salted hash for constant-time verification on new keys"
\* (lookupApiKeyByPlaintext): a live key stored salted is not refused either.
SaltedKeysVerified ==
  [][\A i \in Ids :
       LiveKeyRefused(i) /\ keys[Request(i).id].salted => ReasonPasses(Request(i).id)]_vars

\* "IP locked out due to too many failed attempts" (requireApiKey).
OnlyFailuresLockOut ==
  \A i \in Ids : req[i].answer.why = "lockout" => req[i].answer.refused > 0

\* "Replays stored responses for retried POSTs carrying an Idempotency-Key"
\* (routes/admin.ts): of two such requests one runs.
RepeatedKeyRunsOnce == \A i, j \in ran : SameCall(i, j) => i = j
=============================================================================
