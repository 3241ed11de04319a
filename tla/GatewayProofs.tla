---------------------------- MODULE GatewayProofs ----------------------------
(***************************************************************************)
(* For any requests, keys and bounds: an answer is the request's own, its  *)
(* age is bounded, and a live key stored by its plain hash is refused for  *)
(* a reason that passes.                                                   *)
(***************************************************************************)
EXTENDS Gateway, TLAPS

-----------------------------------------------------------------------------
(* What requests, answers and rows are made of *)

IsReply(a) ==
  /\ DOMAIN a = {"status", "of", "why", "version", "age", "refused"}
  /\ a.age \in Nat
IsRequest(r) ==
  /\ DOMAIN r = {"at", "left", "wrapped", "known", "body", "answer"}
  /\ IsReply(r.answer) /\ r.body.age = 0
IsRow(row) == DOMAIN row = {"key", "route", "body", "status", "of", "at"}
IsKept(kept) ==
  /\ kept.age \in Nat /\ kept.at \in Nat /\ kept.until \in Nat /\ kept.at <= now

Shaped ==
  /\ mix \in Mixes /\ now \in Nat
  /\ req = [i \in Ids |-> req[i]] /\ \A i \in Ids : IsRequest(req[i])
  /\ \A row \in stored \cup landing : IsRow(row)
  /\ IsKept(entry) /\ IsKept(copy)
-----------------------------------------------------------------------------
(* Own answers *)

\* What answers i is its own result, or that of the same call.
Own(i, a) == a.of \in Ids => a.of = i \/ SameCall(i, a.of)
\* A row holds the result of a keyed request to its route, with its body.
Owned(row) ==
  row.of \in Ids => /\ Keyed(row.of) /\ row.key = Request(row.of).key
                    /\ row.route = Request(row.of).path /\ row.body = Request(row.of).body
OwnAnswers ==
  /\ \A row \in stored \cup landing : Owned(row)
  /\ \A i \in Ids : /\ req[i].wrapped \/ req[i].at = "select" => Keyed(i)
                    /\ Own(i, req[i].answer)
-----------------------------------------------------------------------------
(* Ages *)

MaxAge(a) == (Ttl - 1) + (IF a.why = "stale" THEN Fresh + StaleTtl - 1 ELSE 0)
Young ==
  /\ entry.age = 0 /\ entry.until <= entry.at + Ttl
  /\ copy.age <= Ttl - 1 /\ copy.until <= copy.at + Fresh + StaleTtl
  /\ \A i \in Ids : req[i].answer.age <= MaxAge(req[i].answer)
-----------------------------------------------------------------------------
(* Keys *)
Records == [known : BOOLEAN, active : BOOLEAN, salted : BOOLEAN, role : STRING,
            methods : SUBSET STRING, elsewhere : BOOLEAN, expires : Int, used : Int, deadAt : Int]
\* A key that is not there, or not active, is dead now; the negative result of a
\* key stored by its plain hash is no older than the last moment it was dead.
Dead ==
  /\ keys \in [ApiKeys -> Records] /\ revoked \in [ApiKeys -> Nat]
  /\ \A k \in ApiKeys :
       /\ keys[k].deadAt <= now
       /\ ~(keys[k].known /\ keys[k].active) => keys[k].deadAt = now
       /\ keys[k].salted \/ revoked[k] = 0 \/ revoked[k] <= keys[k].deadAt + RevokedTtl
-----------------------------------------------------------------------------
(* What a step may do to requests, rows and caches *)

Good == Shaped /\ OwnAnswers /\ Young

LEMMA InitGood == Init => Good
<1> SUFFICES ASSUME Init PROVE Good OBVIOUS
<1>1. mix \in Mixes /\ now = 0 /\ stored = {} /\ landing = {} /\ entry = Empty /\ copy = Empty
  BY DEF Init, CacheInit
<1>2. req = [i \in Ids |-> [at |-> "new", left |-> <<>>, wrapped |-> FALSE, known |-> FALSE,
                            body |-> [version |-> 0, age |-> 0], answer |-> NoAnswer]]
  BY DEF Init
<1>3. IsKept(entry) /\ IsKept(copy) BY <1>1 DEF IsKept, Empty
<1>4. IsReply(NoAnswer) BY DEF IsReply, NoAnswer
<1>5. \A i \in Ids : /\ IsRequest(req[i]) /\ req[i].answer = NoAnswer
                     /\ req[i].at = "new" /\ ~req[i].wrapped
  BY <1>2, <1>4 DEF IsRequest
<1>6. Shaped BY <1>1, <1>2, <1>3, <1>5 DEF Shaped
<1>7. OwnAnswers
  <2>1. \A i \in Ids : Own(i, NoAnswer)
    <3>1. 0 \notin Ids BY <1>1, MixAssumption, GatewayAssumption DEF Ids
    <3> QED BY <3>1 DEF Own, NoAnswer
  <2> QED BY <1>1, <1>5, <2>1 DEF OwnAnswers
<1>8. Young
  <2>1. NoAnswer.age <= MaxAge(NoAnswer) BY CacheAssumption DEF NoAnswer, MaxAge
  <2>2. entry.age = 0 /\ entry.until <= entry.at + Ttl BY <1>1, CacheAssumption DEF Empty
  <2>3. copy.age <= Ttl - 1 /\ copy.until <= copy.at + Fresh + StaleTtl
    BY <1>1, CacheAssumption DEF Empty
  <2> QED BY <1>5, <2>1, <2>2, <2>3 DEF Young
<1> QED BY <1>6, <1>7, <1>8 DEF Good

LEMMA NoZero == Shaped => 0 \notin Ids
BY MixAssumption, GatewayAssumption DEF Shaped, Ids

\* An answer that is not a result is its own.
LEMMA StatusOwn ==
  ASSUME Shaped, NEW i \in Ids, NEW code, NEW why
  PROVE  /\ IsReply(Status(code, why)) /\ Own(i, Status(code, why))
         /\ Status(code, why).age <= MaxAge(Status(code, why))
<1>1. Status(code, why).of = 0 /\ Status(code, why).age = 0 BY DEF Status, NoAnswer
<1>2. IsReply(Status(code, why)) BY <1>1 DEF IsReply, Status, NoAnswer
<1>3. Own(i, Status(code, why)) BY <1>1, NoZero DEF Own
<1>4. 0 <= MaxAge(Status(code, why)) BY CacheAssumption DEF MaxAge
<1> QED BY <1>1, <1>2, <1>3, <1>4

\* The entry in Redis as it may be after a step.
KeptEntry == IsKept(entry) /\ entry.age = 0 /\ entry.until <= entry.at + Ttl
KeptCopy == IsKept(copy) /\ copy.age <= Ttl - 1 /\ copy.until <= copy.at + Fresh + StaleTtl

LEMMA Caches == Good <=> /\ mix \in Mixes /\ now \in Nat
                         /\ req = [i \in Ids |-> req[i]]
                         /\ \A i \in Ids : /\ IsRequest(req[i])
                                           /\ req[i].wrapped \/ req[i].at = "select" => Keyed(i)
                                           /\ Own(i, req[i].answer)
                                           /\ req[i].answer.age <= MaxAge(req[i].answer)
                         /\ \A row \in stored \cup landing : IsRow(row) /\ Owned(row)
                         /\ KeptEntry /\ KeptCopy
BY DEF Good, Shaped, OwnAnswers, Young, KeptEntry, KeptCopy

\* One request changes, and is answered by its own answer if at all; rows are
\* taken away, or the result of that answer is to be written.
LEMMA OneChanges ==
  ASSUME Good, NEW i \in Ids, NEW r, req' = [req EXCEPT ![i] = r], mix' = mix, now' = now,
         IsRequest(r), r.wrapped \/ r.at = "select" => Keyed(i), Own(i, r.answer),
         r.answer.age <= MaxAge(r.answer),
         \A row \in stored' \cup landing' : row \in stored \cup landing \/ (IsRow(row) /\ Owned(row)),
         KeptEntry', KeptCopy'
  PROVE  Good'
<1>1. Ids' = Ids BY DEF Ids
<1>2. req = [k \in Ids |-> req[k]] /\ \A k \in Ids : IsRequest(req[k]) BY DEF Good, Shaped
<1>3. req' = [k \in Ids |-> req'[k]] /\ \A k \in Ids : req'[k] = IF k = i THEN r ELSE req[k]
  BY <1>2
<1>4. \A k \in Ids : /\ IsRequest(req'[k])
                     /\ req'[k].wrapped \/ req'[k].at = "select" => Keyed(k)
                     /\ Own(k, req'[k].answer) /\ req'[k].answer.age <= MaxAge(req'[k].answer)
  BY <1>3 DEF Good, Shaped, OwnAnswers, Young
<1>5. \A k : Keyed(k)' <=> Keyed(k) BY DEF Keyed, Request
<1>6. \A k, a : Own(k, a)' <=> Own(k, a) BY DEF Own, SameCall, Keyed, Request, Ids
<1>7. \A row : Owned(row)' <=> Owned(row) BY DEF Owned, Keyed, Request, Ids
<1>8. \A row \in stored' \cup landing' : IsRow(row) /\ Owned(row)
  BY DEF Good, Shaped, OwnAnswers
<1>9. Shaped'
  <2>1. mix' \in Mixes /\ now' \in Nat BY DEF Good, Shaped
  <2> QED BY <1>1, <1>3, <1>4, <1>8, <2>1 DEF Shaped, KeptEntry, KeptCopy
<1>10. OwnAnswers'
  <2>1. \A row \in stored' \cup landing' : Owned(row)' BY <1>7, <1>8
  <2>2. \A k \in Ids' : /\ req'[k].wrapped \/ req'[k].at = "select" => Keyed(k)'
                        /\ Own(k, req[k].answer)'
    BY <1>1, <1>4, <1>5, <1>6
  <2> QED BY <2>1, <2>2 DEF OwnAnswers
<1>11. Young' BY <1>1, <1>4 DEF Young, KeptEntry, KeptCopy, MaxAge
<1> QED BY <1>9, <1>10, <1>11 DEF Good

\* No request changes: rows go, caches change, time passes.
LEMMA NoneChanges ==
  ASSUME Good, req' = req, mix' = mix, now' \in Nat,
         \A row \in stored' \cup landing' : row \in stored \cup landing \/ (IsRow(row) /\ Owned(row)),
         KeptEntry', KeptCopy'
  PROVE  Good'
<1>1. Ids' = Ids BY DEF Ids
<1>2. \A k : Keyed(k)' <=> Keyed(k) BY DEF Keyed, Request
<1>3. \A k, a : Own(k, a)' <=> Own(k, a) BY DEF Own, SameCall, Keyed, Request, Ids
<1>4. \A row : Owned(row)' <=> Owned(row) BY DEF Owned, Keyed, Request, Ids
<1>5. \A row \in stored' \cup landing' : IsRow(row) /\ Owned(row)
  BY DEF Good, Shaped, OwnAnswers
<1>6. Shaped'
  <2>1. mix' \in Mixes BY DEF Good, Shaped
  <2>2. req' = [i \in Ids' |-> req'[i]] /\ \A i \in Ids' : IsRequest(req'[i])
    BY <1>1 DEF Good, Shaped
  <2> QED BY <1>5, <2>1, <2>2 DEF Shaped, KeptEntry, KeptCopy
<1>7. OwnAnswers'
  <2>1. \A row \in stored' \cup landing' : Owned(row)' BY <1>4, <1>5
  <2>2. \A k \in Ids' : /\ req'[k].wrapped \/ req'[k].at = "select" => Keyed(k)'
                        /\ Own(k, req[k].answer)'
    BY <1>1, <1>2, <1>3 DEF Good, OwnAnswers
  <2> QED BY <2>1, <2>2 DEF OwnAnswers
<1>8. Young' BY <1>1 DEF Good, Young, KeptEntry, KeptCopy, MaxAge
<1> QED BY <1>6, <1>7, <1>8 DEF Good

\* A copy of an answer, made within the step that gives it.
LEMMA Remembered ==
  ASSUME Good, NEW v, NEW age \in 0..(Ttl - 1), now' = now,
         RememberStaleResponse([version |-> v, age |-> age])
  PROVE  KeptCopy'
<1>1. KeptCopy /\ now \in Nat BY Caches
<1>2. CASE copy' = copy BY <1>1, <1>2 DEF KeptCopy, IsKept
<1>3. CASE copy' = Keep([version |-> v, age |-> age], Fresh + StaleTtl)
  <2>1. copy' = [version |-> v, age |-> age, at |-> now, until |-> now + (Fresh + StaleTtl)]
    BY <1>3 DEF Keep
  <2>2. age \in Nat /\ now + (Fresh + StaleTtl) \in Nat BY <1>1, CacheAssumption
  <2>3. copy'.age \in Nat /\ copy'.at \in Nat /\ copy'.until \in Nat /\ copy'.at <= now'
        /\ copy'.age <= Ttl - 1 /\ copy'.until <= copy'.at + Fresh + StaleTtl
    BY <1>1, <2>1, <2>2, CacheAssumption
  <2> QED BY <2>1, <2>3 DEF KeptCopy, IsKept
<1> QED BY <1>2, <1>3 DEF RememberStaleResponse

LEMMA CachesStay ==
  ASSUME Good, UNCHANGED <<entry, copy>>, now' = now \/ now' = now + 1
  PROVE  KeptEntry' /\ KeptCopy'
<1>1. KeptEntry /\ KeptCopy /\ now \in Nat BY Caches
<1> QED BY <1>1 DEF KeptEntry, KeptCopy, IsKept

\* res.json with an answer of its own.
LEMMA Answering ==
  ASSUME Good, NEW i \in Ids, NEW a, Answer(i, a), IsReply(a), Own(i, a), a.age <= MaxAge(a),
         mix' = mix, now' = now, stored' \subseteq stored, KeptEntry'
  PROVE  Good'
<1> DEFINE old == req[i]
           answer == IF Sent(i) THEN old.answer ELSE a
           r == [old EXCEPT !.at = "done", !.wrapped = FALSE, !.answer = answer]
           row == Row(i, a)
<1>1. IsRequest(old) /\ Own(i, old.answer) /\ old.answer.age <= MaxAge(old.answer)
      /\ (old.wrapped => Keyed(i)) /\ req = [k \in Ids |-> req[k]]
  BY DEF Good, Shaped, OwnAnswers, Young
<1>2. req' = [req EXCEPT ![i] = r]
  <2>1. req' = [req EXCEPT ![i].at = "done", ![i].wrapped = FALSE,
                           ![i].answer = IF Sent(i) THEN @ ELSE a]
    BY DEF Answer
  <2> QED BY <1>1, <2>1
<1>3. landing' = landing \cup (IF old.wrapped THEN {row} ELSE {}) BY DEF Answer
<1>4. IsReply(answer) /\ Own(i, answer) /\ answer.age <= MaxAge(answer) BY <1>1 DEF IsRequest
<1>6. IsRequest(r) /\ ~r.wrapped /\ r.at = "done" /\ r.answer = answer
  <2> HIDE DEF answer, old
  <2> QED BY <1>1, <1>4 DEF IsRequest
<1>7. IsRow(row) BY DEF IsRow, Row
<1>8. old.wrapped => Owned(row)
  <2> SUFFICES ASSUME old.wrapped, a.of \in Ids
               PROVE  /\ Keyed(a.of) /\ Request(i).key = Request(a.of).key
                      /\ Request(i).path = Request(a.of).path /\ Request(i).body = Request(a.of).body
    BY DEF Owned, Row
  <2>1. Keyed(i) BY <1>1
  <2> QED BY <2>1 DEF Own, SameCall
<1>9. KeptCopy'
  <2>1. CASE Captures(i, a)
    <3>1. a.why = "" /\ RememberStaleResponse([version |-> a.version, age |-> a.age])
      BY <2>1 DEF Captures, Answer
    <3>0. a.why # "stale" /\ a.age \in Nat BY <3>1 DEF IsReply
    <3>2. MaxAge(a) = Ttl - 1 /\ a.age \in Nat BY <3>0, CacheAssumption DEF MaxAge
    <3>3. a.age \in 0..(Ttl - 1) BY <3>2, CacheAssumption
    <3> QED BY <3>1, <3>3, Remembered
  <2>2. CASE ~Captures(i, a)
    <3>1. copy' = copy BY <2>2 DEF Answer
    <3> QED BY <3>1, Caches DEF KeptCopy, IsKept
  <2> QED BY <2>1, <2>2
<1>10. \A x \in stored' \cup landing' : x \in stored \cup landing \/ (IsRow(x) /\ Owned(x))
  <2> HIDE DEF row, old
  <2> QED BY <1>3, <1>7, <1>8
<1> HIDE DEF r, answer, old, row
<1> QED BY <1>2, <1>4, <1>6, <1>9, <1>10, OneChanges

\* The request goes on, unanswered or answered as before.
LEMMA GoingOn ==
  ASSUME Good, NEW i \in Ids, NEW r, req' = [req EXCEPT ![i] = r], IsRequest(r),
         r.answer = req[i].answer, r.wrapped \/ r.at = "select" => Keyed(i),
         mix' = mix, now' = now, stored' \subseteq stored, UNCHANGED <<landing, entry, copy>>
  PROVE  Good'
<1>1. Own(i, r.answer) /\ r.answer.age <= MaxAge(r.answer) BY DEF Good, OwnAnswers, Young
<1>2. KeptEntry' /\ KeptCopy' BY CachesStay
<1> QED BY <1>1, <1>2, OneChanges

LEMMA GoingTo ==
  ASSUME Good, NEW i \in Ids, NEW at, GoTo(i, at), at = "select" => Keyed(i),
         mix' = mix, now' = now, stored' \subseteq stored, UNCHANGED <<landing, entry, copy>>
  PROVE  Good'
<1> DEFINE r == [req[i] EXCEPT !.at = at]
<1>1. IsRequest(req[i]) /\ (req[i].wrapped => Keyed(i)) /\ req = [k \in Ids |-> req[k]]
  BY DEF Good, Shaped, OwnAnswers
<1>2. req' = [req EXCEPT ![i] = r] BY <1>1 DEF GoTo
<1>4. IsRequest(r) BY <1>1 DEF IsRequest
<1>5. r.answer = req[i].answer /\ (r.wrapped \/ r.at = "select" => Keyed(i)) BY <1>1 DEF IsRequest
<1> HIDE DEF r
<1> QED BY <1>2, <1>4, <1>5, GoingOn

LEMMA Passing ==
  ASSUME Good, NEW i \in Ids, NEW old, Pass(i, old), IsRequest(old), old.answer = req[i].answer,
         old.wrapped => Keyed(i),
         mix' = mix, now' = now, stored' \subseteq stored, UNCHANGED <<landing, entry, copy>>
  PROVE  Good'
<1> DEFINE at == At(Head(Tail(old.left)))
           left == Tail(old.left)
           r == [old EXCEPT !.left = left, !.at = at]
<1>1. at # "select" BY DEF At
<1>2. req' = [req EXCEPT ![i] = r] BY DEF Pass
<1> HIDE DEF at, left
<1>3. IsRequest(r) BY DEF IsRequest
<1>4. r.answer = req[i].answer /\ (r.wrapped \/ r.at = "select" => Keyed(i))
  BY <1>1 DEF IsRequest
<1> HIDE DEF r
<1> QED BY <1>2, <1>3, <1>4, GoingOn

\* A guard or a limiter says no.
LEMMA Refusing ==
  ASSUME Good, NEW i \in Ids, NEW code, NEW why, Answer(i, Status(code, why)),
         mix' = mix, now' = now, stored' \subseteq stored, entry' = entry
  PROVE  Good'
<1>1. Shaped /\ KeptEntry BY Caches DEF Good
<1>2. KeptEntry' BY <1>1 DEF KeptEntry, IsKept
<1> QED BY <1>1, <1>2, StatusOwn, Answering
-----------------------------------------------------------------------------
(* The stations *)

LEMMA Known ==
  ASSUME Good, NEW i \in Ids
  PROVE  /\ IsRequest(req[i]) /\ IsReply(req[i].answer)
         /\ req[i].wrapped \/ req[i].at = "select" => Keyed(i)
         /\ req = [k \in Ids |-> req[k]]
BY DEF Good, Shaped, OwnAnswers, IsRequest

LEMMA AdmissionGood ==
  ASSUME Good, NEW i \in Ids, Shed(i) \/ Admit(i) \/ Timeout(i)
  PROVE  Good'
<1>1. CASE Shed(i)
  <2>1. /\ Answer(i, Status(503, "overloaded")) /\ UNCHANGED <<mix, now, stored, entry>>
    BY <1>1 DEF Shed
  <2> QED BY <2>1, Refusing
<1>2. CASE Admit(i)
  <2>1. UNCHANGED <<mix, now, stored, entry>> BY <1>2 DEF Admit
  <2>2. CASE Answer(i, Status(429, "rate")) BY <2>1, <2>2, Refusing
  <2>3. CASE ~Answer(i, Status(429, "rate"))
    <3> DEFINE left == Stations(Request(i))
               at == At(Head(left))
               r == [req[i] EXCEPT !.left = left, !.at = at]
    <3>1. /\ req' = [req EXCEPT ![i].left = left, ![i].at = at] /\ UNCHANGED <<copy, landing>>
      BY <1>2, <2>3 DEF Admit
    <3>2. at # "select" BY DEF At
    <3> HIDE DEF at, left
    <3>3. req' = [req EXCEPT ![i] = r] BY <3>1, Known
    <3>4. IsRequest(r) /\ r.answer = req[i].answer /\ (r.wrapped \/ r.at = "select" => Keyed(i))
      BY <3>2, Known DEF IsRequest
    <3> HIDE DEF r
    <3> QED BY <2>1, <3>1, <3>3, <3>4, GoingOn
  <2> QED BY <2>2, <2>3
<1>3. CASE Timeout(i)
  <2> DEFINE answer == Status(503, "timeout")
             r == [req[i] EXCEPT !.wrapped = FALSE, !.answer = answer]
             row == Row(i, answer)
  <2>1. /\ req' = [req EXCEPT ![i].wrapped = FALSE, ![i].answer = answer]
        /\ landing' = landing \cup (IF req[i].wrapped THEN {row} ELSE {})
        /\ UNCHANGED <<mix, now, stored, entry, copy>>
    BY <1>3 DEF Timeout, cacheVars
  <2>2. IsReply(answer) /\ Own(i, answer) /\ answer.age <= MaxAge(answer) BY StatusOwn DEF Good
  <2>3. IsRow(row) BY DEF IsRow, Row
  <2>4. Owned(row)
    <3>1. row.of = 0 BY DEF Row, Status, NoAnswer
    <3> QED BY <3>1, NoZero DEF Owned, Good
  <2> HIDE DEF answer, row
  <2>5. req' = [req EXCEPT ![i] = r] BY <2>1, Known
  <2>6. IsRequest(r) /\ r.answer = answer /\ ~r.wrapped /\ r.at = req[i].at
    BY <2>2, Known DEF IsRequest
  <2>7. r.wrapped \/ r.at = "select" => Keyed(i) BY <2>6, Known
  <2> HIDE DEF r
  <2>8. KeptEntry' /\ KeptCopy' BY <2>1, CachesStay
  <2>9. \A x \in stored' \cup landing' : x \in stored \cup landing \/ (IsRow(x) /\ Owned(x))
    BY <2>1, <2>3, <2>4
  <2> QED BY <2>1, <2>2, <2>5, <2>6, <2>7, <2>8, <2>9, OneChanges
<1> QED BY <1>1, <1>2, <1>3

LEMMA CountAttemptGood == ASSUME Good, NEW i \in Ids, CountAttempt(i) PROVE Good'
<1>1. UNCHANGED <<mix, now, stored, entry>> BY DEF CountAttempt
<1>2. \/ \E at \in {"expire", "token"} : GoTo(i, at) /\ UNCHANGED <<copy, landing>>
      \/ Answer(i, [Status(429, "lockout") EXCEPT !.refused = Failures.refused])
  BY DEF CountAttempt
<1>3. ASSUME NEW at \in {"expire", "token"}, GoTo(i, at), UNCHANGED <<copy, landing>> PROVE Good'
  BY <1>1, <1>3, GoingTo
<1>4. CASE Answer(i, [Status(429, "lockout") EXCEPT !.refused = Failures.refused])
  <2> DEFINE base == Status(429, "lockout")
             a == [base EXCEPT !.refused = Failures.refused]
  <2>1. IsReply(base) /\ Own(i, base) /\ base.age <= MaxAge(base) BY StatusOwn DEF Good
  <2> HIDE DEF base
  <2>2. IsReply(a) /\ a.of = base.of /\ a.age = base.age /\ a.why = base.why BY <2>1 DEF IsReply
  <2>3. Own(i, a) /\ a.age <= MaxAge(a) BY <2>1, <2>2 DEF Own, MaxAge
  <2>4. KeptEntry' BY <1>1, Caches DEF KeptEntry, IsKept
  <2>5. Answer(i, a) BY <1>4 DEF base
  <2> HIDE DEF a
  <2> QED BY <1>1, <2>2, <2>3, <2>4, <2>5, Answering
<1> QED BY <1>2, <1>3, <1>4

LEMMA GuardsGood ==
  ASSUME Good, NEW i \in Ids, Guards(i)
  PROVE  Good'
<1>1. CASE AttachTtl(i)
  <2>1. GoTo(i, "token") /\ UNCHANGED <<mix, now, stored, landing, entry, copy>>
    BY <1>1 DEF AttachTtl, cacheVars
  <2> QED BY <2>1, GoingTo
<1>2. CASE CheckToken(i)
  <2>1. UNCHANGED <<mix, now, stored, entry>> BY <1>2 DEF CheckToken
  <2>2. \/ \E at \in {"revoked", "scope"} : GoTo(i, at) /\ UNCHANGED <<copy, landing>>
        \/ \E code, why : Answer(i, Status(code, why))
    BY <1>2 DEF CheckToken, Refuse
  <2> QED BY <2>1, <2>2, GoingTo, Refusing
<1>3. CASE CheckScope(i)
  <2>1. UNCHANGED <<mix, now, stored, entry>> BY <1>3 DEF CheckScope
  <2>2. \/ GoTo(i, "revoked") /\ UNCHANGED <<copy, landing>>
        \/ \E code, why : Answer(i, Status(code, why))
        \/ Pass(i, [req[i] EXCEPT !.known = TRUE]) /\ UNCHANGED <<copy, landing>>
    BY <1>3 DEF CheckScope, Refuse
  <2>3. CASE Pass(i, [req[i] EXCEPT !.known = TRUE]) /\ UNCHANGED <<copy, landing>>
    <3> DEFINE old == [req[i] EXCEPT !.known = TRUE]
    <3>1. IsRequest(old) /\ old.answer = req[i].answer /\ (old.wrapped => Keyed(i))
      BY Known DEF IsRequest
    <3>2. Pass(i, old) BY <2>3
    <3> HIDE DEF old
    <3> QED BY <2>1, <2>3, <3>1, <3>2, Passing
  <2> QED BY <2>1, <2>2, <2>3, GoingTo, Refusing
<1>4. CASE CheckRevoked(i)
  <2>1. UNCHANGED <<mix, now, stored, entry>> BY <1>4 DEF CheckRevoked
  <2>2. \/ GoTo(i, "lookup") /\ UNCHANGED <<copy, landing>>
        \/ \E code, why : Answer(i, Status(code, why))
    BY <1>4 DEF CheckRevoked, Refuse
  <2> QED BY <2>1, <2>2, GoingTo, Refusing
<1>5. CASE LookupKey(i)
  <2>1. UNCHANGED <<mix, now, stored, entry>> BY <1>5 DEF LookupKey
  <2>2. \/ \E code, why : Answer(i, Status(code, why))
        \/ Pass(i, [req[i] EXCEPT !.known = TRUE]) /\ UNCHANGED <<copy, landing>>
    BY <1>5 DEF LookupKey, Refuse
  <2>3. CASE Pass(i, [req[i] EXCEPT !.known = TRUE]) /\ UNCHANGED <<copy, landing>>
    <3> DEFINE old == [req[i] EXCEPT !.known = TRUE]
    <3>1. IsRequest(old) /\ old.answer = req[i].answer /\ (old.wrapped => Keyed(i))
      BY Known DEF IsRequest
    <3>2. Pass(i, old) BY <2>3
    <3> HIDE DEF old
    <3> QED BY <2>1, <2>3, <3>1, <3>2, Passing
  <2> QED BY <2>1, <2>2, <2>3, Refusing
<1> QED BY <1>1, <1>2, <1>3, <1>4, <1>5, CountAttemptGood DEF Guards

LEMMA PurgeKeysGood == ASSUME Good, NEW i \in Ids, PurgeKeys(i) PROVE Good'
<1>1. UNCHANGED <<mix, now, entry>> /\ stored' \subseteq stored BY DEF PurgeKeys, Recent
<1>2. \/ Pass(i, req[i]) /\ UNCHANGED <<copy, landing>>
      \/ Keyed(i) /\ GoTo(i, "select") /\ UNCHANGED <<copy, landing>>
      \/ Answer(i, Status(503, "database"))
  BY DEF PurgeKeys, Unavailable
<1> QED BY <1>1, <1>2, Known, Passing, GoingTo, Refusing

\* The row of the key, of the same body, holds the result of the same call.
LEMMA SelectRowGood == ASSUME Good, NEW i \in Ids, SelectRow(i) PROVE Good'
<1>1. UNCHANGED <<mix, now, entry, stored>> /\ req[i].at = "select" BY DEF SelectRow
<1>2. Keyed(i) BY <1>1, Known
<1>3. KeptEntry' BY <1>1, Caches DEF KeptEntry, IsKept
<1>4. CASE "db" \notin up
  <2>1. Answer(i, Status(503, "database")) BY <1>4 DEF SelectRow, Unavailable
  <2> QED BY <1>1, <2>1, Refusing
<1>5. CASE "db" \in up /\ Rows(Request(i)) = {}
  <2> DEFINE old == [req[i] EXCEPT !.wrapped = TRUE]
  <2>1. Pass(i, old) /\ UNCHANGED <<copy, landing>> BY <1>5 DEF SelectRow
  <2>2. IsRequest(old) /\ old.answer = req[i].answer BY Known DEF IsRequest
  <2> HIDE DEF old
  <2> QED BY <1>1, <1>2, <2>1, <2>2, Passing
<1>6. CASE "db" \in up /\ Rows(Request(i)) # {}
  <2>1. PICK row \in Rows(Request(i)) :
          Answer(i, IF SameBody(row, Request(i))
                    THEN [Status(row.status, "replayed") EXCEPT !.of = row.of]
                    ELSE Status(422, "reused"))
    BY <1>6 DEF SelectRow
  <2>2. CASE ~SameBody(row, Request(i))
    <3>1. Answer(i, Status(422, "reused")) BY <2>1, <2>2
    <3> QED BY <1>1, <3>1, Refusing
  <2>3. CASE SameBody(row, Request(i))
    <3> DEFINE base == Status(row.status, "replayed")
               a == [base EXCEPT !.of = row.of]
    <3>1. IsReply(base) /\ base.age <= MaxAge(base) BY StatusOwn DEF Good
    <3>2. Answer(i, a) BY <2>1, <2>3
    <3> HIDE DEF base
    <3>3. IsReply(a) /\ a.of = row.of /\ a.age = base.age /\ a.why = base.why BY <3>1 DEF IsReply
    <3>4. a.age <= MaxAge(a) BY <3>1, <3>3 DEF MaxAge
    <3>5. row.key = Request(i).key /\ row.route = Request(i).path /\ row.body = Request(i).body
      BY <2>3 DEF Rows, SameBody
    <3>6. Owned(row) BY DEF Good, OwnAnswers, Rows
    <3>7. Own(i, a) BY <1>2, <3>3, <3>5, <3>6 DEF Own, Owned, SameCall
    <3> HIDE DEF a
    <3> QED BY <1>1, <1>3, <3>2, <3>3, <3>4, <3>7, Answering
  <2> QED BY <2>2, <2>3
<1> QED BY <1>4, <1>5, <1>6

\* The handler's answer is of the request it handles.
LEMMA ResultOwn ==
  ASSUME Good, NEW i \in Ids, NEW why
  PROVE  LET a == [Status(200, why) EXCEPT !.of = i]
         IN  IsReply(a) /\ Own(i, a) /\ a.age <= MaxAge(a)
<1> DEFINE base == Status(200, why)
           a == [base EXCEPT !.of = i]
<1>1. IsReply(base) /\ base.age <= MaxAge(base) BY StatusOwn DEF Good
<1> HIDE DEF base
<1>2. IsReply(a) /\ a.of = i /\ a.age = base.age /\ a.why = base.why BY <1>1 DEF IsReply
<1>3. Own(i, a) /\ a.age <= MaxAge(a) BY <1>1, <1>2 DEF Own, MaxAge
<1> QED BY <1>2, <1>3 DEF base

LEMMA WritersGood ==
  ASSUME Good, NEW i \in Ids, RunHandler(i) \/ AnswerHandled(i) \/ Login(i) \/ Refresh(i)
  PROVE  Good'
<1>1. UNCHANGED <<mix, now, entry, stored>> BY DEF RunHandler, AnswerHandled, Login, Refresh
<1>2. KeptEntry' BY <1>1, Caches DEF KeptEntry, IsKept
<1>3. \/ GoTo(i, "ran") /\ UNCHANGED <<copy, landing>>
      \/ \E code, why : Answer(i, Status(code, why))
      \/ \E why : Answer(i, [Status(200, why) EXCEPT !.of = i])
  <2>1. CASE RunHandler(i) BY <2>1 DEF RunHandler, Unavailable
  <2>2. CASE AnswerHandled(i) BY <2>2 DEF AnswerHandled
  <2>3. CASE Login(i) BY <2>3 DEF Login
  <2>4. CASE Refresh(i) BY <2>4 DEF Refresh
  <2> QED BY <2>1, <2>2, <2>3, <2>4
<1>4. ASSUME NEW why, Answer(i, [Status(200, why) EXCEPT !.of = i]) PROVE Good'
  <2> DEFINE a == [Status(200, why) EXCEPT !.of = i]
  <2>1. IsReply(a) /\ Own(i, a) /\ a.age <= MaxAge(a) BY ResultOwn
  <2>2. Answer(i, a) BY <1>4
  <2> HIDE DEF a
  <2> QED BY <1>1, <1>2, <2>1, <2>2, Answering
<1> QED BY <1>1, <1>3, <1>4, GoingTo, Refusing
-----------------------------------------------------------------------------
(* Reads of a vault *)

\* A body of an age the caches allow.
LEMMA ReadOwn ==
  ASSUME Good, NEW i \in Ids, NEW body, body.age \in Nat, NEW why \in {"", "stale"},
         body.age <= (Ttl - 1) + (IF why = "stale" THEN Fresh + StaleTtl - 1 ELSE 0)
  PROVE  LET a == [Read(body) EXCEPT !.why = why]
         IN  IsReply(a) /\ Own(i, a) /\ a.age <= MaxAge(a)
<1> DEFINE a == [Read(body) EXCEPT !.why = why]
<1>1. IsReply(a) /\ a.of = 0 /\ a.age = body.age /\ a.why = why
  BY DEF IsReply, Read, Status, NoAnswer
<1> HIDE DEF a
<1>2. Own(i, a) BY <1>1, NoZero DEF Own, Good
<1>3. a.age <= MaxAge(a) BY <1>1 DEF MaxAge
<1> QED BY <1>1, <1>2, <1>3 DEF a

LEMMA PlainRead ==
  ASSUME Good, NEW i \in Ids, NEW body, body.age \in 0..(Ttl - 1)
  PROVE  IsReply(Read(body)) /\ Own(i, Read(body)) /\ Read(body).age <= MaxAge(Read(body))
<1>1. Read(body).of = 0 /\ Read(body).age = body.age /\ Read(body).why = ""
  BY DEF Read, Status, NoAnswer
<1>2. IsReply(Read(body)) BY <1>1 DEF IsReply, Read, Status, NoAnswer
<1>3. Own(i, Read(body)) BY <1>1, NoZero DEF Own, Good
<1>4. Read(body).age <= MaxAge(Read(body))
  <2>1. Read(body).why # "stale" BY <1>1
  <2>2. MaxAge(Read(body)) = (Ttl - 1) + 0 BY <2>1 DEF MaxAge
  <2>3. body.age <= (Ttl - 1) + 0 BY CacheAssumption
  <2> HIDE DEF Read
  <2> QED BY <1>1, <2>2, <2>3
<1> QED BY <1>2, <1>3, <1>4

\* What lies in a cache has grown older by less than its time to live.
LEMMA BodyAge ==
  ASSUME Good
  PROVE  /\ Cached => Body(entry).age \in 0..(Ttl - 1)
         /\ HasStaleResponse => /\ Body(copy).age \in Nat
                                /\ Body(copy).age <= (Ttl - 1) + (Fresh + StaleTtl - 1)
<1>1. KeptEntry /\ KeptCopy /\ now \in Nat BY Caches
<1>2. Body(entry).age = now - entry.at BY <1>1 DEF KeptEntry, IsKept, Body
<1>3. Body(copy).age = copy.age + (now - copy.at) BY DEF Body
<1>4. ASSUME Cached PROVE Body(entry).age \in 0..(Ttl - 1)
  BY <1>1, <1>2, <1>4, CacheAssumption DEF Cached, KeptEntry, IsKept
<1>5. ASSUME HasStaleResponse
      PROVE  Body(copy).age \in Nat /\ Body(copy).age <= (Ttl - 1) + (Fresh + StaleTtl - 1)
  BY <1>1, <1>3, <1>5, CacheAssumption DEF HasStaleResponse, KeptCopy, IsKept
<1> QED BY <1>4, <1>5

LEMMA GetVaultGood == ASSUME Good, NEW i \in Ids, GetVault(i) PROVE Good'
<1>1. UNCHANGED <<mix, now, entry, stored>> BY DEF GetVault
<1>2. KeptEntry' BY <1>1, Caches DEF KeptEntry, IsKept
<1>3. CASE Cached
  <2>1. Answer(i, Read(Body(entry))) BY <1>3 DEF GetVault
  <2>2. Body(entry).age \in 0..(Ttl - 1) BY <1>3, BodyAge
  <2> QED BY <1>1, <1>2, <2>1, <2>2, PlainRead, Answering
<1>4. CASE ~Cached
  <2>1. GoTo(i, "query") /\ UNCHANGED <<copy, landing>> BY <1>4 DEF GetVault
  <2> QED BY <1>1, <2>1, GoingTo
<1> QED BY <1>3, <1>4

LEMMA QueryVaultGood == ASSUME Good, NEW i \in Ids, QueryVault(i) PROVE Good'
<1>1. UNCHANGED <<mix, now, entry, stored>> BY DEF QueryVault
<1>2. KeptEntry' BY <1>1, Caches DEF KeptEntry, IsKept
<1>3. CASE "db" \in up
  <2> DEFINE body == [version |-> version, age |-> 0]
             r == [req[i] EXCEPT !.at = "fill", !.body = body]
  <2>1. req' = [req EXCEPT ![i].at = "fill", ![i].body = body] /\ UNCHANGED <<copy, landing>>
    BY <1>3 DEF QueryVault
  <2>2. body.age = 0 OBVIOUS
  <2> HIDE DEF body
  <2>3. req' = [req EXCEPT ![i] = r] BY <2>1, Known
  <2>4. IsRequest(r) /\ r.answer = req[i].answer /\ (r.wrapped \/ r.at = "select" => Keyed(i))
    BY <2>2, Known DEF IsRequest
  <2> HIDE DEF r
  <2> QED BY <1>1, <2>1, <2>3, <2>4, GoingOn
<1>4. CASE "db" \notin up /\ HasStaleResponse /\ ~req[i].known
  <2> DEFINE a == [Read(Body(copy)) EXCEPT !.why = "stale"]
  <2>1. Answer(i, a) BY <1>4 DEF QueryVault, SendStaleResponse
  <2>2. IsReply(a) /\ Own(i, a) /\ a.age <= MaxAge(a) BY <1>4, BodyAge, ReadOwn
  <2> HIDE DEF a
  <2> QED BY <1>1, <1>2, <2>1, <2>2, Answering
<1>5. CASE "db" \notin up /\ ~(HasStaleResponse /\ ~req[i].known)
  <2>1. Answer(i, Status(503, "database")) BY <1>5 DEF QueryVault, Unavailable
  <2> QED BY <1>1, <2>1, Refusing
<1> QED BY <1>3, <1>4, <1>5

LEMMA FillCacheGood == ASSUME Good, NEW i \in Ids, FillCache(i) PROVE Good'
<1>1. UNCHANGED <<mix, now, stored>> /\ CacheSet(req[i].body) /\ Answer(i, Read(req[i].body))
  BY DEF FillCache
<1>2. req[i].body.age = 0 BY Known DEF IsRequest
<1>3. req[i].body.age \in 0..(Ttl - 1) BY <1>2, CacheAssumption
<1>4. KeptEntry /\ now \in Nat BY Caches
<1>5. KeptEntry'
  <2>1. CASE entry' = entry BY <1>1, <1>4, <2>1 DEF KeptEntry, IsKept
  <2>2. CASE entry' = Keep(req[i].body, Ttl)
    <3>1. entry'.age = 0 /\ entry'.at = now /\ entry'.until = now + Ttl BY <1>2, <2>2 DEF Keep
    <3> QED BY <1>1, <1>4, <3>1, CacheAssumption DEF KeptEntry, IsKept
  <2> QED BY <1>1, <2>1, <2>2 DEF CacheSet
<1> QED BY <1>1, <1>3, <1>5, PlainRead, Answering
-----------------------------------------------------------------------------
(* Around the requests *)

LEMMA InsertsGood ==
  ASSUME Good, NEW row \in landing, InsertLands(row) \/ InsertFails(row)
  PROVE  Good'
<1>1. UNCHANGED <<mix, now, entry, copy, req>> BY DEF InsertLands, InsertFails, cacheVars
<1>2. KeptEntry' /\ KeptCopy' BY <1>1, CachesStay
<1>3. IsRow(row) /\ Owned(row) /\ now \in Nat BY DEF Good, Shaped, OwnAnswers
<1> DEFINE new == [row EXCEPT !.at = now]
<1>4. IsRow(new) /\ Owned(new) BY <1>3 DEF IsRow, Owned
<1>5. stored' \cup landing' \subseteq stored \cup landing \cup {new}
  BY DEF InsertLands, InsertFails
<1> HIDE DEF new
<1> QED BY <1>1, <1>2, <1>3, <1>4, <1>5, NoneChanges

LEMMA AroundGood ==
  ASSUME Good, Indexed \/ Services \/ Operators \/ Tick \/ Lag \/ UNCHANGED vars
  PROVE  Good'
<1>1. UNCHANGED <<mix, req, stored, landing, copy>>
  BY DEF Indexed, InvalidateVault, CommitVault, Services, ServiceFails, ServiceReturns, Operators,
         DeactivateInactiveApiKeys, DeleteApiKey, ActivateKey, Tick, Lag, gateVars, cacheVars, vars
<1>2. now' = now \/ now' = now + 1
  BY DEF Indexed, InvalidateVault, CommitVault, Services, ServiceFails, ServiceReturns, Operators,
         DeactivateInactiveApiKeys, DeleteApiKey, ActivateKey, Tick, Lag, gateVars, cacheVars, vars
<1>3. entry' = entry \/ entry' = Empty
  BY DEF Indexed, InvalidateVault, CommitVault, CacheDel, Services, ServiceFails, ServiceReturns,
         Operators, DeactivateInactiveApiKeys, DeleteApiKey, ActivateKey, Tick, Lag, gateVars,
         cacheVars, vars
<1>4. now \in Nat /\ KeptEntry /\ KeptCopy BY Caches
<1>5. now' \in Nat BY <1>2, <1>4
<1>6. KeptEntry'
  <2>1. CASE entry' = entry BY <1>2, <1>4, <2>1 DEF KeptEntry, IsKept
  <2>2. CASE entry' = Empty BY <1>5, <2>2, CacheAssumption DEF KeptEntry, IsKept, Empty
  <2> QED BY <1>3, <2>1, <2>2
<1>7. KeptCopy' BY <1>1, <1>2, <1>4 DEF KeptCopy, IsKept
<1> QED BY <1>1, <1>5, <1>6, <1>7, NoneChanges

\* A restart closes what was open.
LEMMA CrashGood == ASSUME Good, Crash PROVE Good'
<1> DEFINE Closed(i) == [req[i] EXCEPT !.at = "done", !.wrapped = FALSE,
                                       !.answer = IF Sent(i) THEN @ ELSE Status(0, "closed")]
<1>1. /\ req' = [i \in Ids |-> IF req[i].at \in {"new", "done"} THEN req[i] ELSE Closed(i)]
      /\ landing' = {} /\ copy' = Empty /\ UNCHANGED <<mix, now, entry, stored>>
  BY DEF Crash
<1>2. Ids' = Ids BY <1>1 DEF Ids
<1>3. ASSUME NEW i \in Ids
      PROVE  /\ IsRequest(req'[i]) /\ Own(i, req'[i].answer)
             /\ req'[i].wrapped \/ req'[i].at = "select" => Keyed(i)
             /\ req'[i].answer.age <= MaxAge(req'[i].answer)
  <2>1. /\ IsRequest(req[i]) /\ Own(i, req[i].answer) /\ req[i].answer.age <= MaxAge(req[i].answer)
        /\ req[i].wrapped \/ req[i].at = "select" => Keyed(i)
    BY Caches
  <2>2. CASE req[i].at \in {"new", "done"} BY <1>1, <2>1, <2>2
  <2>3. CASE req[i].at \notin {"new", "done"}
    <3> DEFINE answer == IF Sent(i) THEN req[i].answer ELSE Status(0, "closed")
               r == [req[i] EXCEPT !.at = "done", !.wrapped = FALSE, !.answer = answer]
    <3>1. IsReply(answer) /\ Own(i, answer) /\ answer.age <= MaxAge(answer)
      BY <2>1, StatusOwn DEF Good, IsRequest
    <3>2. req'[i] = r BY <1>1, <2>3
    <3> HIDE DEF answer
    <3>3. IsRequest(r) /\ r.answer = answer /\ ~r.wrapped /\ r.at = "done"
      BY <2>1, <3>1 DEF IsRequest
    <3> HIDE DEF r
    <3> QED BY <3>1, <3>2, <3>3
  <2> QED BY <2>2, <2>3
<1>4. KeptEntry' BY <1>1, Caches DEF KeptEntry, IsKept
<1>5. KeptCopy'
  <2>1. copy'.age = 0 /\ copy'.at = 0 /\ copy'.until = 0 BY <1>1 DEF Empty
  <2>2. now' \in Nat BY <1>1, Caches
  <2>3. IsKept(copy)' BY <2>1, <2>2 DEF IsKept
  <2>4. copy'.age <= Ttl - 1 /\ copy'.until <= copy'.at + Fresh + StaleTtl
    BY <2>1, CacheAssumption
  <2> QED BY <2>3, <2>4 DEF KeptCopy
<1>6. \A row \in stored : IsRow(row) /\ Owned(row) BY Caches
<1>7. \A k : Keyed(k)' <=> Keyed(k) BY <1>1 DEF Keyed, Request
<1>8. \A k, a : Own(k, a)' <=> Own(k, a) BY <1>1 DEF Own, SameCall, Keyed, Request, Ids
<1>9. \A row : Owned(row)' <=> Owned(row) BY <1>1 DEF Owned, Keyed, Request, Ids
<1>10. mix' \in Mixes /\ now' \in Nat BY <1>1, Caches
<1>11. req' = [i \in Ids' |-> req'[i]] BY <1>1, <1>2
<1> HIDE DEF Closed
<1>12. Shaped' BY <1>1, <1>2, <1>3, <1>4, <1>5, <1>6, <1>10, <1>11 DEF Shaped, KeptEntry, KeptCopy
<1>13. OwnAnswers'
  <2>1. \A row \in stored' \cup landing' : Owned(row)' BY <1>1, <1>6, <1>9
  <2>2. \A k \in Ids' : /\ req'[k].wrapped \/ req'[k].at = "select" => Keyed(k)'
                        /\ Own(k, req[k].answer)'
    BY <1>2, <1>3, <1>7, <1>8
  <2> QED BY <2>1, <2>2 DEF OwnAnswers
<1>14. Young' BY <1>2, <1>3, <1>4, <1>5 DEF Young, KeptEntry, KeptCopy, MaxAge
<1> QED BY <1>12, <1>13, <1>14 DEF Good

LEMMA GoodAlways == Spec => []Good
<1>1. Good /\ [Next]_vars => Good'
  <2> SUFFICES ASSUME Good, [Next]_vars PROVE Good' OBVIOUS
  <2>1. ASSUME NEW i \in Ids, Handlers(i) PROVE Good'
    BY <2>1, WritersGood, GetVaultGood, QueryVaultGood, FillCacheGood DEF Handlers
  <2>2. ASSUME NEW i \in Ids,
               Shed(i) \/ Admit(i) \/ Timeout(i) \/ Guards(i) \/ PurgeKeys(i) \/ SelectRow(i)
        PROVE  Good'
    BY <2>2, AdmissionGood, GuardsGood, PurgeKeysGood, SelectRowGood
  <2> QED BY <2>1, <2>2, InsertsGood, AroundGood, CrashGood DEF Next
<1> QED BY <1>1, InitGood, PTL DEF Spec

\* No request is given the result of another, unless both carry one idempotency
\* key to one route with one body (idempotency): not when the timer answers
\* first, when inserts land late, rows are purged or the process restarts.
THEOREM ReplaysStayOwn == Spec => []ReplaysAreOwnAnswers
<1>1. Good => ReplaysAreOwnAnswers BY DEF Good, OwnAnswers, Own, ReplaysAreOwnAnswers
<1> QED BY <1>1, GoodAlways, PTL

\* An answer about a vault is at most as old as one time to live in Redis, and a
\* stale one than that and one stay of a copy (getVault, sendStaleResponse).
THEOREM AnswersStayRecent == Spec => []AnswersRecent
<1>1. Good => AnswersRecent BY DEF Good, Young, MaxAge, AnswersRecent
<1> QED BY <1>1, GoodAlways, PTL
-----------------------------------------------------------------------------
(* Who blames the key *)

Blame == {"revoked", "key", "outage"}
\* No request is told anything about its key by the step.
Discreet == \A j \in Ids : ~Sent(j) => req'[j].answer.why \notin Blame

LEMMA Unsent == ASSUME NEW j, ~Sent(j) PROVE req[j].answer.why \notin Blame
<1>1. NoAnswer.why = "" BY DEF NoAnswer
<1>2. req[j].answer = NoAnswer BY DEF Sent
<1> QED BY <1>1, <1>2 DEF Blame

LEMMA Unanswered ==
  ASSUME Good, \A j \in Ids : req'[j].answer = req[j].answer
  PROVE  Discreet
BY Unsent DEF Discreet

LEMMA DiscreetAnswer ==
  ASSUME Good, NEW i \in Ids, NEW a, Answer(i, a), a.why \notin Blame
  PROVE  Discreet
<1>1. req' = [req EXCEPT ![i].at = "done", ![i].wrapped = FALSE,
                         ![i].answer = IF Sent(i) THEN @ ELSE a]
  BY DEF Answer
<1>2. \A j \in Ids : j # i => req'[j].answer = req[j].answer BY <1>1, Known
<1>3. ~Sent(i) => req'[i].answer = a BY <1>1, Known DEF IsRequest
<1>4. \A j \in Ids : ~Sent(j) => req[j].answer.why \notin Blame BY Unsent
<1> QED BY <1>2, <1>3, <1>4 DEF Discreet

LEMMA DiscreetStatus ==
  ASSUME Good, NEW i \in Ids, NEW code, NEW why, Answer(i, Status(code, why)), why \notin Blame
  PROVE  Discreet
<1>1. Status(code, why).why = why BY DEF Status, NoAnswer
<1> QED BY <1>1, DiscreetAnswer

LEMMA DiscreetGo ==
  ASSUME Good, NEW i \in Ids, NEW at, GoTo(i, at)
  PROVE  Discreet
<1>1. req' = [req EXCEPT ![i].at = at] BY DEF GoTo
<1>2. \A j \in Ids : req'[j].answer = req[j].answer BY <1>1, Known DEF IsRequest
<1> QED BY <1>2, Unanswered

LEMMA DiscreetPass ==
  ASSUME Good, NEW i \in Ids, NEW old, Pass(i, old), IsRequest(old), old.answer = req[i].answer
  PROVE  Discreet
<1> DEFINE left == Tail(old.left)
           at == At(Head(Tail(old.left)))
           r == [old EXCEPT !.left = left, !.at = at]
<1>1. req' = [req EXCEPT ![i] = r] BY DEF Pass
<1> HIDE DEF at, left
<1>2. r.answer = req[i].answer BY DEF IsRequest
<1> HIDE DEF r
<1>3. \A j \in Ids : req'[j].answer = req[j].answer BY <1>1, <1>2, Known
<1> QED BY <1>3, Unanswered

LEMMA DiscreetAdmission ==
  ASSUME Good, NEW i \in Ids, Shed(i) \/ Admit(i) \/ Timeout(i)
  PROVE  Discreet
<1>1. CASE Shed(i)
  <2>1. Answer(i, Status(503, "overloaded")) BY <1>1 DEF Shed
  <2> QED BY <2>1, DiscreetStatus DEF Blame
<1>2. CASE Admit(i)
  <2>1. CASE Answer(i, Status(429, "rate")) BY <2>1, DiscreetStatus DEF Blame
  <2>2. CASE ~Answer(i, Status(429, "rate"))
    <3> DEFINE left == Stations(Request(i))
               at == At(Head(left))
    <3>1. req' = [req EXCEPT ![i].left = left, ![i].at = at] BY <1>2, <2>2 DEF Admit
    <3> HIDE DEF at, left
    <3>2. \A j \in Ids : req'[j].answer = req[j].answer BY <3>1, Known DEF IsRequest
    <3> QED BY <3>2, Unanswered
  <2> QED BY <2>1, <2>2
<1>3. CASE Timeout(i)
  <2> DEFINE answer == Status(503, "timeout")
  <2>1. req' = [req EXCEPT ![i].wrapped = FALSE, ![i].answer = answer] BY <1>3 DEF Timeout
  <2>2. answer.why = "timeout" BY DEF Status, NoAnswer
  <2> HIDE DEF answer
  <2>3. \A j \in Ids : j # i => req'[j].answer = req[j].answer BY <2>1, Known
  <2>4. req'[i].answer = answer BY <2>1, Known DEF IsRequest
  <2>5. \A j \in Ids : ~Sent(j) => req[j].answer.why \notin Blame BY Unsent
  <2> QED BY <2>2, <2>3, <2>4, <2>5 DEF Discreet, Blame
<1> QED BY <1>1, <1>2, <1>3

LEMMA DiscreetGuards ==
  ASSUME Good, NEW i \in Ids,
         CountAttempt(i) \/ AttachTtl(i) \/ CheckToken(i) \/ CheckScope(i)
  PROVE  Discreet
<1>1. CASE CountAttempt(i)
  <2>1. \/ \E at : GoTo(i, at)
        \/ Answer(i, [Status(429, "lockout") EXCEPT !.refused = Failures.refused])
    BY <1>1 DEF CountAttempt
  <2>2. [Status(429, "lockout") EXCEPT !.refused = Failures.refused].why = "lockout"
    BY DEF Status, NoAnswer
  <2> QED BY <2>1, <2>2, DiscreetGo, DiscreetAnswer DEF Blame
<1>2. CASE AttachTtl(i) BY <1>2, DiscreetGo DEF AttachTtl
<1>3. CASE CheckToken(i)
  <2>1. \/ \E at : GoTo(i, at)
        \/ Answer(i, Status(401, "missing")) \/ Answer(i, Status(401, "expired"))
        \/ Answer(i, Status(403, "permissions"))
    BY <1>3 DEF CheckToken, Refuse
  <2> QED BY <2>1, DiscreetGo, DiscreetStatus DEF Blame
<1>4. CASE CheckScope(i)
  <2> DEFINE old == [req[i] EXCEPT !.known = TRUE]
  <2>1. GoTo(i, "revoked") \/ Answer(i, Status(403, "scope")) \/ Pass(i, old)
    BY <1>4 DEF CheckScope, Refuse
  <2>2. IsRequest(old) /\ old.answer = req[i].answer BY Known DEF IsRequest
  <2> HIDE DEF old
  <2> QED BY <2>1, <2>2, DiscreetGo, DiscreetStatus, DiscreetPass DEF Blame
<1> QED BY <1>1, <1>2, <1>3, <1>4

LEMMA DiscreetIdempotency ==
  ASSUME Good, NEW i \in Ids, PurgeKeys(i) \/ SelectRow(i)
  PROVE  Discreet
<1>1. CASE PurgeKeys(i)
  <2>1. \/ Pass(i, req[i]) \/ GoTo(i, "select") \/ Answer(i, Status(503, "database"))
    BY <1>1 DEF PurgeKeys, Unavailable
  <2> QED BY <2>1, Known, DiscreetGo, DiscreetStatus, DiscreetPass DEF Blame
<1>2. CASE SelectRow(i)
  <2>1. CASE "db" \notin up
    <3>1. Answer(i, Status(503, "database")) BY <1>2, <2>1 DEF SelectRow, Unavailable
    <3> QED BY <3>1, DiscreetStatus DEF Blame
  <2>2. CASE "db" \in up /\ Rows(Request(i)) = {}
    <3> DEFINE old == [req[i] EXCEPT !.wrapped = TRUE]
    <3>1. Pass(i, old) BY <1>2, <2>2 DEF SelectRow
    <3>2. IsRequest(old) /\ old.answer = req[i].answer BY Known DEF IsRequest
    <3> HIDE DEF old
    <3> QED BY <3>1, <3>2, DiscreetPass
  <2>3. CASE "db" \in up /\ Rows(Request(i)) # {}
    <3>1. PICK row \in Rows(Request(i)) :
            Answer(i, IF SameBody(row, Request(i))
                      THEN [Status(row.status, "replayed") EXCEPT !.of = row.of]
                      ELSE Status(422, "reused"))
      BY <1>2, <2>3 DEF SelectRow
    <3>2. [Status(row.status, "replayed") EXCEPT !.of = row.of].why = "replayed"
      BY DEF Status, NoAnswer
    <3>3. CASE SameBody(row, Request(i))
      <4>1. Answer(i, [Status(row.status, "replayed") EXCEPT !.of = row.of]) BY <3>1, <3>3
      <4> QED BY <3>2, <4>1, DiscreetAnswer DEF Blame
    <3>4. CASE ~SameBody(row, Request(i))
      <4>1. Answer(i, Status(422, "reused")) BY <3>1, <3>4
      <4> QED BY <4>1, DiscreetStatus DEF Blame
    <3> QED BY <3>3, <3>4
  <2> QED BY <2>1, <2>2, <2>3
<1> QED BY <1>1, <1>2

LEMMA DiscreetWriters ==
  ASSUME Good, NEW i \in Ids, RunHandler(i) \/ AnswerHandled(i) \/ Login(i) \/ Refresh(i)
  PROVE  Discreet
<1>1. ASSUME NEW why, Answer(i, [Status(200, why) EXCEPT !.of = i]), why \notin Blame
      PROVE  Discreet
  <2> DEFINE a == [Status(200, why) EXCEPT !.of = i]
  <2>1. a.why = why BY DEF Status, NoAnswer
  <2>2. Answer(i, a) BY <1>1
  <2> HIDE DEF a
  <2> QED BY <1>1, <2>1, <2>2, DiscreetAnswer
<1>2. CASE RunHandler(i)
  <2>1. GoTo(i, "ran") \/ Answer(i, Status(503, "database"))
    BY <1>2 DEF RunHandler, Unavailable
  <2> QED BY <2>1, DiscreetGo, DiscreetStatus DEF Blame
<1>3. CASE AnswerHandled(i)
  <2> DEFINE a == [Status(200, "") EXCEPT !.of = i]
  <2>1. Answer(i, a) BY <1>3 DEF AnswerHandled
  <2>2. a.why = "" BY DEF Status, NoAnswer
  <2> HIDE DEF a
  <2> QED BY <2>1, <2>2, DiscreetAnswer DEF Blame
<1>4. CASE Login(i)
  <2>1. \/ Answer(i, Status(401, "login")) \/ Answer(i, Status(403, "login"))
        \/ Answer(i, [Status(200, "session") EXCEPT !.of = i])
    BY <1>4 DEF Login
  <2> QED BY <1>1, <2>1, DiscreetStatus DEF Blame
<1>5. CASE Refresh(i)
  <2>1. \/ Answer(i, Status(401, "refresh"))
        \/ Answer(i, [Status(200, "session") EXCEPT !.of = i])
    BY <1>5 DEF Refresh
  <2> QED BY <1>1, <2>1, DiscreetStatus DEF Blame
<1> QED BY <1>2, <1>3, <1>4, <1>5

LEMMA DiscreetReads ==
  ASSUME Good, NEW i \in Ids, GetVault(i) \/ QueryVault(i) \/ FillCache(i)
  PROVE  Discreet
<1>1. \A body : /\ Read(body).why = ""
                /\ [Read(body) EXCEPT !.why = "stale"].why = "stale"
  BY DEF Read, Status, NoAnswer
<1>2. CASE GetVault(i)
  <2>1. GoTo(i, "query") \/ Answer(i, Read(Body(entry))) BY <1>2 DEF GetVault
  <2> QED BY <1>1, <2>1, DiscreetGo, DiscreetAnswer DEF Blame
<1>3. CASE QueryVault(i)
  <2>1. CASE "db" \in up
    <3> DEFINE body == [version |-> version, age |-> 0]
    <3>1. req' = [req EXCEPT ![i].at = "fill", ![i].body = body] BY <1>3, <2>1 DEF QueryVault
    <3> HIDE DEF body
    <3>2. \A j \in Ids : req'[j].answer = req[j].answer BY <3>1, Known DEF IsRequest
    <3> QED BY <3>2, Unanswered
  <2>2. CASE "db" \notin up
    <3> DEFINE a == [Read(Body(copy)) EXCEPT !.why = "stale"]
    <3>1. Answer(i, a) \/ Answer(i, Status(503, "database"))
      BY <1>3, <2>2 DEF QueryVault, SendStaleResponse, Unavailable
    <3>2. a.why = "stale" BY <1>1
    <3> HIDE DEF a
    <3> QED BY <3>1, <3>2, DiscreetAnswer, DiscreetStatus DEF Blame
  <2> QED BY <2>1, <2>2
<1>4. CASE FillCache(i)
  <2>1. Answer(i, Read(req[i].body)) BY <1>4 DEF FillCache
  <2> QED BY <1>1, <2>1, DiscreetAnswer DEF Blame
<1> QED BY <1>2, <1>3, <1>4

LEMMA DiscreetAround ==
  ASSUME Good, \/ \E row \in landing : InsertLands(row) \/ InsertFails(row)
               \/ Indexed \/ Services \/ Operators \/ Tick \/ Lag \/ UNCHANGED vars
  PROVE  Discreet
<1>1. req' = req
  BY DEF InsertLands, InsertFails, Indexed, InvalidateVault, CommitVault, Services, ServiceFails,
         ServiceReturns, Operators, DeactivateInactiveApiKeys, DeleteApiKey, ActivateKey, Tick, Lag,
         gateVars, vars
<1> QED BY <1>1, Unanswered

LEMMA DiscreetCrash == ASSUME Good, Crash PROVE Discreet
<1>1. ASSUME NEW j \in Ids, ~Sent(j) PROVE req'[j].answer.why \notin Blame
  <2>1. req'[j] = IF req[j].at \in {"new", "done"} THEN req[j]
                  ELSE [req[j] EXCEPT !.at = "done", !.wrapped = FALSE,
                                      !.answer = IF Sent(j) THEN @ ELSE Status(0, "closed")]
    BY DEF Crash
  <2>2. CASE req[j].at \in {"new", "done"} BY <1>1, <2>1, <2>2, Unsent
  <2>3. CASE req[j].at \notin {"new", "done"}
    <3> DEFINE closed == Status(0, "closed")
    <3>1. closed.why = "closed" BY DEF Status, NoAnswer
    <3>2. req'[j] = [req[j] EXCEPT !.at = "done", !.wrapped = FALSE, !.answer = closed]
      BY <1>1, <2>1, <2>3
    <3> HIDE DEF closed
    <3>3. req'[j].answer = closed BY <3>2, Known DEF IsRequest
    <3> QED BY <3>1, <3>3 DEF Blame
  <2> QED BY <2>2, <2>3
<1> QED BY <1>1 DEF Discreet

\* Only the look at the negative results and the look at the table blame a key.
LEMMA WhoBlames ==
  ASSUME Good, [Next]_vars
  PROVE  Discreet \/ \E i \in Ids : CheckRevoked(i) \/ LookupKey(i)
<1>1. ASSUME NEW i \in Ids, Handlers(i) PROVE Discreet
  BY <1>1, DiscreetWriters, DiscreetReads DEF Handlers
<1>2. ASSUME NEW i \in Ids, Guards(i) PROVE Discreet \/ CheckRevoked(i) \/ LookupKey(i)
  BY <1>2, DiscreetGuards DEF Guards
<1>3. ASSUME NEW i \in Ids, Shed(i) \/ Admit(i) \/ Timeout(i) \/ PurgeKeys(i) \/ SelectRow(i)
      PROVE  Discreet
  BY <1>3, DiscreetAdmission, DiscreetIdempotency
<1> QED BY <1>1, <1>2, <1>3, DiscreetAround, DiscreetCrash DEF Next
-----------------------------------------------------------------------------
(* How long a key has been dead *)

LEMMA InitDead == Init => Dead
<1> SUFFICES ASSUME Init PROVE Dead OBVIOUS
<1>1. now = 0 /\ mix \in Mixes /\ keys = mix.keys /\ revoked = [t \in ApiKeys |-> 0]
  BY DEF Init, CacheInit
<1>2. keys \in [ApiKeys -> Records] BY <1>1, MixAssumption DEF Records
<1>3. \A k \in ApiKeys : /\ keys[k].deadAt <= 0
                         /\ ~(keys[k].known /\ keys[k].active) => keys[k].deadAt = 0
  BY <1>1, MixAssumption
<1>4. revoked \in [ApiKeys -> Nat] /\ \A k \in ApiKeys : revoked[k] = 0 BY <1>1
<1> QED BY <1>1, <1>2, <1>3, <1>4 DEF Dead

\* Keys and negative results stay, and so does the time.
LEMMA DeadStays == ASSUME Dead, UNCHANGED <<keys, revoked, now>> PROVE Dead'
BY DEF Dead

LEMMA DeadLookup ==
  ASSUME Good, Dead, NEW i \in Ids, LookupKey(i)
  PROVE  Dead'
<1> DEFINE k == Request(i).id
<1>1. k \in ApiKeys BY MixAssumption DEF Good, Shaped, Ids, Request
<1>2. now' = now /\ now \in Nat BY DEF LookupKey, Good, Shaped
<1>3. keys' = keys \/ keys' = [keys EXCEPT ![k].used = now] BY DEF LookupKey
<1>4. revoked' = revoked \/ ((keys[k].salted \/ ~(keys[k].known /\ keys[k].active))
                             /\ revoked' = [revoked EXCEPT ![k] = now + RevokedTtl])
  BY DEF LookupKey, LookupApiKeyByPlaintext, RevokedUntil, Selected
<1> HIDE DEF k
<1>5. /\ keys' \in [ApiKeys -> Records]
      /\ \A x \in ApiKeys : /\ keys'[x].known = keys[x].known /\ keys'[x].active = keys[x].active
                            /\ keys'[x].deadAt = keys[x].deadAt
                            /\ keys'[x].salted = keys[x].salted
  BY <1>1, <1>2, <1>3 DEF Dead, Records
<1>6. revoked' \in [ApiKeys -> Nat] BY <1>1, <1>2, <1>4, GatewayAssumption DEF Dead
<1>7. \A x \in ApiKeys : \/ keys'[x].salted \/ revoked'[x] = 0
                         \/ revoked'[x] <= keys'[x].deadAt + RevokedTtl
  <2>1. CASE revoked' = revoked BY <1>5, <2>1 DEF Dead
  <2>2. CASE revoked' # revoked
    <3>1. /\ keys[k].salted \/ keys[k].deadAt = now
          /\ revoked' = [revoked EXCEPT ![k] = now + RevokedTtl]
      BY <1>1, <1>4, <2>2 DEF Dead
    <3> QED BY <1>1, <1>2, <1>5, <3>1, GatewayAssumption DEF Dead
  <2> QED BY <2>1, <2>2
<1> QED BY <1>2, <1>5, <1>6, <1>7 DEF Dead

LEMMA RecordsChange ==
  ASSUME NEW r \in Records, NEW known \in BOOLEAN, NEW active \in BOOLEAN, NEW t \in Int
  PROVE  LET deleted == [r EXCEPT !.known = known, !.deadAt = t]
             swept == [r EXCEPT !.active = active, !.deadAt = t]
             issued == [r EXCEPT !.known = known, !.active = active, !.used = t, !.deadAt = t]
         IN  /\ deleted \in Records /\ deleted.deadAt = t /\ deleted.salted = r.salted
             /\ swept \in Records /\ swept.deadAt = t /\ swept.salted = r.salted
             /\ issued \in Records /\ issued.deadAt = t /\ issued.salted = r.salted
BY DEF Records

\* A key changes that may have been dead until now.
LEMMA DeadChanges ==
  ASSUME Good, Dead, NEW k \in ApiKeys, NEW new \in Records, keys' = [keys EXCEPT ![k] = new],
         new.deadAt = now, new.salted = keys[k].salted, UNCHANGED <<revoked, now>>
  PROVE  Dead'
<1>1. now \in Nat BY DEF Good, Shaped
<1>2. keys' \in [ApiKeys -> Records] BY DEF Dead
<1>3. \A x \in ApiKeys : IF x = k THEN keys'[x].deadAt = now /\ keys'[x].salted = keys[x].salted
                         ELSE keys'[x] = keys[x]
  BY DEF Dead
<1>4. keys[k].deadAt <= now /\ keys[k].deadAt \in Int BY DEF Dead, Records
<1>5. keys[k].salted \/ revoked[k] = 0 \/ revoked[k] <= now + RevokedTtl
  BY <1>1, <1>4, GatewayAssumption DEF Dead
<1> QED BY <1>1, <1>2, <1>3, <1>5, GatewayAssumption DEF Dead

LEMMA DeadOperators == ASSUME Good, Dead, Operators PROVE Dead'
<1>1. UNCHANGED <<revoked, now>> /\ now \in Nat
  BY DEF Operators, DeactivateInactiveApiKeys, DeleteApiKey, ActivateKey, Good, Shaped
<1>2. CASE DeactivateInactiveApiKeys
  <2>1. keys' = [x \in ApiKeys |-> IF Idle(x) THEN [keys[x] EXCEPT !.active = FALSE, !.deadAt = now]
                                   ELSE keys[x]]
    BY <1>2 DEF DeactivateInactiveApiKeys
  <2>2. ASSUME NEW x \in ApiKeys
        PROVE  /\ keys'[x].deadAt = now \/ keys'[x] = keys[x]
               /\ keys'[x] \in Records /\ keys'[x].salted = keys[x].salted
    <3>1. keys[x] \in Records /\ now \in Int BY <1>1 DEF Dead
    <3> DEFINE swept == [keys[x] EXCEPT !.active = FALSE, !.deadAt = now]
    <3>2. swept \in Records /\ swept.deadAt = now /\ swept.salted = keys[x].salted
      BY <3>1, RecordsChange
    <3>3. keys'[x] = IF Idle(x) THEN swept ELSE keys[x] BY <2>1
    <3> HIDE DEF swept
    <3> QED BY <3>1, <3>2, <3>3
  <2>3. ASSUME NEW x \in ApiKeys
        PROVE  /\ keys'[x].deadAt <= now
               /\ ~(keys'[x].known /\ keys'[x].active) => keys'[x].deadAt = now
               /\ keys'[x].salted \/ revoked[x] = 0 \/ revoked[x] <= keys'[x].deadAt + RevokedTtl
    <3>1. /\ keys[x].deadAt <= now /\ keys[x].deadAt \in Int /\ revoked[x] \in Nat
          /\ ~(keys[x].known /\ keys[x].active) => keys[x].deadAt = now
          /\ keys[x].salted \/ revoked[x] = 0 \/ revoked[x] <= keys[x].deadAt + RevokedTtl
      BY DEF Dead, Records
    <3>2. CASE keys'[x] = keys[x] BY <3>1, <3>2
    <3>3. CASE keys'[x].deadAt = now BY <1>1, <2>2, <3>1, <3>3, GatewayAssumption
    <3> QED BY <2>2, <3>2, <3>3
  <2>4. keys' \in [ApiKeys -> Records] BY <2>1, <2>2
  <2> QED BY <1>1, <2>3, <2>4 DEF Dead
<1>3. ASSUME NEW k \in ApiKeys, DeleteApiKey(k) PROVE Dead'
  <2> DEFINE new == [keys[k] EXCEPT !.known = FALSE, !.deadAt = now]
  <2>1. keys' = [keys EXCEPT ![k] = new] BY <1>3 DEF DeleteApiKey, Dead
  <2>2. keys[k] \in Records /\ now \in Int BY <1>1 DEF Dead
  <2>3. new \in Records /\ new.deadAt = now /\ new.salted = keys[k].salted
    BY <2>2, RecordsChange
  <2> HIDE DEF new
  <2> QED BY <1>1, <2>1, <2>3, DeadChanges
<1>4. ASSUME NEW k \in ApiKeys, ActivateKey(k) PROVE Dead'
  <2> DEFINE new == [keys[k] EXCEPT !.known = TRUE, !.active = TRUE, !.used = now, !.deadAt = now]
  <2>1. keys' = [keys EXCEPT ![k] = new] BY <1>4 DEF ActivateKey, Dead
  <2>2. keys[k] \in Records /\ now \in Int BY <1>1 DEF Dead
  <2>3. new \in Records /\ new.deadAt = now /\ new.salted = keys[k].salted
    BY <2>2, RecordsChange
  <2> HIDE DEF new
  <2> QED BY <1>1, <2>1, <2>3, DeadChanges
<1> QED BY <1>2, <1>3, <1>4 DEF Operators

LEMMA DeadTick == ASSUME Good, Dead, Tick PROVE Dead'
<1>1. now' = now + 1 /\ now \in Nat /\ revoked' = revoked BY DEF Tick, Good, Shaped
<1>2. keys' = [x \in ApiKeys |-> IF Live(x) THEN keys[x] ELSE [keys[x] EXCEPT !.deadAt = now + 1]]
  BY DEF Tick
<1>3. ASSUME NEW x \in ApiKeys
      PROVE  /\ keys'[x] \in Records /\ keys'[x].deadAt <= now + 1
             /\ ~(keys'[x].known /\ keys'[x].active) => keys'[x].deadAt = now + 1
             /\ keys'[x].salted \/ revoked[x] = 0 \/ revoked[x] <= keys'[x].deadAt + RevokedTtl
  <2>1. /\ keys[x] \in Records /\ keys[x].deadAt <= now /\ keys[x].deadAt \in Int /\ revoked[x] \in Nat
        /\ keys[x].salted \/ revoked[x] = 0 \/ revoked[x] <= keys[x].deadAt + RevokedTtl
    BY DEF Dead, Records
  <2>2. CASE Live(x)
    <3>1. keys'[x] = keys[x] /\ keys[x].known /\ keys[x].active BY <1>2, <2>2 DEF Live
    <3> QED BY <1>1, <2>1, <3>1
  <2>3. CASE ~Live(x)
    <3>1. /\ keys'[x] \in Records /\ keys'[x].deadAt = now + 1
          /\ keys'[x].salted = keys[x].salted
      BY <1>1, <1>2, <2>1, <2>3 DEF Records
    <3> QED BY <1>1, <2>1, <3>1, GatewayAssumption
  <2> QED BY <2>2, <2>3
<1>4. keys' \in [ApiKeys -> Records] BY <1>2, <1>3
<1> QED BY <1>1, <1>3, <1>4 DEF Dead

LEMMA DeadLogin == ASSUME Good, Dead, NEW i \in Ids, Login(i) PROVE Dead'
<1> DEFINE k == Request(i).id
<1>1. k \in ApiKeys BY MixAssumption DEF Good, Shaped, Ids, Request
<1>2. now' = now /\ now \in Nat /\ revoked' = revoked BY DEF Login, Good, Shaped
<1>3. keys' = keys \/ keys' = [keys EXCEPT ![k].used = now] BY DEF Login
<1> HIDE DEF k
<1>4. /\ keys' \in [ApiKeys -> Records]
      /\ \A x \in ApiKeys : /\ keys'[x].known = keys[x].known /\ keys'[x].active = keys[x].active
                            /\ keys'[x].deadAt = keys[x].deadAt
                            /\ keys'[x].salted = keys[x].salted
  BY <1>1, <1>2, <1>3 DEF Dead, Records
<1> QED BY <1>2, <1>4 DEF Dead

LEMMA DeadAlways == Spec => []Dead
<1>1. Good /\ Dead /\ [Next]_vars => Dead'
  <2> SUFFICES ASSUME Good, Dead, [Next]_vars PROVE Dead' OBVIOUS
  <2>1. ASSUME NEW i \in Ids,
               \/ Shed(i) \/ Admit(i) \/ Timeout(i) \/ PurgeKeys(i) \/ SelectRow(i)
               \/ RunHandler(i) \/ AnswerHandled(i) \/ Refresh(i)
               \/ GetVault(i) \/ QueryVault(i) \/ FillCache(i)
               \/ CountAttempt(i) \/ AttachTtl(i) \/ CheckToken(i) \/ CheckScope(i)
               \/ CheckRevoked(i)
        PROVE  Dead'
    <3>1. UNCHANGED <<keys, revoked, now>>
      BY <2>1 DEF Shed, Admit, Timeout, PurgeKeys, SelectRow, RunHandler, AnswerHandled, Refresh,
                  GetVault, QueryVault, FillCache, CountAttempt, AttachTtl, CheckToken, CheckScope,
                  CheckRevoked
    <3> QED BY <3>1, DeadStays
  <2>2. ASSUME \/ \E row \in landing : InsertLands(row) \/ InsertFails(row)
               \/ Indexed \/ Services \/ Lag \/ Crash \/ UNCHANGED vars
        PROVE  Dead'
    <3>1. UNCHANGED <<keys, revoked, now>>
      BY <2>2 DEF InsertLands, InsertFails, Indexed, InvalidateVault, CommitVault, Services,
                  ServiceFails, ServiceReturns, Lag, Crash, gateVars, vars
    <3> QED BY <3>1, DeadStays
  <2> QED BY <2>1, <2>2, DeadLookup, DeadLogin, DeadOperators, DeadTick DEF Next, Guards, Handlers
<1> QED BY <1>1, InitDead, GoodAlways, PTL DEF Spec

\* A live key stored by its plain hash is refused as unknown or revoked only for
\* a reason that passes (lookupApiKeyByPlaintext): an outage, or a negative
\* result, which no request can keep alive beyond RevokedTtl after the key was
\* last dead.
THEOREM RefusalsPass == Spec => RefusedForReason
<1>1. ASSUME Good, Dead, [Next]_vars, NEW i \in Ids, ~Sent(i), req'[i].answer.why \in Blame,
             Request(i).token = "key", Live(Request(i).id), ~keys[Request(i).id].salted
      PROVE  "db" \notin up \/ now - keys[Request(i).id].deadAt <= RevokedTtl
  <2> DEFINE k == Request(i).id
  <2>1. k \in ApiKeys BY <1>1, MixAssumption DEF Good, Shaped, Ids, Request
  <2>2. PICK j \in Ids : CheckRevoked(j) \/ LookupKey(j) BY <1>1, WhoBlames DEF Discreet
  <2>3. CASE j # i
    <3>1. req'[i] = req[i]
      BY <1>1, <2>2, <2>3, Known DEF CheckRevoked, LookupKey, Refuse, Answer, GoTo, Pass
    <3> QED BY <1>1, <3>1, Unsent
  <2>4. CASE j = i /\ CheckRevoked(i)
    <3>1. CASE "redis" \in up /\ now < revoked[k]
      <4>1. revoked[k] \in Nat /\ now \in Nat /\ keys[k].deadAt \in Int
            /\ (keys[k].salted \/ revoked[k] = 0 \/ revoked[k] <= keys[k].deadAt + RevokedTtl)
        BY <1>1, <2>1 DEF Dead, Records, Good, Shaped
      <4> QED BY <1>1, <3>1, <4>1, GatewayAssumption
    <3>2. CASE ~("redis" \in up /\ now < revoked[k])
      <4>1. GoTo(i, "lookup") BY <2>4, <3>2 DEF CheckRevoked
      <4> QED BY <1>1, <4>1, DiscreetGo DEF Discreet
    <3> QED BY <3>1, <3>2
  <2>5. CASE j = i /\ LookupKey(i)
    <3> SUFFICES ASSUME "db" \in up PROVE FALSE OBVIOUS
    <3> DEFINE old == [req[i] EXCEPT !.known = TRUE]
    <3>1. \/ Answer(i, Status(403, "permissions")) \/ Pass(i, old)
      BY <1>1, <2>5 DEF LookupKey, Refuse, Selected, Live
    <3>2. IsRequest(old) /\ old.answer = req[i].answer BY <1>1, Known DEF IsRequest
    <3> HIDE DEF old
    <3>3. Discreet BY <1>1, <3>1, <3>2, DiscreetStatus, DiscreetPass DEF Blame
    <3> QED BY <1>1, <3>3 DEF Discreet
  <2> QED BY <2>2, <2>3, <2>4, <2>5
<1>2. Good /\ Dead /\ [Next]_vars =>
        [\A i \in Ids :
           LiveKeyRefused(i) /\ ~keys[Request(i).id].salted => ReasonPasses(Request(i).id)]_vars
  BY <1>1 DEF Blame, LiveKeyRefused, ReasonPasses
<1> QED BY <1>2, GoodAlways, DeadAlways, PTL DEF Spec, RefusedForReason
=============================================================================
