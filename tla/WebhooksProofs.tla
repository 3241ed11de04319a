--------------------------- MODULE WebhooksProofs ---------------------------
(***************************************************************************)
(* For any number of endpoints and any bounds: what was queued stays       *)
(* accounted for, an open circuit lets two calls through at most, and only *)
(* a second rotation inside its window takes the last secret from a call.  *)
(***************************************************************************)
EXTENDS Webhooks, FiniteSetTheorems, SequenceTheorems, TLAPS

-----------------------------------------------------------------------------
(* Types *)

Endpoints == [cap : Nat, fallback : Hooks \cup {None}, priority : Nat, channel : STRING,
              active : BOOLEAN, open : BOOLEAN, failures : Nat,
              secret : Nat \ {0}, previous : Nat, rotated : Nat]
Outcomes == {"none", "ok", "refused", "error", "unsafe"}
Statuses == {"failed_permanent", "failed", "pending", "delivered"}
Jobs == [id : Nat, hook : Hooks, payload : Nat, row : Nat, tries : Nat]
Rows == [hook : Hooks, payload : Nat, attempt : Nat, due : BOOLEAN, delivered : BOOLEAN,
         status : Statuses, from : Nat]
WorkerStages == {"read", "called", "noted"}
Workers == [at : WorkerStages, job : Jobs, snap : Endpoints, answer : Outcomes]
Listed == [row : Nat, attempt : Nat]
RetrierStages == {"next", "read", "called", "delivered", "counted", "exhausted"}
Retriers == [at : RetrierStages, row : Listed \cup {None}, snap : Endpoints \cup {None},
             answer : Outcomes, list : SUBSET Listed]
NotifierStages == {"enabled", "tiers"}
Notes == [got : SUBSET (Hooks \X Nat), queued : SUBSET (Hooks \X Nat),
          dropped : SUBSET (Hooks \X Nat), retired : SUBSET (Hooks \X Nat \X Nat),
          unsigned : SUBSET (Hooks \X Nat \X Nat), sinceOpen : [Hooks -> Nat]]
Bounds == [events : Nat, jobs : Nat, admin : Nat, faults : Nat]

Typed ==
  /\ hooks \in [Hooks -> Endpoints] /\ rows \in Seq(Rows) /\ jobs \in SUBSET Jobs
  /\ \/ notifier = Idle
     \/ notifier \in [at : {"enabled"}, payload : Nat]
     \/ notifier \in [at : {"tiers"}, payload : Nat, left : SUBSET Hooks]
  /\ worker = Idle \/ worker \in Workers
  /\ retrier = Idle \/ retrier \in Retriers
  /\ retrier.at \notin {"idle", "next"} => retrier.row \in Listed /\ retrier.snap \in Endpoints
  /\ hour \in Nat /\ seen \in Notes /\ spent \in Bounds /\ mix \in Mixes

\* What the retrier has at hand is a row of the log.
InLog ==
  retrier # Idle =>
    /\ \A r \in retrier.list : r.row \in DOMAIN rows
    /\ retrier.at # "next" => retrier.row.row \in DOMAIN rows

\* What it escalates has an endpoint to escalate to.
HasFallback == retrier.at = "exhausted" => hooks[Hook].fallback # None

LEMMA InitTyped == Init => Typed /\ InLog
<1> SUFFICES ASSUME Init PROVE Typed /\ InLog OBVIOUS
<1>1. mix \in Mixes BY DEF Init
<1>2. hooks \in [Hooks -> Endpoints]
  <2>1. ASSUME NEW h \in Hooks PROVE hooks[h] \in Endpoints
    BY <1>1, MixAssumption DEF Init, Endpoints, None
  <2>2. hooks = [h \in Hooks |-> hooks[h]] BY DEF Init
  <2> QED BY <2>1, <2>2
<1>3. seen \in Notes BY DEF Init, Notes
<1>4. spent \in Bounds BY DEF Init, Bounds
<1>5. rows \in Seq(Rows) /\ jobs \in SUBSET Jobs BY DEF Init
<1>6. notifier = Idle /\ worker = Idle /\ retrier = Idle /\ hour \in Nat BY DEF Init
<1>7. retrier.at = "idle" BY <1>6 DEF Idle
<1>8. Typed BY <1>1, <1>2, <1>3, <1>4, <1>5, <1>6, <1>7 DEF Typed
<1>9. InLog BY <1>6 DEF InLog
<1> QED BY <1>8, <1>9

\* A job of an endpoint, whatever its row.
LEMMA JobType ==
  ASSUME Typed, NEW h \in Hooks, NEW p \in Nat, NEW row \in Nat
  PROVE  Job(h, p, row) \in Jobs
BY DEF Typed, Bounds, Job, Jobs

LEMMA CalledType ==
  ASSUME Typed, NEW h \in Hooks, NEW p \in Nat, NEW answer, NEW snap
  PROVE  Called(h, p, answer, snap) \in Notes
<1>1. seen \in Notes BY DEF Typed
<1>2. InTransition(h, snap) \subseteq Hooks \X Nat \X Nat BY <1>1 DEF InTransition, Notes
<1> DEFINE got == seen.got \cup (IF answer = "ok" THEN {<<h, p>>} ELSE {})
           unsigned == seen.unsigned \cup
                         {x \in InTransition(h, snap) : x[2] \notin BuildSignatureHeaders(snap)}
           since == IF hooks[h].open THEN seen.sinceOpen[h] + 1 ELSE 0
<1>3. got \in SUBSET (Hooks \X Nat) BY <1>1 DEF Notes
<1>4. unsigned \in SUBSET (Hooks \X Nat \X Nat) BY <1>1, <1>2 DEF Notes
<1>5. since \in Nat BY <1>1 DEF Notes
<1>6. Called(h, p, answer, snap) = seen
      \/ Called(h, p, answer, snap) =
           [seen EXCEPT !.got = got, !.unsigned = unsigned, !.sinceOpen[h] = since]
  BY DEF Called
<1> HIDE DEF got, unsigned, since
<1>7. [seen EXCEPT !.got = got, !.unsigned = unsigned, !.sinceOpen[h] = since] \in Notes
  BY <1>1, <1>3, <1>4, <1>5 DEF Notes
<1> QED BY <1>1, <1>6, <1>7

\* What a call leaves of the history.
LEMMA CalledAdds ==
  ASSUME Typed, NEW h \in Hooks, NEW p \in Nat, NEW answer, NEW snap,
         seen' = Called(h, p, answer, snap)
  PROVE  /\ seen.got \subseteq seen'.got /\ seen'.queued = seen.queued /\ seen'.dropped = seen.dropped
         /\ seen'.retired = seen.retired
         /\ answer = "ok" => <<h, p>> \in seen'.got
         /\ \A x \in seen'.unsigned :
              \/ x \in seen.unsigned
              \/ x \in InTransition(h, snap) /\ x[2] \notin BuildSignatureHeaders(snap)
         /\ seen'.sinceOpen = seen.sinceOpen
            \/ seen'.sinceOpen = [seen.sinceOpen EXCEPT ![h] = IF hooks[h].open THEN @ + 1 ELSE 0]
<1> DEFINE got == seen.got \cup (IF answer = "ok" THEN {<<h, p>>} ELSE {})
           Out(x) == x \in InTransition(h, snap) /\ x[2] \notin BuildSignatureHeaders(snap)
           unsigned == seen.unsigned \cup
                         {x \in InTransition(h, snap) : x[2] \notin BuildSignatureHeaders(snap)}
           since == IF hooks[h].open THEN seen.sinceOpen[h] + 1 ELSE 0
           counted == [seen.sinceOpen EXCEPT ![h] = IF hooks[h].open THEN @ + 1 ELSE 0]
<1>1. \/ seen' = seen /\ answer # "ok"
      \/ seen' = [seen EXCEPT !.got = got, !.unsigned = unsigned, !.sinceOpen[h] = since]
  BY DEF Called
<1>2. \A x \in unsigned : x \in seen.unsigned \/ Out(x) BY Zenon
<1>3. seen.got \subseteq got /\ (answer = "ok" => <<h, p>> \in got) OBVIOUS
<1>4. counted = [seen.sinceOpen EXCEPT ![h] = since] OBVIOUS
<1> SUFFICES /\ seen.got \subseteq seen'.got /\ seen'.queued = seen.queued
             /\ seen'.dropped = seen.dropped /\ seen'.retired = seen.retired
             /\ answer = "ok" => <<h, p>> \in seen'.got
             /\ \A x \in seen'.unsigned : x \in seen.unsigned \/ Out(x)
             /\ seen'.sinceOpen = seen.sinceOpen \/ seen'.sinceOpen = counted
  OBVIOUS
<1> HIDE DEF got, unsigned, since, counted, Out
<1>5. CASE seen' = seen /\ answer # "ok" BY <1>5
<1>6. CASE seen' = [seen EXCEPT !.got = got, !.unsigned = unsigned, !.sinceOpen[h] = since]
  <2>1. /\ seen'.got = got /\ seen'.queued = seen.queued /\ seen'.dropped = seen.dropped
        /\ seen'.retired = seen.retired /\ seen'.unsigned = unsigned
        /\ seen'.sinceOpen = [seen.sinceOpen EXCEPT ![h] = since]
    BY <1>6 DEF Typed, Notes
  <2> QED BY <1>2, <1>3, <1>4, <2>1
<1> QED BY <1>1, <1>5, <1>6
-----------------------------------------------------------------------------
(* The log keeps what it has: a row never changes its endpoint or payload. *)

RowsStay ==
  /\ DOMAIN rows \subseteq DOMAIN rows'
  /\ \A i \in DOMAIN rows : rows'[i].hook = rows[i].hook /\ rows'[i].payload = rows[i].payload

\* One row has some of its other fields changed.
LEMMA RowChanged ==
  ASSUME Typed, NEW i, NEW row,
         i \in DOMAIN rows => row \in Rows /\ row.hook = rows[i].hook /\ row.payload = rows[i].payload,
         rows' = [rows EXCEPT ![i] = row]
  PROVE  /\ rows' \in Seq(Rows) /\ DOMAIN rows' = DOMAIN rows /\ RowsStay
         /\ \A k \in DOMAIN rows : rows'[k] = IF k = i THEN row ELSE rows[k]
<1>1. rows \in Seq(Rows) /\ DOMAIN rows = 1..Len(rows) BY DEF Typed
<1>2. DOMAIN rows' = DOMAIN rows /\ \A k \in DOMAIN rows : rows'[k] = IF k = i THEN row ELSE rows[k]
  BY <1>1
<1>3. rows' \in Seq(Rows)
  <2>1. CASE i \in DOMAIN rows BY <1>1, <2>1, ExceptSeq
  <2>2. CASE i \notin DOMAIN rows
    <3>1. rows' = rows BY <1>1, <2>2
    <3> QED BY <1>1, <3>1
  <2> QED BY <2>1, <2>2
<1>4. RowsStay BY <1>2 DEF RowsStay
<1> QED BY <1>2, <1>3, <1>4

LEMMA RowAdded ==
  ASSUME Typed, NEW row \in Rows, rows' = Append(rows, row)
  PROVE  /\ rows' \in Seq(Rows) /\ RowsStay
         /\ Len(rows) \in Nat /\ DOMAIN rows' = DOMAIN rows \cup {Len(rows) + 1}
         /\ rows'[Len(rows) + 1] = row /\ Len(rows) + 1 \notin DOMAIN rows
         /\ \A i \in DOMAIN rows : rows'[i] = rows[i]
BY DEF Typed, RowsStay

\* What a failed delivery of the worker leaves in the log.
LEMMA FailureRecorded ==
  ASSUME Typed, NEW j \in Jobs, rows' = RecordFailure(j)
  PROVE  /\ rows' \in Seq(Rows) /\ RowsStay
         /\ \A i \in DOMAIN rows' : rows'[i].delivered => i \in DOMAIN rows /\ rows[i].delivered
         /\ j.row = None => \E i \in DOMAIN rows' : rows'[i].hook = j.hook /\ rows'[i].payload = j.payload
<1> DEFINE status == Failed
<1>0. status \in Statuses BY DEF Failed, Statuses
<1>1. Failed \in Statuses /\ j.hook \in Hooks /\ j.payload \in Nat BY DEF Failed, Statuses, Jobs
<1>2. CASE j.row = None
  <2> DEFINE row == NewRow(j.hook, j.payload, FALSE, Failed, None)
  <2>1. row \in Rows /\ ~row.delivered /\ row.hook = j.hook /\ row.payload = j.payload
    BY <1>1 DEF NewRow, Rows, None
  <2>2. rows' = Append(rows, row) BY <1>2 DEF RecordFailure
  <2> HIDE DEF row
  <2>3. /\ rows' \in Seq(Rows) /\ RowsStay
        /\ Len(rows) \in Nat /\ DOMAIN rows' = DOMAIN rows \cup {Len(rows) + 1}
        /\ rows'[Len(rows) + 1] = row /\ Len(rows) + 1 \notin DOMAIN rows
        /\ \A i \in DOMAIN rows : rows'[i] = rows[i]
    BY <2>1, <2>2, RowAdded
  <2> QED BY <1>2, <2>1, <2>3
<1>3. CASE j.row # None
  <2> DEFINE attempt == rows[j.row].attempt + 1
             row == [rows[j.row] EXCEPT !.attempt = attempt, !.due = FALSE, !.status = status]
  <2>1. rows' = [rows EXCEPT ![j.row] = row] BY <1>3 DEF RecordFailure
  <2>2. j.row \in DOMAIN rows =>
          /\ row \in Rows /\ row.hook = rows[j.row].hook /\ row.payload = rows[j.row].payload
          /\ row.delivered = rows[j.row].delivered
    <3> SUFFICES ASSUME j.row \in DOMAIN rows
                 PROVE  /\ row \in Rows /\ row.hook = rows[j.row].hook
                        /\ row.payload = rows[j.row].payload /\ row.delivered = rows[j.row].delivered
      OBVIOUS
    <3>1. rows[j.row] \in Rows BY DEF Typed
    <3>2. attempt \in Nat BY <3>1 DEF Rows
    <3> HIDE DEF status, attempt
    <3> QED BY <1>0, <3>1, <3>2 DEF Rows
  <2> HIDE DEF row
  <2>3. /\ rows' \in Seq(Rows) /\ DOMAIN rows' = DOMAIN rows /\ RowsStay
        /\ \A k \in DOMAIN rows : rows'[k] = IF k = j.row THEN row ELSE rows[k]
    BY <2>1, <2>2, RowChanged
  <2>4. \A i \in DOMAIN rows' : rows'[i].delivered => i \in DOMAIN rows /\ rows[i].delivered
    BY <2>2, <2>3
  <2> QED BY <1>3, <2>3, <2>4
<1> QED BY <1>2, <1>3

\* What changes of an endpoint.
LEMMA HookChanged ==
  ASSUME Typed, NEW h \in Hooks, NEW e \in Endpoints
  PROVE  [hooks EXCEPT ![h] = e] \in [Hooks -> Endpoints]
BY DEF Typed

LEMMA FailureRegistered ==
  ASSUME Typed, NEW h \in Hooks, NEW snap \in Endpoints, RegisterFailure(h, snap)
  PROVE  /\ hooks' \in [Hooks -> Endpoints]
         /\ \A k \in Hooks :
              /\ hooks'[k].secret = hooks[k].secret /\ hooks'[k].previous = hooks[k].previous
              /\ hooks'[k].rotated = hooks[k].rotated /\ hooks'[k].fallback = hooks[k].fallback
              /\ hooks[k].open => hooks'[k].open
<1> DEFINE open == hooks[h].open \/ snap.failures + 1 >= Threshold
           failures == snap.failures + 1
           e == [hooks[h] EXCEPT !.failures = failures, !.open = open]
<1>1. hooks[h] \in Endpoints BY DEF Typed
<1>2. open \in BOOLEAN /\ failures \in Nat /\ (hooks[h].open => open) BY DEF Endpoints
<1>4. hooks' = [hooks EXCEPT ![h] = e] BY DEF RegisterFailure, Typed
<1> HIDE DEF open, failures
<1>3. /\ e \in Endpoints /\ e.secret = hooks[h].secret /\ e.previous = hooks[h].previous
      /\ e.rotated = hooks[h].rotated /\ e.open = open /\ e.fallback = hooks[h].fallback
  BY <1>1, <1>2 DEF Endpoints
<1> HIDE DEF e
<1> QED BY <1>2, <1>3, <1>4 DEF Typed

LEMMA FailuresCleared ==
  ASSUME Typed, NEW h \in Hooks, NEW snap, ClearFailures(h, snap)
  PROVE  /\ hooks' \in [Hooks -> Endpoints]
         /\ \A k \in Hooks :
              /\ hooks'[k].secret = hooks[k].secret /\ hooks'[k].previous = hooks[k].previous
              /\ hooks'[k].rotated = hooks[k].rotated /\ hooks'[k].open = hooks[k].open
              /\ hooks'[k].fallback = hooks[k].fallback
<1> DEFINE e == [hooks[h] EXCEPT !.failures = 0]
<1>1. hooks[h] \in Endpoints BY DEF Typed
<1>2. /\ e \in Endpoints /\ e.secret = hooks[h].secret /\ e.previous = hooks[h].previous
      /\ e.rotated = hooks[h].rotated /\ e.open = hooks[h].open /\ e.fallback = hooks[h].fallback
  BY <1>1 DEF Endpoints
<1>3. hooks' = [hooks EXCEPT ![h] = e] \/ hooks' = hooks BY DEF ClearFailures, Typed
<1> HIDE DEF e
<1> QED BY <1>2, <1>3 DEF Typed

LEMMA SecretsPurged ==
  ASSUME Typed, PurgeExpiredRotatedSecrets
  PROVE  /\ hooks' \in [Hooks -> Endpoints]
         /\ \A k \in Hooks :
              /\ hooks'[k].secret = hooks[k].secret /\ hooks'[k].open = hooks[k].open
              /\ hooks'[k].fallback = hooks[k].fallback
              /\ \/ hooks'[k] = hooks[k]
                 \/ hour - hooks[k].rotated >= Window
<1>1. ASSUME NEW k \in Hooks
      PROVE  /\ hooks'[k] \in Endpoints
             /\ hooks'[k].secret = hooks[k].secret /\ hooks'[k].open = hooks[k].open
             /\ hooks'[k].fallback = hooks[k].fallback
             /\ \/ hooks'[k] = hooks[k]
                \/ hour - hooks[k].rotated >= Window
  <2>1. hooks[k] \in Endpoints /\ hour \in Int /\ hooks[k].rotated \in Int /\ Window \in Int
    BY WebhookAssumption DEF Typed, Endpoints
  <2>2. CASE Expired(k)
    <3>1. hooks'[k] = [hooks[k] EXCEPT !.previous = None, !.rotated = 0]
      BY <2>2 DEF PurgeExpiredRotatedSecrets
    <3>2. hour - hooks[k].rotated >= Window BY <2>1, <2>2 DEF Expired, IsWithinRotationWindow
    <3> DEFINE e == [hooks[k] EXCEPT !.previous = None, !.rotated = 0]
    <3>3. e \in Endpoints /\ e.secret = hooks[k].secret /\ e.open = hooks[k].open
         /\ e.fallback = hooks[k].fallback
      BY <2>1 DEF Endpoints, None
    <3> HIDE DEF e
    <3> QED BY <3>1, <3>2, <3>3 DEF e
  <2>3. CASE ~Expired(k)
    BY <2>1, <2>3 DEF PurgeExpiredRotatedSecrets
  <2> QED BY <2>2, <2>3
<1> QED BY <1>1 DEF PurgeExpiredRotatedSecrets
-----------------------------------------------------------------------------
(* Every step keeps the types, and the log what it has *)

LEMMA SameRows == ASSUME rows' = rows PROVE RowsStay
BY DEF RowsStay

\* A retrier that stays where it is, or stops, has the rows it had.
LEMMA StillInLog ==
  ASSUME InLog, RowsStay, retrier' = retrier \/ retrier' = Idle
  PROVE  InLog'
BY DEF InLog, RowsStay

LEMMA NotifierTyped ==
  ASSUME Typed, InLog, Notify \/ ChooseEndpoints \/ EnqueueTier
  PROVE  Typed' /\ InLog' /\ RowsStay
<1>1. rows' = rows /\ retrier' = retrier BY DEF Notify, ChooseEndpoints, EnqueueTier
<1>2. RowsStay /\ InLog' BY <1>1, SameRows, StillInLog
<1>3. spent \in Bounds /\ seen \in Notes BY DEF Typed
<1>4. CASE Notify
  <2>1. spent' \in Bounds /\ spent.events + 1 \in Nat BY <1>3, <1>4 DEF Notify, Bounds
  <2>2. notifier' = Idle \/ notifier' \in [at : {"enabled"}, payload : Nat]
    BY <1>4, <2>1 DEF Notify
  <2>3. UNCHANGED <<hooks, rows, jobs, worker, retrier, hour, seen, mix>> BY <1>4 DEF Notify
  <2>4. Typed' BY <2>1, <2>2, <2>3 DEF Typed
  <2> QED BY <1>2, <2>4
<1>5. CASE ChooseEndpoints
  <2>1. notifier.payload \in Nat BY <1>5 DEF ChooseEndpoints, Typed, Idle
  <2>2. Deliverable \in SUBSET Hooks BY DEF Deliverable, Subscribed
  <2>3. notifier' = Idle \/ notifier' \in [at : {"tiers"}, payload : Nat, left : SUBSET Hooks]
    BY <1>5, <2>1, <2>2 DEF ChooseEndpoints
  <2>4. UNCHANGED <<hooks, rows, jobs, worker, retrier, hour, seen, mix, spent>>
    BY <1>5 DEF ChooseEndpoints
  <2>5. Typed' BY <2>3, <2>4 DEF Typed
  <2> QED BY <1>2, <2>5
<1>6. CASE EnqueueTier
  <2> DEFINE queued == {h \in Tier(notifier.left) : hooks[h].channel # "email"}
             Number(h) == Cardinality({k \in queued : k <= h})
             new == {[Job(h, notifier.payload, None) EXCEPT !.id = spent.jobs + Number(h)] : h \in queued}
  <2>1. notifier \in [at : {"tiers"}, payload : Nat, left : SUBSET Hooks]
    BY <1>6 DEF EnqueueTier, Typed, Idle
  <2>2. queued \subseteq Hooks /\ IsFiniteSet(queued)
    <3>1. queued \subseteq Hooks BY <2>1 DEF Tier
    <3> QED BY <3>1, WebhookAssumption, FS_Subset
  <2>3. Cardinality(queued) \in Nat BY <2>2, FS_CardinalityType
  <2>4. \A h \in queued : Number(h) \in Nat
    <3> TAKE h \in queued
    <3>1. {k \in queued : k <= h} \subseteq queued OBVIOUS
    <3> HIDE DEF queued
    <3>2. IsFiniteSet({k \in queued : k <= h}) BY <2>2, <3>1, FS_Subset
    <3> QED BY <3>2, FS_CardinalityType
  <2>5. /\ jobs' = jobs \cup new
        /\ spent' = [spent EXCEPT !.jobs = @ + Cardinality(queued)]
        /\ seen' = [seen EXCEPT !.queued = @ \cup {<<h, notifier.payload>> : h \in queued}]
        /\ notifier' = Idle \/ notifier' = [notifier EXCEPT !.left = notifier.left \ Tier(notifier.left)]
        /\ UNCHANGED <<hooks, rows, worker, retrier, hour, mix>>
    BY <1>6 DEF EnqueueTier
  <2>6. new \subseteq Jobs
    <3> SUFFICES ASSUME NEW h \in queued
                 PROVE  [Job(h, notifier.payload, None) EXCEPT !.id = spent.jobs + Number(h)] \in Jobs
      OBVIOUS
    <3>1. Job(h, notifier.payload, None) \in Jobs BY <2>1, <2>2, JobType DEF None
    <3>2. spent.jobs + Number(h) \in Nat BY <1>3, <2>4 DEF Bounds
    <3> HIDE DEF Number, queued
    <3> QED BY <3>1, <3>2 DEF Jobs
  <2> HIDE DEF queued, new
  <2>7. spent' \in Bounds BY <1>3, <2>3, <2>5 DEF Bounds
  <2>8. seen' \in Notes BY <1>3, <2>1, <2>2, <2>5 DEF Notes
  <2>9. notifier' = Idle \/ notifier' \in [at : {"tiers"}, payload : Nat, left : SUBSET Hooks]
    BY <2>1, <2>5
  <2>10. Typed' BY <2>5, <2>6, <2>7, <2>8, <2>9 DEF Typed
  <2> QED BY <1>2, <2>10
<1> QED BY <1>4, <1>5, <1>6

\* The worker at a stage has its job, its copy of the endpoint and an answer.
LEMMA WorkerBusy ==
  ASSUME Typed, worker # Idle
  PROVE  /\ worker \in Workers /\ worker.job \in Jobs /\ worker.job.hook \in Hooks
         /\ worker.job.payload \in Nat /\ worker.snap \in Endpoints
BY DEF Typed, Workers, Jobs

LEMMA JobThrowsType ==
  ASSUME Typed, NEW j \in Jobs, JobThrows(j)
  PROVE  jobs' \in SUBSET Jobs
<1>1. [j EXCEPT !.tries = @ + 1] \in Jobs BY DEF Jobs
<1> QED BY <1>1 DEF JobThrows, Typed

LEMMA AnswersType ==
  ASSUME Typed, NEW h \in Hooks, NEW answer \in Answers(h)
  PROVE  answer \in Outcomes
BY MixAssumption DEF Typed, Answers, Outcomes

LEMMA WorkerTyped ==
  ASSUME Typed, InLog, WorkerStep
  PROVE  Typed' /\ InLog' /\ RowsStay
<1>1. seen \in Notes /\ retrier' = retrier
  BY DEF Typed, WorkerStep, TakeJob, Deliver, NoteHook, NoteRow
<1>2. CASE TakeJob
  <2>1. UNCHANGED <<hooks, rows, notifier, retrier, hour, spent, mix>> BY <1>2 DEF TakeJob
  <2>2. PICK j \in jobs :
          \/ JobDone(j) /\ worker' = Idle /\ seen' = Drop(j.hook, j.payload)
          \/ /\ worker' = [at |-> "read", job |-> j, snap |-> hooks[j.hook], answer |-> "none"]
             /\ UNCHANGED <<jobs, seen>>
    BY <1>2 DEF TakeJob
  <2>3. j \in Jobs /\ j.hook \in Hooks /\ j.payload \in Nat /\ hooks[j.hook] \in Endpoints
    BY DEF Typed, Jobs
  <2>4. Drop(j.hook, j.payload) \in Notes BY <1>1, <2>3 DEF Drop, Notes
  <2>5. worker' = Idle \/ worker' \in Workers
    BY <2>2, <2>3 DEF Workers, WorkerStages, Outcomes
  <2>6. jobs' \in SUBSET Jobs BY <2>2 DEF JobDone, Typed
  <2>7. seen' \in Notes BY <1>1, <2>2, <2>4
  <2>8. Typed' BY <2>1, <2>5, <2>6, <2>7 DEF Typed
  <2> QED BY <2>1, <2>8, SameRows, StillInLog
<1>3. CASE Deliver
  <2>1. UNCHANGED <<hooks, rows, notifier, retrier, hour, spent, mix>> BY <1>3 DEF Deliver
  <2>0. worker.at = "read" BY <1>3 DEF Deliver
  <2>2. worker # Idle BY <2>0 DEF Idle
  <2>3. /\ worker \in Workers /\ worker.job.hook \in Hooks /\ worker.job.payload \in Nat
    BY <2>2, WorkerBusy
  <2>4. \/ worker' = Idle /\ JobDone(worker.job) /\ seen' = Drop(worker.job.hook, worker.job.payload)
        \/ /\ \E answer \in Answers(worker.job.hook) :
                /\ worker' = [worker EXCEPT !.at = "called", !.answer = answer]
                /\ seen' = Called(worker.job.hook, worker.job.payload, answer, worker.snap)
           /\ UNCHANGED jobs
    BY <1>3 DEF Deliver
  <2>5. CASE worker' = Idle /\ JobDone(worker.job) /\ seen' = Drop(worker.job.hook, worker.job.payload)
    <3>1. seen' \in Notes BY <1>1, <2>3, <2>5 DEF Drop, Notes
    <3>2. Typed' BY <2>1, <2>5, <3>1 DEF Typed, JobDone
    <3> QED BY <2>1, <3>2, SameRows, StillInLog
  <2>6. ASSUME NEW answer \in Answers(worker.job.hook), UNCHANGED jobs,
               worker' = [worker EXCEPT !.at = "called", !.answer = answer],
               seen' = Called(worker.job.hook, worker.job.payload, answer, worker.snap)
        PROVE  Typed' /\ InLog' /\ RowsStay
    <3>1. seen' \in Notes BY <2>3, <2>6, CalledType
    <3>2. answer \in Outcomes BY <2>3, AnswersType
    <3>3. worker' \in Workers BY <2>3, <2>6, <3>2 DEF Workers, WorkerStages
    <3>4. Typed' BY <2>1, <2>6, <3>1, <3>3 DEF Typed
    <3> QED BY <2>1, <3>4, SameRows, StillInLog
  <2> QED BY <2>4, <2>5, <2>6
<1>4. CASE NoteHook
  <2>1. UNCHANGED <<rows, jobs, notifier, retrier, hour, seen, spent, mix>> BY <1>4 DEF NoteHook
  <2>0. worker.at = "called" BY <1>4 DEF NoteHook
  <2>2. worker # Idle BY <2>0 DEF Idle
  <2>3. worker \in Workers /\ worker.job.hook \in Hooks /\ worker.snap \in Endpoints
    BY <2>2, WorkerBusy
  <2>4. worker' \in Workers BY <1>4, <2>3 DEF NoteHook, Workers, WorkerStages
  <2>5. hooks' \in [Hooks -> Endpoints]
    BY <1>4, <2>3, FailureRegistered, FailuresCleared DEF NoteHook
  <2>6. Typed' BY <2>1, <2>4, <2>5 DEF Typed
  <2> QED BY <2>1, <2>6, SameRows, StillInLog
<1>5. CASE NoteRow
  <2>1. UNCHANGED <<hooks, notifier, retrier, hour, seen, spent, mix>> /\ worker' = Idle
    BY <1>5 DEF NoteRow
  <2>0. worker.at = "noted" BY <1>5 DEF NoteRow
  <2>2. worker # Idle BY <2>0 DEF Idle
  <2>3. worker.job \in Jobs BY <2>2, WorkerBusy
  <2> DEFINE i == worker.job.row
  <2>4. jobs' \in SUBSET Jobs
    BY <1>5, <2>3, JobThrowsType DEF NoteRow, JobDone, Typed
  <2>5. rows' \in Seq(Rows) /\ RowsStay
    <3>1. CASE rows' = RecordFailure(worker.job) BY <2>3, <3>1, FailureRecorded
    <3>2. CASE rows' = rows BY <3>2, SameRows DEF Typed
    <3>3. CASE rows' = [rows EXCEPT ![i].delivered = TRUE, ![i].status = "delivered"]
      <4> DEFINE row == [rows[i] EXCEPT !.delivered = TRUE, !.status = "delivered"]
      <4>1. i \in DOMAIN rows =>
              row \in Rows /\ row.hook = rows[i].hook /\ row.payload = rows[i].payload
        <5> SUFFICES ASSUME i \in DOMAIN rows
                     PROVE  row \in Rows /\ row.hook = rows[i].hook /\ row.payload = rows[i].payload
          OBVIOUS
        <5>1. rows[i] \in Rows BY DEF Typed
        <5> HIDE DEF i
        <5> QED BY <5>1 DEF Rows, Statuses
      <4>2. rows' = [rows EXCEPT ![i] = row] BY <3>3 DEF Typed
      <4> HIDE DEF row
      <4> QED BY <4>1, <4>2, RowChanged
    <3> QED BY <1>5, <3>1, <3>2, <3>3 DEF NoteRow
  <2>6. Typed' BY <2>1, <2>4, <2>5 DEF Typed
  <2> QED BY <2>1, <2>5, <2>6, StillInLog
<1> QED BY <1>2, <1>3, <1>4, <1>5 DEF WorkerStep

\* The retrier past its list has a row of the log and a copy of its endpoint.
LEMMA RetrierBusy ==
  ASSUME Typed, InLog, retrier.at \notin {"idle", "next"}
  PROVE  /\ retrier \in Retriers /\ retrier.row \in Listed /\ retrier.snap \in Endpoints
         /\ retrier.row.row \in DOMAIN rows /\ rows[retrier.row.row] \in Rows
         /\ Hook \in Hooks /\ rows[retrier.row.row].payload \in Nat
<1>1. retrier # Idle BY DEF Idle
<1>2. /\ retrier \in Retriers /\ retrier.row \in Listed /\ retrier.snap \in Endpoints
  BY <1>1 DEF Typed
<1>3. retrier.row.row \in DOMAIN rows BY <1>1 DEF InLog
<1>4. rows[retrier.row.row] \in Rows BY <1>3 DEF Typed
<1> QED BY <1>2, <1>3, <1>4 DEF Hook, Rows

\* It goes from stage to stage with the row it has.
LEMMA RetrierMoves ==
  ASSUME Typed, InLog, RowsStay, retrier.at \notin {"idle", "next"},
         NEW at \in RetrierStages, NEW answer \in Outcomes,
         retrier' = [retrier EXCEPT !.at = at, !.answer = answer] \/ retrier' = Idle
  PROVE  /\ retrier' = Idle \/ retrier' \in Retriers
         /\ retrier'.at \notin {"idle", "next"} => retrier'.row \in Listed /\ retrier'.snap \in Endpoints
         /\ InLog'
<1>1. /\ retrier \in Retriers /\ retrier.row \in Listed /\ retrier.snap \in Endpoints
      /\ retrier.row.row \in DOMAIN rows
  BY RetrierBusy
<1>2. CASE retrier' = Idle BY <1>2 DEF Idle, InLog
<1>3. CASE retrier' = [retrier EXCEPT !.at = at, !.answer = answer]
  <2>1. /\ retrier' \in Retriers /\ retrier'.row = retrier.row /\ retrier'.snap = retrier.snap
        /\ retrier'.list = retrier.list
    BY <1>1, <1>3 DEF Retriers
  <2>2. retrier # Idle BY DEF Idle
  <2>3. InLog' BY <1>1, <2>1, <2>2 DEF InLog, RowsStay
  <2> QED BY <1>1, <2>1, <2>3
<1> QED BY <1>2, <1>3

\* After a row, the next one.
LEMMA NextRowMoves ==
  ASSUME Typed, InLog, RowsStay, retrier.at \notin {"idle", "next"}, NextRow
  PROVE  /\ retrier' = Idle \/ retrier' \in Retriers
         /\ retrier'.at \notin {"idle", "next"} => retrier'.row \in Listed /\ retrier'.snap \in Endpoints
         /\ InLog'
<1>1. retrier \in Retriers BY RetrierBusy
<1>2. "next" \in RetrierStages /\ retrier.answer \in Outcomes
  BY <1>1 DEF Retriers, RetrierStages
<1>3. \/ retrier' = [retrier EXCEPT !.at = "next", !.answer = retrier.answer]
      \/ retrier' = Idle
  BY <1>1 DEF NextRow, Retriers
<1> QED BY <1>2, <1>3, RetrierMoves

LEMMA ScanTyped == ASSUME Typed, InLog, Scan PROVE Typed' /\ InLog' /\ RowsStay
<1>1. UNCHANGED <<rows, jobs, notifier, worker, hour, seen, spent, mix>> BY DEF Scan
<1>2. hooks' \in [Hooks -> Endpoints] BY SecretsPurged DEF Scan
<1> DEFINE due == {i \in DOMAIN rows : Due(i)}
           list == {[row |-> i, attempt |-> rows[i].attempt] : i \in due}
<1>3. list \in SUBSET Listed /\ \A r \in list : r.row \in DOMAIN rows
  <2>1. \A i \in due : i \in Nat /\ rows[i] \in Rows BY DEF Typed
  <2>2. \A i \in due : rows[i].attempt \in Nat BY <2>1 DEF Rows
  <2> QED BY <2>1, <2>2 DEF Listed
<1>4. \/ retrier' = Idle
      \/ retrier' = [at |-> "next", row |-> None, snap |-> None, answer |-> "none", list |-> list]
  BY DEF Scan
<1> HIDE DEF due, list
<1>5. /\ retrier' = Idle \/ retrier' \in Retriers
      /\ retrier'.at \in {"idle", "next"}
      /\ InLog'
  BY <1>1, <1>3, <1>4 DEF Retriers, RetrierStages, Outcomes, Idle, InLog
<1>6. Typed' BY <1>1, <1>2, <1>5 DEF Typed
<1> QED BY <1>1, <1>5, <1>6, SameRows

LEMMA ReadAgainTyped == ASSUME Typed, InLog, ReadAgain PROVE Typed' /\ InLog' /\ RowsStay
<1>1. UNCHANGED <<hooks, rows, jobs, notifier, worker, hour, seen, spent, mix>> BY DEF ReadAgain
<1>2. retrier.at = "next" BY DEF ReadAgain
<1>3. retrier # Idle BY <1>2 DEF Idle
<1>4. retrier \in Retriers BY <1>3 DEF Typed
<1>5. PICK r \in retrier.list :
        \/ retrier' = Idle
        \/ retrier' = [retrier EXCEPT !.list = retrier.list \ {r}]
        \/ retrier' = [retrier EXCEPT !.list = retrier.list \ {r}, !.at = "read", !.row = r,
                                      !.snap = hooks[rows[r.row].hook]]
  BY DEF ReadAgain
<1>6. r \in Listed /\ r.row \in DOMAIN rows BY <1>3, <1>4, <1>5 DEF Retriers, InLog
<1>7. hooks[rows[r.row].hook] \in Endpoints
  <2>1. rows[r.row] \in Rows /\ hooks \in [Hooks -> Endpoints] BY <1>6 DEF Typed
  <2> QED BY <2>1 DEF Rows
<1> DEFINE snap == hooks[rows[r.row].hook]
           rest == retrier.list \ {r}
<1>8. rest \in SUBSET Listed /\ \A x \in rest : x.row \in DOMAIN rows
  BY <1>3, <1>4 DEF Retriers, InLog
<1> HIDE DEF snap, rest
<1>9. CASE retrier' = Idle
  <2>1. Typed' BY <1>1, <1>9 DEF Typed, Idle
  <2> QED BY <1>1, <1>9, <2>1, SameRows DEF InLog
<1>10. CASE retrier' = [retrier EXCEPT !.list = rest]
  <2>1. retrier' \in Retriers /\ retrier'.at = "next" /\ retrier'.list = rest
    BY <1>2, <1>4, <1>8, <1>10 DEF Retriers
  <2>2. Typed' BY <1>1, <2>1 DEF Typed
  <2> QED BY <1>1, <1>8, <2>1, <2>2, SameRows DEF InLog
<1>11. CASE retrier' = [retrier EXCEPT !.list = rest, !.at = "read", !.row = r, !.snap = snap]
  <2>1. /\ retrier' \in Retriers /\ retrier'.at = "read" /\ retrier'.list = rest
        /\ retrier'.row = r /\ retrier'.snap = snap
    BY <1>4, <1>6, <1>7, <1>8, <1>11 DEF Retriers, RetrierStages, snap
  <2>2. Typed' BY <1>1, <1>6, <1>7, <2>1 DEF Typed, snap
  <2> QED BY <1>1, <1>6, <1>8, <2>1, <2>2, SameRows DEF InLog
<1> QED BY <1>5, <1>9, <1>10, <1>11 DEF rest, snap

LEMMA RetryTyped == ASSUME Typed, InLog, Retry PROVE Typed' /\ InLog' /\ RowsStay
<1>1. UNCHANGED <<hooks, rows, jobs, notifier, worker, hour, spent, mix>> /\ retrier.at = "read"
  BY DEF Retry
<1>2. Hook \in Hooks /\ rows[retrier.row.row].payload \in Nat BY <1>1, RetrierBusy
<1>3. PICK answer \in Answers(Hook) :
        /\ retrier' = [retrier EXCEPT !.at = "called", !.answer = answer]
        /\ seen' = Called(Hook, rows[retrier.row.row].payload, answer, retrier.snap)
  BY DEF Retry
<1>4. seen' \in Notes BY <1>2, <1>3, CalledType
<1>5. answer \in Outcomes /\ "called" \in RetrierStages BY <1>2, AnswersType DEF RetrierStages
<1>6. RowsStay BY <1>1, SameRows
<1>7. /\ retrier' = Idle \/ retrier' \in Retriers
      /\ retrier'.at \notin {"idle", "next"} => retrier'.row \in Listed /\ retrier'.snap \in Endpoints
      /\ InLog'
  BY <1>1, <1>3, <1>5, <1>6, RetrierMoves
<1>8. Typed' BY <1>1, <1>4, <1>7 DEF Typed
<1> QED BY <1>6, <1>7, <1>8

LEMMA RetryDeliveredTyped == ASSUME Typed, InLog, RetryDelivered PROVE Typed' /\ InLog' /\ RowsStay
<1>1. UNCHANGED <<hooks, jobs, notifier, worker, hour, seen, spent, mix>> /\ retrier.at = "called"
  BY DEF RetryDelivered
<1> DEFINE i == retrier.row.row
           row == [rows[i] EXCEPT !.delivered = TRUE, !.status = "delivered"]
<1>2. i \in DOMAIN rows /\ rows[i] \in Rows /\ retrier \in Retriers BY <1>1, RetrierBusy
<1>3. rows' = [rows EXCEPT ![i] = row] BY <1>2 DEF RetryDelivered, Typed
<1>4. row \in Rows /\ row.hook = rows[i].hook /\ row.payload = rows[i].payload
  <2> HIDE DEF i
  <2> QED BY <1>2 DEF Rows, Statuses
<1> HIDE DEF row
<1>5. rows' \in Seq(Rows) /\ RowsStay BY <1>3, <1>4, RowChanged
<1>6. "delivered" \in RetrierStages /\ retrier.answer \in Outcomes
      /\ retrier' = [retrier EXCEPT !.at = "delivered", !.answer = retrier.answer]
  BY <1>2 DEF RetryDelivered, Retriers, RetrierStages
<1>7. /\ retrier' = Idle \/ retrier' \in Retriers
      /\ retrier'.at \notin {"idle", "next"} => retrier'.row \in Listed /\ retrier'.snap \in Endpoints
      /\ InLog'
  BY <1>1, <1>5, <1>6, RetrierMoves
<1>8. Typed' BY <1>1, <1>5, <1>7 DEF Typed
<1> QED BY <1>5, <1>7, <1>8

LEMMA RetryClearsTyped == ASSUME Typed, InLog, RetryClears PROVE Typed' /\ InLog' /\ RowsStay
<1>1. UNCHANGED <<rows, jobs, notifier, worker, hour, seen, spent, mix>> /\ retrier.at = "delivered"
  BY DEF RetryClears
<1>2. Hook \in Hooks BY <1>1, RetrierBusy
<1>3. hooks' \in [Hooks -> Endpoints] BY <1>2, FailuresCleared DEF RetryClears
<1>4. RowsStay BY <1>1, SameRows
<1>5. /\ retrier' = Idle \/ retrier' \in Retriers
      /\ retrier'.at \notin {"idle", "next"} => retrier'.row \in Listed /\ retrier'.snap \in Endpoints
      /\ InLog'
  BY <1>1, <1>4, NextRowMoves DEF RetryClears
<1>6. Typed' BY <1>1, <1>3, <1>5 DEF Typed
<1> QED BY <1>4, <1>5, <1>6

LEMMA RegisterRetryFailureTyped ==
  ASSUME Typed, InLog, RegisterRetryFailure PROVE Typed' /\ InLog' /\ RowsStay
<1>1. UNCHANGED <<rows, jobs, notifier, worker, hour, seen, spent, mix>> /\ retrier.at = "called"
  BY DEF RegisterRetryFailure
<1>2. Hook \in Hooks /\ retrier.snap \in Endpoints /\ retrier \in Retriers BY <1>1, RetrierBusy
<1>3. hooks' \in [Hooks -> Endpoints] BY <1>2, FailureRegistered DEF RegisterRetryFailure
<1>4. RowsStay BY <1>1, SameRows
<1>5. "counted" \in RetrierStages /\ retrier.answer \in Outcomes
      /\ retrier' = [retrier EXCEPT !.at = "counted", !.answer = retrier.answer]
  BY <1>2 DEF RegisterRetryFailure, Retriers, RetrierStages
<1>6. /\ retrier' = Idle \/ retrier' \in Retriers
      /\ retrier'.at \notin {"idle", "next"} => retrier'.row \in Listed /\ retrier'.snap \in Endpoints
      /\ InLog'
  BY <1>1, <1>4, <1>5, RetrierMoves
<1>7. Typed' BY <1>1, <1>3, <1>6 DEF Typed
<1> QED BY <1>4, <1>6, <1>7

LEMMA RetryFailedTyped == ASSUME Typed, InLog, RetryFailed PROVE Typed' /\ InLog' /\ RowsStay
<1>1. /\ UNCHANGED <<hooks, jobs, notifier, worker, hour, seen, spent, mix>>
      /\ retrier.at \notin {"idle", "next"}
  BY DEF RetryFailed
<1> DEFINE i == retrier.row.row
           attempt == retrier.row.attempt + 1
           row == [rows[i] EXCEPT !.attempt = attempt, !.due = FALSE]
<1>2. i \in DOMAIN rows /\ rows[i] \in Rows /\ attempt \in Nat /\ retrier \in Retriers
  BY <1>1, RetrierBusy DEF Listed
<1>3. rows' = [rows EXCEPT ![i] = row] BY <1>2 DEF RetryFailed, BackOff, Typed
<1>4. row \in Rows /\ row.hook = rows[i].hook /\ row.payload = rows[i].payload
  <2> HIDE DEF i, attempt
  <2> QED BY <1>2 DEF Rows
<1> HIDE DEF row
<1>5. rows' \in Seq(Rows) /\ RowsStay BY <1>3, <1>4, RowChanged
<1>6. "exhausted" \in RetrierStages /\ retrier.answer \in Outcomes
      /\ (retrier' = [retrier EXCEPT !.at = "exhausted", !.answer = retrier.answer] \/ NextRow)
  BY <1>2 DEF RetryFailed, Retriers, RetrierStages
<1>7. /\ retrier' = Idle \/ retrier' \in Retriers
      /\ retrier'.at \notin {"idle", "next"} => retrier'.row \in Listed /\ retrier'.snap \in Endpoints
      /\ InLog'
  BY <1>1, <1>5, <1>6, RetrierMoves, NextRowMoves
<1>8. Typed' BY <1>1, <1>5, <1>7 DEF Typed
<1> QED BY <1>5, <1>7, <1>8

\* Only a row whose endpoint has a fallback escalates.
LEMMA EscalateTyped ==
  ASSUME Typed, InLog, HasFallback, Escalate
  PROVE  Typed' /\ InLog' /\ RowsStay
<1>1. UNCHANGED <<hooks, rows, notifier, worker, hour, mix>> /\ retrier.at = "exhausted"
  BY DEF Escalate
<1>2. Hook \in Hooks /\ rows[retrier.row.row].payload \in Nat BY <1>1, RetrierBusy
<1> DEFINE h == hooks[Hook].fallback
           p == rows[retrier.row.row].payload
<1>3. h \in Hooks /\ p \in Nat BY <1>1, <1>2 DEF Typed, Endpoints, HasFallback
<1>4. Job(h, p, None) \in Jobs BY <1>3, JobType DEF None
<1>5. /\ jobs' = jobs \cup {Job(h, p, None)}
      /\ spent' = [spent EXCEPT !.jobs = @ + 1]
      /\ seen' = [seen EXCEPT !.queued = @ \cup {<<h, p>>}]
  BY DEF Escalate, Send
<1> HIDE DEF h, p
<1>6. jobs' \in SUBSET Jobs BY <1>4, <1>5 DEF Typed
<1>0. spent \in Bounds /\ seen \in Notes BY DEF Typed
<1>7. spent' \in Bounds BY <1>0, <1>5 DEF Bounds
<1>8. seen' \in Notes BY <1>0, <1>3, <1>5 DEF Notes
<1>9. RowsStay BY <1>1, SameRows
<1>10. /\ retrier' = Idle \/ retrier' \in Retriers
       /\ retrier'.at \notin {"idle", "next"} => retrier'.row \in Listed /\ retrier'.snap \in Endpoints
       /\ InLog'
  BY <1>1, <1>9, NextRowMoves DEF Escalate
<1>11. Typed' BY <1>1, <1>6, <1>7, <1>8, <1>10 DEF Typed
<1> QED BY <1>9, <1>10, <1>11

\* An operation on one endpoint, the rest as it was.
LEMMA EndpointTyped ==
  ASSUME Typed, InLog, NEW h \in Hooks, NEW e \in Endpoints, hooks' = [hooks EXCEPT ![h] = e],
         UNCHANGED <<rows, jobs, notifier, worker, retrier, hour, mix>>,
         seen' \in Notes, spent' \in Bounds
  PROVE  Typed' /\ InLog' /\ RowsStay
<1>1. hooks' \in [Hooks -> Endpoints] BY HookChanged
<1>2. Typed' BY <1>1 DEF Typed
<1> QED BY <1>2, SameRows, StillInLog

LEMMA AdminSpends == ASSUME Typed, NEW kind, Admin(kind) PROVE spent' \in Bounds
BY DEF Typed, Admin, Bounds

LEMMA FaultSpends ==
  ASSUME Typed, NEW kind, Fault(kind) PROVE spent' \in Bounds /\ spent'.faults = spent.faults + 1
BY DEF Typed, Fault, Bounds

LEMMA ToggleTyped ==
  ASSUME Typed, InLog, NEW h \in Hooks, NEW on \in BOOLEAN, BulkToggleWebhooks(h, on)
  PROVE  Typed' /\ InLog' /\ RowsStay
<1> DEFINE e == [hooks[h] EXCEPT !.active = on]
<1>1. hooks[h] \in Endpoints BY DEF Typed
<1>2. e \in Endpoints BY <1>1 DEF Endpoints
<1>3. hooks' = [hooks EXCEPT ![h] = e] BY DEF BulkToggleWebhooks, Typed
<1>4. UNCHANGED <<rows, jobs, notifier, worker, retrier, hour, mix, seen>> BY DEF BulkToggleWebhooks
<1>5. spent' \in Bounds BY AdminSpends DEF BulkToggleWebhooks
<1> HIDE DEF e
<1>6. seen' \in Notes BY <1>4 DEF Typed
<1> QED BY <1>2, <1>3, <1>4, <1>5, <1>6, EndpointTyped

LEMMA DeleteTyped ==
  ASSUME Typed, InLog, NEW h \in Hooks, DeleteWebhook(h)
  PROVE  Typed' /\ InLog' /\ RowsStay
<1> DEFINE e == [hooks[h] EXCEPT !.active = FALSE]
<1>1. hooks[h] \in Endpoints BY DEF Typed
<1>2. e \in Endpoints BY <1>1 DEF Endpoints
<1>3. hooks' = [hooks EXCEPT ![h] = e] BY DEF DeleteWebhook, Typed
<1>4. UNCHANGED <<rows, jobs, notifier, worker, retrier, hour, mix, seen>> BY DEF DeleteWebhook
<1>5. spent' \in Bounds BY AdminSpends DEF DeleteWebhook
<1> HIDE DEF e
<1>6. seen' \in Notes BY <1>4 DEF Typed
<1> QED BY <1>2, <1>3, <1>4, <1>5, <1>6, EndpointTyped

LEMMA ResetTyped ==
  ASSUME Typed, InLog, NEW h \in Hooks, ResetWebhookCircuit(h)
  PROVE  Typed' /\ InLog' /\ RowsStay
<1> DEFINE e == [hooks[h] EXCEPT !.open = FALSE, !.failures = 0]
<1>1. hooks[h] \in Endpoints BY DEF Typed
<1>2. e \in Endpoints BY <1>1 DEF Endpoints
<1>3. hooks' = [hooks EXCEPT ![h] = e] BY DEF ResetWebhookCircuit, Typed
<1>4. UNCHANGED <<rows, jobs, notifier, worker, retrier, hour, mix>> BY DEF ResetWebhookCircuit
<1>5. spent' \in Bounds BY AdminSpends DEF ResetWebhookCircuit
<1> HIDE DEF e
<1>6. seen' \in Notes BY DEF ResetWebhookCircuit, Typed, Notes
<1> QED BY <1>2, <1>3, <1>4, <1>5, <1>6, EndpointTyped

LEMMA RotateTyped ==
  ASSUME Typed, InLog, NEW h \in Hooks, RotateWebhookSecret(h)
  PROVE  Typed' /\ InLog' /\ RowsStay
<1> DEFINE secret == hooks[h].secret
           next == secret + 1
           e == [hooks[h] EXCEPT !.previous = secret, !.secret = next, !.rotated = hour]
           retired == seen.retired \cup {<<h, secret, hour>>}
<1>1. hooks[h] \in Endpoints BY DEF Typed
<1>2. secret \in Nat /\ next \in Nat \ {0} /\ hour \in Nat BY <1>1 DEF Typed, Endpoints
<1>3. hooks' = [hooks EXCEPT ![h] = e] BY <1>1 DEF RotateWebhookSecret, Typed
<1>4. UNCHANGED <<rows, jobs, notifier, worker, retrier, hour, mix>> BY DEF RotateWebhookSecret
<1>5. spent' \in Bounds BY AdminSpends DEF RotateWebhookSecret
<1>6. seen' = [seen EXCEPT !.retired = retired] BY DEF RotateWebhookSecret
<1> HIDE DEF secret, next
<1>7. e \in Endpoints BY <1>1, <1>2 DEF Endpoints
<1>8. retired \in SUBSET (Hooks \X Nat \X Nat) BY <1>2 DEF Typed, Notes
<1> HIDE DEF e, retired
<1>9. seen' \in Notes BY <1>6, <1>8 DEF Typed, Notes
<1> QED BY <1>3, <1>4, <1>5, <1>7, <1>9, EndpointTyped

LEMMA ReplayTyped ==
  ASSUME Typed, InLog, NEW i \in DOMAIN rows, ReplayWebhookDelivery(i)
  PROVE  Typed' /\ InLog' /\ RowsStay
<1> DEFINE row == NewRow(rows[i].hook, rows[i].payload, TRUE, "pending", i)
           job == Job(rows[i].hook, rows[i].payload, Len(rows) + 1)
<1>1. rows[i] \in Rows /\ i \in Nat /\ Len(rows) + 1 \in Nat BY DEF Typed
<1>2. row \in Rows BY <1>1 DEF NewRow, Rows, Statuses
<1>3. job \in Jobs BY <1>1, JobType DEF Rows
<1>4. rows' = Append(rows, row) /\ jobs' = jobs \cup {job}
      /\ UNCHANGED <<hooks, notifier, worker, retrier, hour, seen, mix>>
  BY DEF ReplayWebhookDelivery
<1> HIDE DEF row, job
<1>5. rows' \in Seq(Rows) /\ RowsStay BY <1>2, <1>4, RowAdded
<1>0. spent \in Bounds BY DEF Typed
<1> DEFINE admin == spent.admin + 1
           count == spent.jobs + 1
<1>9. admin \in Nat /\ count \in Nat /\ spent' = [spent EXCEPT !.admin = admin, !.jobs = count]
  BY <1>0 DEF ReplayWebhookDelivery, Bounds
<1> HIDE DEF admin, count
<1>6. spent' \in Bounds BY <1>0, <1>9 DEF Bounds
<1>7. jobs' \in SUBSET Jobs BY <1>3, <1>4 DEF Typed
<1>8. Typed' BY <1>4, <1>5, <1>6, <1>7 DEF Typed
<1> QED BY <1>4, <1>5, <1>8, StillInLog

LEMMA OperatorTyped == ASSUME Typed, InLog, Operator PROVE Typed' /\ InLog' /\ RowsStay
<1>1. ASSUME NEW on \in BOOLEAN, SetGlobalOptOut(on) PROVE Typed' /\ InLog' /\ RowsStay
  <2>1. UNCHANGED <<hooks, rows, jobs, notifier, worker, retrier, hour, seen, mix>>
    BY <1>1 DEF SetGlobalOptOut
  <2>2. spent' \in Bounds BY <1>1, AdminSpends DEF SetGlobalOptOut
  <2>3. Typed' BY <2>1, <2>2 DEF Typed
  <2> QED BY <2>1, <2>3, SameRows, StillInLog
<1>2. ASSUME NEW channel, NEW vault, NEW on, UpsertPreferences(channel, vault, on)
      PROVE  Typed' /\ InLog' /\ RowsStay
  <2>1. UNCHANGED <<hooks, rows, jobs, notifier, worker, retrier, hour, seen, mix>>
    BY <1>2 DEF UpsertPreferences
  <2>2. spent' \in Bounds BY <1>2, AdminSpends DEF UpsertPreferences
  <2>3. Typed' BY <2>1, <2>2 DEF Typed
  <2> QED BY <2>1, <2>3, SameRows, StillInLog
<1> QED BY <1>1, <1>2, ToggleTyped, DeleteTyped, ResetTyped, RotateTyped, ReplayTyped DEF Operator

LEMMA EnvironmentTyped ==
  ASSUME Typed, InLog, (\E i \in DOMAIN rows : ComeDue(i)) \/ NewHour \/ RedisFails \/ Crash
  PROVE  Typed' /\ InLog' /\ RowsStay
<1>1. ASSUME NEW i \in DOMAIN rows, ComeDue(i) PROVE Typed' /\ InLog' /\ RowsStay
  <2> DEFINE row == [rows[i] EXCEPT !.due = TRUE]
  <2>1. rows[i] \in Rows BY DEF Typed
  <2>2. row \in Rows /\ row.hook = rows[i].hook /\ row.payload = rows[i].payload BY <2>1 DEF Rows
  <2>3. rows' = [rows EXCEPT ![i] = row] BY <1>1 DEF ComeDue, Typed
  <2>4. UNCHANGED <<hooks, jobs, notifier, worker, retrier, hour, seen, spent, mix>>
    BY <1>1 DEF ComeDue
  <2> HIDE DEF row
  <2>5. rows' \in Seq(Rows) /\ RowsStay BY <2>2, <2>3, RowChanged
  <2>6. Typed' BY <2>4, <2>5 DEF Typed
  <2> QED BY <2>4, <2>5, <2>6, StillInLog
<1>2. CASE NewHour
  <2>1. UNCHANGED <<hooks, rows, jobs, notifier, worker, retrier, seen, spent, mix>> /\ hour' = hour + 1
    BY <1>2 DEF NewHour
  <2>2. Typed' BY <2>1 DEF Typed
  <2> QED BY <2>1, <2>2, SameRows, StillInLog
<1>3. CASE RedisFails
  <2>1. UNCHANGED <<hooks, rows, jobs, notifier, worker, retrier, hour, seen, mix>> /\ spent' \in Bounds
    BY <1>3, FaultSpends DEF RedisFails
  <2>2. Typed' BY <2>1 DEF Typed
  <2> QED BY <2>1, <2>2, SameRows, StillInLog
<1>4. CASE Crash
  <2>1. /\ UNCHANGED <<hooks, rows, hour, seen, mix>> /\ spent' \in Bounds
        /\ notifier' = Idle /\ worker' = Idle /\ retrier' = Idle
    BY <1>4, FaultSpends DEF Crash
  <2>2. jobs' \in SUBSET Jobs
    <3>1. CASE worker = Idle BY <1>4, <3>1 DEF Crash, Typed
    <3>2. CASE worker # Idle
      <4>1. worker.job \in Jobs /\ JobThrows(worker.job) BY <1>4, <3>2, WorkerBusy DEF Crash
      <4> QED BY <4>1, JobThrowsType
    <3> QED BY <3>1, <3>2
  <2>3. Typed' BY <2>1, <2>2 DEF Typed, Idle
  <2> QED BY <2>1, <2>3, SameRows, StillInLog
<1> QED BY <1>1, <1>2, <1>3, <1>4

LEMMA StepTyped ==
  ASSUME Typed, InLog, HasFallback, [Next]_vars
  PROVE  Typed' /\ InLog' /\ RowsStay
<1>1. CASE UNCHANGED vars
  <2>1. Typed' BY <1>1 DEF vars, Typed
  <2> QED BY <1>1, <2>1, SameRows, StillInLog DEF vars
<1>2. CASE RetrierStep
  BY <1>2, ScanTyped, ReadAgainTyped, RetryTyped, RetryDeliveredTyped, RetryClearsTyped,
     RegisterRetryFailureTyped, RetryFailedTyped, EscalateTyped DEF RetrierStep
<1> QED BY <1>1, <1>2, NotifierTyped, WorkerTyped, OperatorTyped, EnvironmentTyped DEF Next

\* No step gives or takes a fallback.
LEMMA FallbacksStay ==
  ASSUME Typed, InLog, [Next]_vars
  PROVE  \A h \in Hooks : hooks'[h].fallback = hooks[h].fallback
<1>1. CASE UNCHANGED hooks BY <1>1
<1>2. CASE NoteHook
  <2>0. worker.at = "called" BY <1>2 DEF NoteHook
  <2>1. worker # Idle BY <2>0 DEF Idle
  <2>2. worker.job.hook \in Hooks /\ worker.snap \in Endpoints BY <2>1, WorkerBusy
  <2> QED BY <1>2, <2>2, FailureRegistered, FailuresCleared DEF NoteHook
<1>3. CASE Scan BY <1>3, SecretsPurged DEF Scan
<1>4. CASE RetryClears
  <2>1. Hook \in Hooks BY <1>4, RetrierBusy DEF RetryClears
  <2> QED BY <1>4, <2>1, FailuresCleared DEF RetryClears
<1>5. CASE RegisterRetryFailure
  <2>1. Hook \in Hooks /\ retrier.snap \in Endpoints BY <1>5, RetrierBusy DEF RegisterRetryFailure
  <2> QED BY <1>5, <2>1, FailureRegistered DEF RegisterRetryFailure
<1>6. ASSUME NEW h \in Hooks, NEW on \in BOOLEAN,
             BulkToggleWebhooks(h, on) \/ DeleteWebhook(h) \/ ResetWebhookCircuit(h)
             \/ RotateWebhookSecret(h)
      PROVE  \A k \in Hooks : hooks'[k].fallback = hooks[k].fallback
  <2>1. hooks \in [Hooks -> Endpoints] /\ hooks[h] \in Endpoints BY DEF Typed
  <2>2. CASE BulkToggleWebhooks(h, on) BY <2>1, <2>2 DEF BulkToggleWebhooks, Endpoints
  <2>3. CASE DeleteWebhook(h) BY <2>1, <2>3 DEF DeleteWebhook, Endpoints
  <2>4. CASE ResetWebhookCircuit(h) BY <2>1, <2>4 DEF ResetWebhookCircuit, Endpoints
  <2>5. CASE RotateWebhookSecret(h) BY <2>1, <2>5 DEF RotateWebhookSecret, Endpoints
  <2> QED BY <1>6, <2>2, <2>3, <2>4, <2>5
<1>7. CASE RetrierStep
  BY <1>1, <1>3, <1>4, <1>5, <1>7
  DEF RetrierStep, ReadAgain, Retry, RetryDelivered, RetryFailed, Escalate
<1>8. CASE WorkerStep BY <1>1, <1>2, <1>8 DEF WorkerStep, TakeJob, Deliver, NoteRow
<1>9. CASE Operator
  BY <1>1, <1>6, <1>9 DEF Operator, SetGlobalOptOut, UpsertPreferences, ReplayWebhookDelivery
<1>10. CASE UNCHANGED vars BY <1>1, <1>10 DEF vars
<1>11. CASE Notify \/ ChooseEndpoints \/ EnqueueTier BY <1>1, <1>11 DEF Notify, ChooseEndpoints, EnqueueTier
<1>12. CASE (\E i \in DOMAIN rows : ComeDue(i)) \/ NewHour \/ RedisFails \/ Crash
  BY <1>1, <1>12 DEF ComeDue, NewHour, RedisFails, Crash
<1> QED BY <1>7, <1>8, <1>9, <1>10, <1>11, <1>12 DEF Next

\* Only a failed retry of a row whose endpoint has a fallback is exhausted.
LEMMA Exhausted ==
  ASSUME Typed, InLog, [Next]_vars, retrier'.at = "exhausted"
  PROVE  \/ retrier' = retrier
         \/ RetryFailed /\ hooks[Hook].fallback # None /\ retrier'.row = retrier.row
<1>1. CASE RetrierStep
  <2>1. ~Scan BY DEF Scan, Idle
  <2>2. ~ReadAgain
    <3> SUFFICES ASSUME ReadAgain PROVE FALSE OBVIOUS
    <3>1. retrier.at = "next" BY DEF ReadAgain
    <3>2. retrier # Idle BY <3>1 DEF Idle
    <3>3. retrier \in Retriers BY <3>2 DEF Typed
    <3> QED BY <3>1, <3>3 DEF ReadAgain, Retriers, Idle
  <2>3. ASSUME retrier.at \notin {"idle", "next"}, ~RetryFailed PROVE FALSE
    <3>1. retrier \in Retriers BY <2>3, RetrierBusy
    <3>2. NextRow => FALSE BY <3>1 DEF NextRow, Idle, Retriers
    <3> QED BY <1>1, <2>1, <2>2, <2>3, <3>1, <3>2
        DEF RetrierStep, Retry, RetryDelivered, RetryClears, RegisterRetryFailure, Escalate, Retriers
  <2>4. CASE RetryFailed
    <3>1. retrier.at \notin {"idle", "next"} BY <2>4 DEF RetryFailed
    <3>2. retrier \in Retriers BY <3>1, RetrierBusy
    <3>3. ~NextRow BY <3>2 DEF NextRow, Idle, Retriers
    <3>4. hooks[Hook].fallback # None /\ retrier' = [retrier EXCEPT !.at = "exhausted"]
      BY <2>4, <3>3 DEF RetryFailed
    <3> QED BY <2>4, <3>2, <3>4 DEF Retriers
  <2>5. RetryFailed \/ retrier.at \notin {"idle", "next"}
    BY <1>1, <2>1, <2>2 DEF RetrierStep, Retry, RetryDelivered, RetryClears, RegisterRetryFailure, Escalate
  <2> QED BY <2>3, <2>4, <2>5
<1>2. CASE retrier' = retrier BY <1>2
<1>3. CASE retrier' = Idle BY <1>3 DEF Idle
<1> QED BY <1>1, <1>2, <1>3
    DEF Next, vars, Notify, ChooseEndpoints, EnqueueTier, WorkerStep, TakeJob, Deliver, NoteHook,
        NoteRow, Operator, BulkToggleWebhooks, DeleteWebhook, SetGlobalOptOut, UpsertPreferences,
        ResetWebhookCircuit, RotateWebhookSecret, ReplayWebhookDelivery, ComeDue, NewHour,
        RedisFails, Crash

LEMMA StepHasFallback ==
  ASSUME Typed, InLog, HasFallback, [Next]_vars
  PROVE  HasFallback'
<1> SUFFICES ASSUME retrier'.at = "exhausted" PROVE hooks'[Hook'].fallback # None
  BY DEF HasFallback
<1>1. RowsStay /\ \A h \in Hooks : hooks'[h].fallback = hooks[h].fallback
  BY StepTyped, FallbacksStay
<1>2. retrier.at \notin {"idle", "next"} /\ retrier'.row = retrier.row /\ hooks[Hook].fallback # None
  BY Exhausted DEF RetryFailed, HasFallback
<1>3. Hook \in Hooks /\ retrier.row.row \in DOMAIN rows BY <1>2, RetrierBusy
<1>4. Hook' = Hook BY <1>1, <1>2, <1>3 DEF Hook, RowsStay
<1> QED BY <1>1, <1>2, <1>3, <1>4

Sound == Typed /\ InLog /\ HasFallback

\* The types hold in every state.
LEMMA SoundAlways == Spec => []Sound
<1>1. Init => Sound
  <2>1. Init => retrier.at # "exhausted" BY DEF Init, Idle
  <2> QED BY <2>1, InitTyped DEF Sound, HasFallback
<1>2. Sound /\ [Next]_vars => Sound' BY StepTyped, StepHasFallback DEF Sound
<1> QED BY <1>1, <1>2, PTL DEF Spec
-----------------------------------------------------------------------------
(* What is queued is accounted for *)

Logged(h, p) == \E i \in DOMAIN rows : rows[i].hook = h /\ rows[i].payload = p
Settled(h, p) == <<h, p>> \in seen.got \/ <<h, p>> \in seen.dropped \/ Logged(h, p)
Awaited(h, p) == \E j \in jobs : j.hook = h /\ j.payload = p

\* The worker has a job of the queue, and a delivery it calls done was received.
WorkerHonest ==
  /\ worker # Idle => worker.job \in jobs
  /\ worker.at \in {"called", "noted"} /\ worker.answer = "ok"
       => <<worker.job.hook, worker.job.payload>> \in seen.got
RetrierHonest ==
  retrier.at = "called" /\ retrier.answer = "ok" =>
    <<Hook, rows[retrier.row.row].payload>> \in seen.got

\* A job of a row is a job of that row's delivery, and a job was handed out
\* again because its process died, or because of a failure in the log.
JobsOwned ==
  \A j \in jobs :
    /\ j.row # None => /\ j.row \in DOMAIN rows
                       /\ rows[j.row].hook = j.hook /\ rows[j.row].payload = j.payload
    /\ j.tries <= spent.faults \/ Logged(j.hook, j.payload)
DeliveredReceived ==
  \A i \in DOMAIN rows : rows[i].delivered => <<rows[i].hook, rows[i].payload>> \in seen.got
QueuedTraced == \A q \in seen.queued : Settled(q[1], q[2]) \/ Awaited(q[1], q[2])

Traced == WorkerHonest /\ RetrierHonest /\ JobsOwned /\ DeliveredReceived /\ QueuedTraced

\* No step takes back what was received, dropped or logged.
Grows ==
  /\ seen.got \subseteq seen'.got /\ seen.dropped \subseteq seen'.dropped
  /\ spent.faults <= spent'.faults /\ RowsStay

LEMMA SettledStays ==
  ASSUME Grows, NEW h, NEW p
  PROVE  /\ Settled(h, p) => Settled(h, p)'
         /\ Logged(h, p) => Logged(h, p)'
BY DEF Grows, RowsStay, Settled, Logged

LEMMA JobsTraced ==
  ASSUME Typed, Traced, Typed', Grows,
         \A j \in jobs' :
           \/ j \in jobs
           \/ \E k \in jobs : /\ j.hook = k.hook /\ j.payload = k.payload /\ j.row = k.row
                              /\ j.tries <= spent'.faults \/ Logged(j.hook, j.payload)'
           \/ /\ j.tries = 0
              /\ j.row # None => /\ j.row \in DOMAIN rows'
                                 /\ rows'[j.row].hook = j.hook /\ rows'[j.row].payload = j.payload
  PROVE  JobsOwned'
<1> SUFFICES ASSUME NEW j \in jobs'
             PROVE  /\ j.row # None => /\ j.row \in DOMAIN rows'
                                       /\ rows'[j.row].hook = j.hook /\ rows'[j.row].payload = j.payload
                    /\ j.tries <= spent'.faults \/ Logged(j.hook, j.payload)'
  BY DEF JobsOwned
<1>1. j \in Jobs /\ spent.faults \in Nat /\ spent'.faults \in Nat BY DEF Typed, Bounds
<1>2. ASSUME NEW k \in jobs
      PROVE  /\ k.row # None => /\ k.row \in DOMAIN rows'
                                /\ rows'[k.row].hook = k.hook /\ rows'[k.row].payload = k.payload
             /\ k.tries <= spent'.faults \/ Logged(k.hook, k.payload)'
  <2>1. k.tries \in Nat BY DEF Typed, Jobs
  <2>2. k.tries <= spent.faults \/ Logged(k.hook, k.payload) BY DEF Traced, JobsOwned
  <2>3. k.tries <= spent'.faults \/ Logged(k.hook, k.payload)'
    BY <1>1, <2>1, <2>2, SettledStays DEF Grows
  <2>4. k.row # None => /\ k.row \in DOMAIN rows'
                        /\ rows'[k.row].hook = k.hook /\ rows'[k.row].payload = k.payload
    BY DEF Traced, JobsOwned, Grows, RowsStay
  <2> QED BY <2>3, <2>4
<1>3. CASE j \in jobs BY <1>2, <1>3
<1>4. CASE \E k \in jobs : /\ j.hook = k.hook /\ j.payload = k.payload /\ j.row = k.row
                           /\ j.tries <= spent'.faults \/ Logged(j.hook, j.payload)'
  BY <1>2, <1>4
<1>5. CASE /\ j.tries = 0
           /\ j.row # None => /\ j.row \in DOMAIN rows'
                              /\ rows'[j.row].hook = j.hook /\ rows'[j.row].payload = j.payload
  BY <1>1, <1>5
<1> QED BY <1>3, <1>4, <1>5

LEMMA QueueTraced ==
  ASSUME Traced, Grows,
         \A j \in jobs : Settled(j.hook, j.payload)' \/ Awaited(j.hook, j.payload)',
         \A q \in seen'.queued : q \in seen.queued \/ Awaited(q[1], q[2])'
  PROVE  QueuedTraced'
<1> SUFFICES ASSUME NEW q \in seen'.queued PROVE Settled(q[1], q[2])' \/ Awaited(q[1], q[2])'
  BY DEF QueuedTraced
<1>1. CASE q \in seen.queued
  <2>1. Settled(q[1], q[2]) \/ Awaited(q[1], q[2]) BY <1>1 DEF Traced, QueuedTraced
  <2>2. CASE Awaited(q[1], q[2])
    <3>1. PICK j \in jobs : j.hook = q[1] /\ j.payload = q[2] BY <2>2 DEF Awaited
    <3>2. Settled(j.hook, j.payload)' \/ Awaited(j.hook, j.payload)' OBVIOUS
    <3> QED BY <3>1, <3>2
  <2> QED BY <2>1, <2>2, SettledStays
<1> QED BY <1>1

LEMMA RowsTraced ==
  ASSUME Traced, Grows,
         \A i \in DOMAIN rows' : rows'[i].delivered =>
           \/ i \in DOMAIN rows /\ rows[i].delivered
           \/ <<rows'[i].hook, rows'[i].payload>> \in seen'.got
  PROVE  DeliveredReceived'
BY DEF Traced, DeliveredReceived, Grows, RowsStay

LEMMA WorkerStays ==
  ASSUME Traced, Grows, worker' = worker, jobs \subseteq jobs'
  PROVE  WorkerHonest'
BY DEF Traced, WorkerHonest, Grows

LEMMA RetrierStays ==
  ASSUME Typed, InLog, Traced, Grows, retrier' = retrier \/ retrier'.at # "called"
  PROVE  RetrierHonest'
<1> SUFFICES ASSUME retrier'.at = "called", retrier'.answer = "ok", retrier' = retrier
             PROVE  <<Hook, rows[retrier.row.row].payload>>' \in seen'.got
  BY DEF RetrierHonest
<1>1. <<Hook, rows[retrier.row.row].payload>> \in seen.got BY DEF Traced, RetrierHonest
<1>2. retrier.row.row \in DOMAIN rows BY RetrierBusy
<1>3. Hook' = Hook /\ rows'[retrier'.row.row].payload = rows[retrier.row.row].payload
  BY <1>2 DEF Grows, RowsStay, Hook
<1> QED BY <1>1, <1>3 DEF Grows

\* Jobs and log as they were.
LEMMA Unmoved ==
  ASSUME Typed, Traced, Typed', Grows, UNCHANGED <<rows, jobs>>, seen'.queued = seen.queued
  PROVE  JobsOwned' /\ QueuedTraced' /\ DeliveredReceived'
<1>1. JobsOwned' BY JobsTraced
<1>2. \A j \in jobs : Awaited(j.hook, j.payload)' BY DEF Awaited
<1>3. QueuedTraced' BY <1>2, QueueTraced
<1>4. DeliveredReceived' BY RowsTraced
<1> QED BY <1>1, <1>3, <1>4

\* Nor worker and retrier.
LEMMA TraceUntouched ==
  ASSUME Sound, Sound', Traced, UNCHANGED <<rows, jobs, worker, retrier>>,
         seen'.got = seen.got, seen'.dropped = seen.dropped, seen'.queued = seen.queued,
         spent.faults <= spent'.faults
  PROVE  Traced'
<1>1. Typed /\ InLog /\ Typed' BY DEF Sound
<1>2. Grows BY SameRows DEF Grows
<1>3. JobsOwned' /\ QueuedTraced' /\ DeliveredReceived' BY <1>1, <1>2, Unmoved
<1>4. WorkerHonest' BY <1>2, WorkerStays
<1>5. RetrierHonest' BY <1>1, <1>2, RetrierStays
<1> QED BY <1>3, <1>4, <1>5 DEF Traced

LEMMA EnqueueTraced ==
  ASSUME Sound, Sound', RowsStay, Traced, EnqueueTier
  PROVE  Traced'
<1>0. PICK p : p = notifier.payload OBVIOUS
<1> DEFINE queued == {h \in Tier(notifier.left) : hooks[h].channel # "email"}
           Number(h) == Cardinality({k \in queued : k <= h})
           New(h) == [Job(h, p, None) EXCEPT !.id = spent.jobs + Number(h)]
<1>1. Typed /\ InLog /\ Typed' BY DEF Sound
<1>2. /\ jobs' = jobs \cup {New(h) : h \in queued}
      /\ spent' = [spent EXCEPT !.jobs = @ + Cardinality(queued)]
      /\ seen' = [seen EXCEPT !.queued = @ \cup {<<h, p>> : h \in queued}]
      /\ UNCHANGED <<rows, worker, retrier>>
  BY <1>0 DEF EnqueueTier
<1>3. \A h \in queued : /\ New(h).hook = h /\ New(h).payload = p
                        /\ New(h).row = None /\ New(h).tries = 0
  BY DEF Job
<1> HIDE DEF queued, New
<1>4. /\ seen'.got = seen.got /\ seen'.dropped = seen.dropped /\ spent'.faults = spent.faults
      /\ seen'.queued = seen.queued \cup {<<h, p>> : h \in queued}
      /\ spent.faults \in Nat
  BY <1>1, <1>2 DEF Typed, Notes, Bounds
<1>5. Grows BY <1>4 DEF Grows
<1>6. JobsOwned' BY <1>1, <1>2, <1>3, <1>5, JobsTraced
<1>7. QueuedTraced'
  <2>1. \A j \in jobs : Awaited(j.hook, j.payload)' BY <1>2 DEF Awaited
  <2>2. ASSUME NEW h \in queued PROVE Awaited(h, p)' BY <1>2, <1>3 DEF Awaited
  <2>3. \A q \in seen'.queued : q \in seen.queued \/ Awaited(q[1], q[2])' BY <1>4, <2>2
  <2> QED BY <1>5, <2>1, <2>3, QueueTraced
<1>8. DeliveredReceived' BY <1>2, <1>5, RowsTraced
<1>9. WorkerHonest' BY <1>2, <1>5, WorkerStays
<1>10. RetrierHonest' BY <1>1, <1>2, <1>5, RetrierStays
<1> QED BY <1>6, <1>7, <1>8, <1>9, <1>10 DEF Traced

LEMMA TakeTraced ==
  ASSUME Sound, Sound', RowsStay, Traced, TakeJob
  PROVE  Traced'
<1>1. Typed /\ InLog /\ Typed' BY DEF Sound
<1>2. UNCHANGED <<rows, retrier, spent>> BY DEF TakeJob
<1>3. PICK j \in jobs :
        \/ JobDone(j) /\ worker' = Idle /\ seen' = Drop(j.hook, j.payload)
        \/ /\ worker' = [at |-> "read", job |-> j, snap |-> hooks[j.hook], answer |-> "none"]
           /\ UNCHANGED <<jobs, seen>>
  BY DEF TakeJob
<1>4. seen \in Notes /\ spent.faults \in Nat BY <1>1 DEF Typed, Bounds
<1>5. CASE JobDone(j) /\ worker' = Idle /\ seen' = Drop(j.hook, j.payload)
  <2>1. /\ jobs' = jobs \ {j} /\ seen'.got = seen.got /\ seen'.queued = seen.queued
        /\ seen'.dropped = seen.dropped \cup {<<j.hook, j.payload>>}
    BY <1>4, <1>5 DEF JobDone, Drop, Notes
  <2>2. Grows BY <1>2, <1>4, <2>1 DEF Grows
  <2>3. JobsOwned' BY <1>1, <2>1, <2>2, JobsTraced
  <2>4. \A k \in jobs : Settled(k.hook, k.payload)' \/ Awaited(k.hook, k.payload)'
    BY <2>1 DEF Settled, Awaited
  <2>5. QueuedTraced' BY <2>1, <2>2, <2>4, QueueTraced
  <2>6. DeliveredReceived' BY <1>2, <2>2, RowsTraced
  <2>7. WorkerHonest' BY <1>5 DEF WorkerHonest, Idle
  <2>8. RetrierHonest' BY <1>1, <1>2, <2>2, RetrierStays
  <2> QED BY <2>3, <2>5, <2>6, <2>7, <2>8 DEF Traced
<1>6. CASE /\ worker' = [at |-> "read", job |-> j, snap |-> hooks[j.hook], answer |-> "none"]
           /\ UNCHANGED <<jobs, seen>>
  <2>1. Grows BY <1>2, <1>4, <1>6 DEF Grows
  <2>2. JobsOwned' /\ QueuedTraced' /\ DeliveredReceived' BY <1>1, <1>2, <1>6, <2>1, Unmoved
  <2>3. WorkerHonest' BY <1>6 DEF WorkerHonest
  <2>4. RetrierHonest' BY <1>1, <1>2, <2>1, RetrierStays
  <2> QED BY <2>2, <2>3, <2>4 DEF Traced
<1> QED BY <1>3, <1>5, <1>6

LEMMA DeliverTraced ==
  ASSUME Sound, Sound', RowsStay, Traced, Deliver
  PROVE  Traced'
<1>1. Typed /\ InLog /\ Typed' BY DEF Sound
<1>2. UNCHANGED <<rows, retrier, spent>> /\ worker.at = "read" BY DEF Deliver
<1>3. worker # Idle BY <1>2 DEF Idle
<1> DEFINE j == worker.job
<1>4. /\ worker \in Workers /\ j \in jobs /\ j.hook \in Hooks /\ j.payload \in Nat
  BY <1>1, <1>3, WorkerBusy DEF Traced, WorkerHonest
<1>5. seen \in Notes /\ spent.faults \in Nat BY <1>1 DEF Typed, Bounds
<1>6. \/ worker' = Idle /\ JobDone(j) /\ seen' = Drop(j.hook, j.payload)
      \/ /\ \E answer \in Answers(j.hook) :
              /\ worker' = [worker EXCEPT !.at = "called", !.answer = answer]
              /\ seen' = Called(j.hook, j.payload, answer, worker.snap)
         /\ UNCHANGED jobs
  BY DEF Deliver
<1> HIDE DEF j
<1>7. CASE worker' = Idle /\ JobDone(j) /\ seen' = Drop(j.hook, j.payload)
  <2>1. /\ jobs' = jobs \ {j} /\ seen'.got = seen.got /\ seen'.queued = seen.queued
        /\ seen'.dropped = seen.dropped \cup {<<j.hook, j.payload>>}
    BY <1>5, <1>7 DEF JobDone, Drop, Notes
  <2>2. Grows BY <1>2, <1>5, <2>1 DEF Grows
  <2>3. JobsOwned' BY <1>1, <2>1, <2>2, JobsTraced
  <2>4. \A k \in jobs : Settled(k.hook, k.payload)' \/ Awaited(k.hook, k.payload)'
    BY <2>1 DEF Settled, Awaited
  <2>5. QueuedTraced' BY <2>1, <2>2, <2>4, QueueTraced
  <2>6. DeliveredReceived' BY <1>2, <2>2, RowsTraced
  <2>7. WorkerHonest' BY <1>7 DEF WorkerHonest, Idle
  <2>8. RetrierHonest' BY <1>1, <1>2, <2>2, RetrierStays
  <2> QED BY <2>3, <2>5, <2>6, <2>7, <2>8 DEF Traced
<1>8. ASSUME NEW answer \in Answers(j.hook), UNCHANGED jobs,
             worker' = [worker EXCEPT !.at = "called", !.answer = answer],
             seen' = Called(j.hook, j.payload, answer, worker.snap)
      PROVE  Traced'
  <2>1. /\ seen.got \subseteq seen'.got /\ seen'.queued = seen.queued /\ seen'.dropped = seen.dropped
        /\ answer = "ok" => <<j.hook, j.payload>> \in seen'.got
    BY <1>1, <1>4, <1>8, CalledAdds
  <2>2. Grows BY <1>2, <1>5, <2>1 DEF Grows
  <2>3. JobsOwned' /\ QueuedTraced' /\ DeliveredReceived' BY <1>1, <1>2, <1>8, <2>1, <2>2, Unmoved
  <2>4. worker'.job = j /\ worker'.answer = answer BY <1>4, <1>8 DEF Workers, j
  <2>5. WorkerHonest' BY <1>4, <1>8, <2>1, <2>4 DEF WorkerHonest
  <2>6. RetrierHonest' BY <1>1, <1>2, <2>2, RetrierStays
  <2> QED BY <2>3, <2>5, <2>6 DEF Traced
<1> QED BY <1>6, <1>7, <1>8

LEMMA NoteHookTraced ==
  ASSUME Sound, Sound', RowsStay, Traced, NoteHook
  PROVE  Traced'
<1>1. Typed /\ InLog /\ Typed' BY DEF Sound
<1>2. UNCHANGED <<rows, jobs, retrier, seen, spent>> /\ worker.at = "called"
      /\ worker' = [worker EXCEPT !.at = "noted"]
  BY DEF NoteHook
<1>3. worker # Idle BY <1>2 DEF Idle
<1>4. worker \in Workers BY <1>1, <1>3, WorkerBusy
<1>5. worker'.job = worker.job /\ worker'.answer = worker.answer BY <1>2, <1>4 DEF Workers
<1>6. spent.faults \in Nat BY <1>1 DEF Typed, Bounds
<1>7. Grows BY <1>2, <1>6 DEF Grows
<1>8. JobsOwned' /\ QueuedTraced' /\ DeliveredReceived' BY <1>1, <1>2, <1>7, Unmoved
<1>9. WorkerHonest' BY <1>2, <1>3, <1>5 DEF WorkerHonest, Traced
<1>10. RetrierHonest' BY <1>1, <1>2, <1>7, RetrierStays
<1> QED BY <1>8, <1>9, <1>10 DEF Traced

LEMMA NoteRowTraced ==
  ASSUME Sound, Sound', RowsStay, Traced, NoteRow
  PROVE  Traced'
<1>1. Typed /\ InLog /\ Typed' BY DEF Sound
<1>2. UNCHANGED <<retrier, seen, spent>> /\ worker.at = "noted" /\ worker' = Idle BY DEF NoteRow
<1>3. worker # Idle BY <1>2 DEF Idle
<1>4. PICK j \in jobs : j = worker.job /\ j \in Jobs
  BY <1>1, <1>3, WorkerBusy DEF Traced, WorkerHonest
<1>5. spent.faults \in Nat BY <1>1 DEF Typed, Bounds
<1>6. Grows BY <1>2, <1>5 DEF Grows
<1>7. WorkerHonest' BY <1>2 DEF WorkerHonest, Idle
<1>8. RetrierHonest' BY <1>1, <1>2, <1>6, RetrierStays
<1>9. CASE worker.answer = "ok"
  <2>1. <<j.hook, j.payload>> \in seen'.got BY <1>2, <1>4, <1>9 DEF Traced, WorkerHonest
  <2>2. /\ jobs' = jobs \ {j}
        /\ rows' = IF j.row = None THEN rows
                   ELSE [rows EXCEPT ![j.row].delivered = TRUE, ![j.row].status = "delivered"]
    BY <1>4, <1>9 DEF NoteRow, JobDone
  <2>3. JobsOwned' BY <1>1, <1>6, <2>2, JobsTraced
  <2>4. \A k \in jobs : Settled(k.hook, k.payload)' \/ Awaited(k.hook, k.payload)'
    BY <2>1, <2>2 DEF Settled, Awaited
  <2>5. QueuedTraced' BY <1>2, <1>6, <2>4, QueueTraced
  <2>6. \A i \in DOMAIN rows' : rows'[i].delivered =>
           \/ i \in DOMAIN rows /\ rows[i].delivered
           \/ <<rows'[i].hook, rows'[i].payload>> \in seen'.got
    <3>1. CASE j.row = None BY <2>2, <3>1
    <3>2. CASE j.row # None
      <4>1. /\ j.row \in DOMAIN rows /\ rows[j.row].hook = j.hook /\ rows[j.row].payload = j.payload
        BY <1>4, <3>2 DEF Traced, JobsOwned
      <4>2. rows'[j.row].hook = j.hook /\ rows'[j.row].payload = j.payload
        BY <4>1 DEF RowsStay
      <4>3. DOMAIN rows' = DOMAIN rows /\ \A i \in DOMAIN rows : i # j.row => rows'[i] = rows[i]
        BY <1>1, <2>2, <3>2 DEF Typed
      <4> QED BY <2>1, <4>2, <4>3
    <3> QED BY <3>1, <3>2
  <2>7. DeliveredReceived' BY <1>6, <2>6, RowsTraced
  <2> QED BY <1>7, <1>8, <2>3, <2>5, <2>7 DEF Traced
<1>10. CASE worker.answer # "ok"
  <2>1. rows' = RecordFailure(j) /\ (JobThrows(j) \/ JobDone(j)) BY <1>4, <1>10 DEF NoteRow
  <2>2. /\ \A i \in DOMAIN rows' : rows'[i].delivered => i \in DOMAIN rows /\ rows[i].delivered
        /\ j.row = None => \E i \in DOMAIN rows' : rows'[i].hook = j.hook /\ rows'[i].payload = j.payload
    BY <1>1, <1>4, <2>1, FailureRecorded
  <2>3. Logged(j.hook, j.payload)'
    <3>1. CASE j.row = None BY <2>2, <3>1 DEF Logged
    <3>2. CASE j.row # None
      <4>1. /\ j.row \in DOMAIN rows /\ rows[j.row].hook = j.hook /\ rows[j.row].payload = j.payload
        BY <1>4, <3>2 DEF Traced, JobsOwned
      <4> QED BY <4>1 DEF RowsStay, Logged
    <3> QED BY <3>1, <3>2
  <2>4. ASSUME NEW k \in jobs', k \notin jobs
        PROVE  k.hook = j.hook /\ k.payload = j.payload /\ k.row = j.row
    BY <1>4, <2>1, <2>4 DEF JobThrows, JobDone, Jobs
  <2>5. JobsOwned' BY <1>1, <1>4, <1>6, <2>3, <2>4, JobsTraced
  <2>6. \A k \in jobs : k = j \/ k \in jobs' BY <2>1 DEF JobThrows, JobDone
  <2>7. \A k \in jobs : Settled(k.hook, k.payload)' \/ Awaited(k.hook, k.payload)'
    BY <2>3, <2>6 DEF Settled, Awaited
  <2>8. QueuedTraced' BY <1>2, <1>6, <2>7, QueueTraced
  <2>9. DeliveredReceived' BY <1>6, <2>2, RowsTraced
  <2> QED BY <1>7, <1>8, <2>5, <2>8, <2>9 DEF Traced
<1> QED BY <1>9, <1>10

\* The retrier's steps that read or note an endpoint.
LEMMA RetrierQuiet ==
  ASSUME Sound, Sound', RowsStay, Traced, Scan \/ ReadAgain \/ RetryClears \/ RegisterRetryFailure
  PROVE  Traced'
<1>1. Typed /\ InLog /\ Typed' BY DEF Sound
<1>2. UNCHANGED <<rows, jobs, worker, seen, spent>>
  BY DEF Scan, ReadAgain, RetryClears, RegisterRetryFailure
<1>3. retrier'.at # "called"
  <2>1. CASE Scan BY <2>1 DEF Scan, Idle
  <2>2. CASE ReadAgain
    <3>1. retrier.at = "next" BY <2>2 DEF ReadAgain
    <3>2. retrier # Idle BY <3>1 DEF Idle
    <3>3. retrier \in Retriers BY <1>1, <3>2 DEF Typed
    <3>4. PICK r \in retrier.list :
            \/ retrier' = Idle
            \/ retrier' = [retrier EXCEPT !.list = retrier.list \ {r}]
            \/ retrier' = [retrier EXCEPT !.list = retrier.list \ {r}, !.at = "read", !.row = r,
                                          !.snap = hooks[rows[r.row].hook]]
      BY <2>2 DEF ReadAgain
    <3> DEFINE rest == retrier.list \ {r}
               snap == hooks[rows[r.row].hook]
    <3> HIDE DEF rest, snap
    <3>5. CASE retrier' = Idle BY <3>5 DEF Idle
    <3>6. CASE retrier' = [retrier EXCEPT !.list = rest] BY <3>1, <3>3, <3>6 DEF Retriers
    <3>7. CASE retrier' = [retrier EXCEPT !.list = rest, !.at = "read", !.row = r, !.snap = snap]
      BY <3>3, <3>7 DEF Retriers
    <3> QED BY <3>4, <3>5, <3>6, <3>7 DEF rest, snap
  <2>3. CASE RetryClears
    <3>1. retrier.at = "delivered" BY <2>3 DEF RetryClears
    <3>2. retrier \in Retriers BY <1>1, <3>1, RetrierBusy
    <3> QED BY <2>3, <3>2 DEF RetryClears, NextRow, Retriers, Idle
  <2>4. CASE RegisterRetryFailure
    <3>1. retrier.at = "called" BY <2>4 DEF RegisterRetryFailure
    <3>2. retrier \in Retriers BY <1>1, <3>1, RetrierBusy
    <3> QED BY <2>4, <3>2 DEF RegisterRetryFailure, Retriers
  <2> QED BY <2>1, <2>2, <2>3, <2>4
<1>4. spent.faults \in Nat BY <1>1 DEF Typed, Bounds
<1>5. Grows BY <1>2, <1>4 DEF Grows
<1>6. JobsOwned' /\ QueuedTraced' /\ DeliveredReceived' BY <1>1, <1>2, <1>5, Unmoved
<1>7. WorkerHonest' BY <1>2, <1>5, WorkerStays
<1>8. RetrierHonest' BY <1>1, <1>3, <1>5, RetrierStays
<1> QED BY <1>6, <1>7, <1>8 DEF Traced

LEMMA RetryTraced ==
  ASSUME Sound, Sound', RowsStay, Traced, Retry
  PROVE  Traced'
<1>1. Typed /\ InLog /\ Typed' BY DEF Sound
<1>2. UNCHANGED <<rows, jobs, worker, spent>> /\ retrier.at = "read" BY DEF Retry
<1>3. /\ retrier \in Retriers /\ Hook \in Hooks /\ rows[retrier.row.row].payload \in Nat
  BY <1>1, <1>2, RetrierBusy
<1>4. PICK answer \in Answers(Hook) :
        /\ retrier' = [retrier EXCEPT !.at = "called", !.answer = answer]
        /\ seen' = Called(Hook, rows[retrier.row.row].payload, answer, retrier.snap)
  BY DEF Retry
<1>5. /\ seen.got \subseteq seen'.got /\ seen'.queued = seen.queued /\ seen'.dropped = seen.dropped
      /\ answer = "ok" => <<Hook, rows[retrier.row.row].payload>> \in seen'.got
  BY <1>1, <1>3, <1>4, CalledAdds
<1>6. spent.faults \in Nat BY <1>1 DEF Typed, Bounds
<1>7. Grows BY <1>2, <1>5, <1>6 DEF Grows
<1>8. JobsOwned' /\ QueuedTraced' /\ DeliveredReceived' BY <1>1, <1>2, <1>5, <1>7, Unmoved
<1>9. WorkerHonest' BY <1>2, <1>7, WorkerStays
<1>10. retrier'.row = retrier.row /\ retrier'.answer = answer BY <1>3, <1>4 DEF Retriers
<1>11. RetrierHonest' BY <1>2, <1>5, <1>10 DEF RetrierHonest, Hook
<1> QED BY <1>8, <1>9, <1>11 DEF Traced

\* A row of the retrier changes, its delivery at most from not done to received.
LEMMA RowNoted ==
  ASSUME Sound, Sound', RowsStay, Traced, UNCHANGED <<jobs, worker, seen, spent>>,
         DOMAIN rows' = DOMAIN rows,
         \A i \in DOMAIN rows : rows'[i].delivered =>
           rows[i].delivered \/ <<rows'[i].hook, rows'[i].payload>> \in seen.got,
         retrier' = retrier \/ retrier'.at # "called"
  PROVE  Traced'
<1>1. Typed /\ InLog /\ Typed' BY DEF Sound
<1>2. spent.faults \in Nat BY <1>1 DEF Typed, Bounds
<1>3. Grows BY <1>2 DEF Grows
<1>4. JobsOwned' BY <1>1, <1>3, JobsTraced
<1>5. \A j \in jobs : Awaited(j.hook, j.payload)' BY DEF Awaited
<1>6. QueuedTraced' BY <1>3, <1>5, QueueTraced
<1>7. DeliveredReceived' BY <1>3, RowsTraced
<1>8. WorkerHonest' BY <1>3, WorkerStays
<1>9. RetrierHonest' BY <1>1, <1>3, RetrierStays
<1> QED BY <1>4, <1>6, <1>7, <1>8, <1>9 DEF Traced

LEMMA RetryDeliveredTraced ==
  ASSUME Sound, Sound', RowsStay, Traced, RetryDelivered
  PROVE  Traced'
<1>1. Typed /\ InLog BY DEF Sound
<1>2. /\ UNCHANGED <<jobs, worker, seen, spent>> /\ retrier.at = "called" /\ retrier.answer = "ok"
      /\ retrier' = [retrier EXCEPT !.at = "delivered"]
  BY DEF RetryDelivered
<1> DEFINE k == retrier.row.row
<1>3. retrier \in Retriers /\ k \in DOMAIN rows BY <1>1, <1>2, RetrierBusy
<1>4. <<rows[k].hook, rows[k].payload>> \in seen.got BY <1>2 DEF Traced, RetrierHonest, Hook
<1>5. /\ DOMAIN rows' = DOMAIN rows
      /\ \A i \in DOMAIN rows : i # k => rows'[i] = rows[i]
  BY <1>1 DEF RetryDelivered, Typed
<1> HIDE DEF k
<1>6. rows'[k].hook = rows[k].hook /\ rows'[k].payload = rows[k].payload BY <1>3 DEF RowsStay
<1>7. retrier'.at # "called" BY <1>2, <1>3 DEF Retriers
<1> QED BY <1>2, <1>4, <1>5, <1>6, <1>7, RowNoted

LEMMA RetryFailedTraced ==
  ASSUME Sound, Sound', RowsStay, Traced, RetryFailed
  PROVE  Traced'
<1>1. Typed /\ InLog BY DEF Sound
<1>2. UNCHANGED <<jobs, worker, seen, spent>> /\ retrier.at \notin {"idle", "next"}
      /\ (retrier' = [retrier EXCEPT !.at = "exhausted"] \/ NextRow)
  BY DEF RetryFailed
<1> DEFINE k == retrier.row.row
           attempt == retrier.row.attempt + 1
<1>3. retrier \in Retriers /\ k \in DOMAIN rows /\ rows[k] \in Rows BY <1>1, <1>2, RetrierBusy
<1>4. rows' = [rows EXCEPT ![k].attempt = attempt, ![k].due = FALSE] BY DEF RetryFailed, BackOff
<1> HIDE DEF k, attempt
<1>5. DOMAIN rows' = DOMAIN rows /\ \A i \in DOMAIN rows : rows'[i].delivered = rows[i].delivered
  <2>1. rows'[k] = [rows[k] EXCEPT !.attempt = attempt, !.due = FALSE] BY <1>1, <1>3, <1>4 DEF Typed
  <2>2. DOMAIN rows' = DOMAIN rows /\ \A i \in DOMAIN rows : i # k => rows'[i] = rows[i]
    BY <1>1, <1>4 DEF Typed
  <2>3. rows'[k].delivered = rows[k].delivered BY <1>3, <2>1 DEF Rows
  <2> QED BY <2>2, <2>3
<1>6. retrier'.at # "called" BY <1>2, <1>3 DEF Retriers, NextRow, Idle
<1> QED BY <1>2, <1>5, <1>6, RowNoted

LEMMA ComeDueTraced ==
  ASSUME Sound, Sound', RowsStay, Traced, NEW k \in DOMAIN rows, ComeDue(k)
  PROVE  Traced'
<1>1. Typed /\ rows[k] \in Rows BY DEF Sound, Typed
<1>2. rows' = [rows EXCEPT ![k].due = TRUE] /\ UNCHANGED <<jobs, worker, retrier, seen, spent>>
  BY DEF ComeDue
<1>3. DOMAIN rows' = DOMAIN rows /\ \A i \in DOMAIN rows : rows'[i].delivered = rows[i].delivered
  BY <1>1, <1>2 DEF Typed, Rows
<1> QED BY <1>2, <1>3, RowNoted

LEMMA EscalateTraced ==
  ASSUME Sound, Sound', RowsStay, Traced, Escalate
  PROVE  Traced'
<1>1. Typed /\ InLog /\ Typed' BY DEF Sound
<1>2. UNCHANGED <<rows, worker>> /\ retrier.at = "exhausted" /\ NextRow BY DEF Escalate
<1>0. PICK h, p : h = hooks[Hook].fallback /\ p = rows[retrier.row.row].payload OBVIOUS
<1> DEFINE new == Job(h, p, None)
<1>3. /\ jobs' = jobs \cup {new}
      /\ spent' = [spent EXCEPT !.jobs = @ + 1]
      /\ seen' = [seen EXCEPT !.queued = @ \cup {<<h, p>>}]
  BY <1>0 DEF Escalate, Send
<1>4. new.hook = h /\ new.payload = p /\ new.row = None /\ new.tries = 0 BY DEF Job
<1> HIDE DEF new
<1>5. /\ seen'.got = seen.got /\ seen'.dropped = seen.dropped /\ spent'.faults = spent.faults
      /\ seen'.queued = seen.queued \cup {<<h, p>>} /\ spent.faults \in Nat
  BY <1>1, <1>3 DEF Typed, Notes, Bounds
<1>6. Grows BY <1>5 DEF Grows
<1>7. JobsOwned' BY <1>1, <1>3, <1>4, <1>6, JobsTraced
<1>8. QueuedTraced'
  <2>1. \A j \in jobs : Awaited(j.hook, j.payload)' BY <1>3 DEF Awaited
  <2>2. Awaited(h, p)' BY <1>3, <1>4 DEF Awaited
  <2>3. \A q \in seen'.queued : q \in seen.queued \/ Awaited(q[1], q[2])' BY <1>5, <2>2
  <2> QED BY <1>6, <2>1, <2>3, QueueTraced
<1>9. DeliveredReceived' BY <1>2, <1>6, RowsTraced
<1>10. WorkerHonest' BY <1>2, <1>3, <1>6, WorkerStays
<1>11. retrier'.at # "called"
  <2>1. retrier \in Retriers BY <1>1, <1>2, RetrierBusy
  <2> QED BY <1>2, <2>1 DEF NextRow, Retriers, Idle
<1>12. RetrierHonest' BY <1>1, <1>6, <1>11, RetrierStays
<1> QED BY <1>7, <1>8, <1>9, <1>10, <1>12 DEF Traced

LEMMA ReplayTraced ==
  ASSUME Sound, Sound', RowsStay, Traced, NEW i \in DOMAIN rows, ReplayWebhookDelivery(i)
  PROVE  Traced'
<1>1. Typed /\ InLog /\ Typed' /\ rows[i] \in Rows /\ i \in Nat BY DEF Sound, Typed
<1> DEFINE n == Len(rows) + 1
           row == NewRow(rows[i].hook, rows[i].payload, TRUE, "pending", i)
           new == Job(rows[i].hook, rows[i].payload, n)
<1>2. /\ jobs' = jobs \cup {new} /\ rows' = Append(rows, row)
      /\ UNCHANGED <<worker, retrier, seen>> /\ spent'.faults = spent.faults
  BY <1>1 DEF ReplayWebhookDelivery, Typed, Bounds
<1>3. row \in Rows /\ ~row.delivered /\ row.hook = new.hook /\ row.payload = new.payload
      /\ new.row = n /\ new.tries = 0
  BY <1>1 DEF NewRow, Rows, Statuses, Job
<1> HIDE DEF row, new
<1>4. /\ DOMAIN rows' = DOMAIN rows \cup {n} /\ rows'[n] = row /\ n \notin DOMAIN rows
      /\ \A k \in DOMAIN rows : rows'[k] = rows[k]
  BY <1>1, <1>2, <1>3, RowAdded
<1> HIDE DEF n
<1>5. spent.faults \in Nat BY <1>1 DEF Typed, Bounds
<1>6. Grows BY <1>2, <1>5 DEF Grows
<1>7. JobsOwned' BY <1>1, <1>2, <1>3, <1>4, <1>6, JobsTraced
<1>8. \A j \in jobs : Awaited(j.hook, j.payload)' BY <1>2 DEF Awaited
<1>9. QueuedTraced' BY <1>2, <1>6, <1>8, QueueTraced
<1>10. DeliveredReceived' BY <1>3, <1>4, <1>6, RowsTraced
<1>11. WorkerHonest' BY <1>2, <1>6, WorkerStays
<1>12. RetrierHonest' BY <1>1, <1>2, <1>6, RetrierStays
<1> QED BY <1>7, <1>9, <1>10, <1>11, <1>12 DEF Traced

\* A process that dies may cost a job its last attempt, but then a failure of it
\* is in the log: it died fewer times than a job is handed out.
LEMMA CrashTraced ==
  ASSUME Sound, Sound', RowsStay, Traced, Crash
  PROVE  Traced'
<1>1. Typed /\ InLog /\ Typed' BY DEF Sound
<1>2. /\ UNCHANGED <<rows, seen>> /\ worker' = Idle /\ retrier' = Idle
      /\ spent'.faults = spent.faults + 1 /\ spent.faults < RetryLimit
  BY <1>1, FaultSpends DEF Crash, Fault
<1>3. spent.faults \in Nat /\ RetryLimit \in Nat BY <1>1, WebhookAssumption DEF Typed, Bounds
<1>4. Grows BY <1>2, <1>3 DEF Grows
<1>5. WorkerHonest' /\ RetrierHonest' BY <1>2 DEF WorkerHonest, RetrierHonest, Idle
<1>6. DeliveredReceived' BY <1>2, <1>4, RowsTraced
<1>7. CASE worker = Idle
  <2>1. jobs' = jobs BY <1>7 DEF Crash
  <2> QED BY <1>1, <1>2, <1>4, <1>5, <2>1, Unmoved DEF Traced
<1>8. CASE worker # Idle
  <2>1. PICK j \in jobs : JobThrows(j) /\ j \in Jobs
    BY <1>1, <1>8, WorkerBusy DEF Crash, Traced, WorkerHonest
  <2>2. j.tries <= spent.faults \/ Logged(j.hook, j.payload) BY <2>1 DEF Traced, JobsOwned
  <2>3. j.tries \in Nat BY <2>1 DEF Jobs
  <2> DEFINE again == [j EXCEPT !.tries = @ + 1]
  <2>4. /\ again.hook = j.hook /\ again.payload = j.payload /\ again.row = j.row
        /\ again.tries = j.tries + 1
    BY <2>1 DEF Jobs
  <2>5. jobs' = (jobs \ {j}) \cup (IF j.tries < RetryLimit THEN {again} ELSE {})
    BY <2>1 DEF JobThrows
  <2> HIDE DEF again
  <2>6. again.tries <= spent'.faults \/ Logged(j.hook, j.payload)'
    <3>1. CASE j.tries <= spent.faults BY <1>2, <1>3, <2>3, <2>4, <3>1
    <3> QED BY <1>4, <2>2, <3>1, SettledStays
  <2>7. JobsOwned' BY <1>1, <1>4, <2>1, <2>4, <2>5, <2>6, JobsTraced
  <2>8. Settled(j.hook, j.payload)' \/ again \in jobs'
    <3>1. CASE j.tries <= spent.faults BY <1>2, <1>3, <2>3, <2>5, <3>1
    <3>2. CASE Logged(j.hook, j.payload) BY <1>4, <3>2, SettledStays DEF Settled
    <3> QED BY <2>2, <3>1, <3>2
  <2>9. \A k \in jobs : Settled(k.hook, k.payload)' \/ Awaited(k.hook, k.payload)'
    BY <2>4, <2>5, <2>8 DEF Awaited
  <2>10. QueuedTraced' BY <1>2, <1>4, <2>9, QueueTraced
  <2> QED BY <1>5, <1>6, <2>7, <2>10 DEF Traced
<1> QED BY <1>7, <1>8

\* The steps about endpoints, settings and time.
LEMMA OthersTraced ==
  ASSUME Sound, Sound', Traced,
         \/ UNCHANGED vars \/ Notify \/ ChooseEndpoints \/ NewHour \/ RedisFails
         \/ \E h \in Hooks : \/ \E on \in BOOLEAN : BulkToggleWebhooks(h, on)
                             \/ DeleteWebhook(h) \/ ResetWebhookCircuit(h) \/ RotateWebhookSecret(h)
         \/ \E on \in BOOLEAN : \/ SetGlobalOptOut(on)
                                \/ \E vault \in {None, 1} : UpsertPreferences("webhook", vault, on)
  PROVE  Traced'
<1>1. Typed BY DEF Sound
<1>2. UNCHANGED <<rows, jobs, worker, retrier>>
  BY DEF vars, Notify, ChooseEndpoints, NewHour, RedisFails, BulkToggleWebhooks, DeleteWebhook,
         ResetWebhookCircuit, RotateWebhookSecret, SetGlobalOptOut, UpsertPreferences
<1>3. seen \in Notes /\ spent \in Bounds BY <1>1 DEF Typed
<1>4. seen'.got = seen.got /\ seen'.dropped = seen.dropped /\ seen'.queued = seen.queued
  <2>1. \/ seen' = seen
        \/ \E h \in Hooks : ResetWebhookCircuit(h) \/ RotateWebhookSecret(h)
    BY DEF vars, Notify, ChooseEndpoints, NewHour, RedisFails, BulkToggleWebhooks, DeleteWebhook,
           SetGlobalOptOut, UpsertPreferences
  <2> QED BY <1>3, <2>1 DEF ResetWebhookCircuit, RotateWebhookSecret, Notes
<1>5. spent.faults <= spent'.faults
  <2>1. spent.faults \in Nat BY <1>3 DEF Bounds
  <2>2. \/ spent' = spent \/ Notify \/ (\E kind : Admin(kind)) \/ RedisFails
    BY DEF vars, ChooseEndpoints, NewHour, BulkToggleWebhooks, DeleteWebhook,
           ResetWebhookCircuit, RotateWebhookSecret, SetGlobalOptOut, UpsertPreferences
  <2>3. spent'.faults = spent.faults \/ spent'.faults = spent.faults + 1
    BY <1>3, <2>2 DEF Notify, Admin, RedisFails, Fault, Bounds
  <2> QED BY <2>1, <2>3
<1> QED BY <1>2, <1>4, <1>5, TraceUntouched

\* What was queued for an endpoint stays accounted for, in any order of jobs,
\* retries, replays and crashes, as long as the process dies fewer times than a
\* job is handed out (processWebhookDelivery, processRetries, recordFailure).
THEOREM QueuedNeverLost == Spec => []NothingLost
<1>1. Init => Traced
  BY DEF Init, Traced, WorkerHonest, RetrierHonest, JobsOwned, DeliveredReceived, QueuedTraced, Idle
<1>2. Sound /\ Sound' /\ Traced /\ [Next]_vars => Traced'
  <2> SUFFICES ASSUME Sound, Sound', Traced, [Next]_vars PROVE Traced' OBVIOUS
  <2>1. RowsStay BY StepTyped DEF Sound
  <2>2. CASE WorkerStep
    BY <2>1, <2>2, TakeTraced, DeliverTraced, NoteHookTraced, NoteRowTraced DEF WorkerStep
  <2>3. CASE RetrierStep
    BY <2>1, <2>3, RetrierQuiet, RetryTraced, RetryDeliveredTraced, RetryFailedTraced, EscalateTraced
    DEF RetrierStep
  <2>4. CASE Operator BY <2>1, <2>4, OthersTraced, ReplayTraced DEF Operator
  <2>5. CASE UNCHANGED vars BY <2>5, OthersTraced
  <2> QED BY <2>1, <2>2, <2>3, <2>4, <2>5, OthersTraced, EnqueueTraced, ComeDueTraced, CrashTraced
    DEF Next
<1>3. Sound /\ Traced => NothingLost
  <2> SUFFICES ASSUME Sound, Traced, NEW q \in seen.queued
               PROVE  \/ q \in seen.got \/ q \in seen.dropped
                      \/ \E j \in jobs : <<j.hook, j.payload>> = q
                      \/ \E i \in DOMAIN rows :
                           <<rows[i].hook, rows[i].payload>> = q /\ ~rows[i].delivered
    BY DEF NothingLost
  <2>1. q = <<q[1], q[2]>> BY DEF Sound, Typed, Notes
  <2>2. Settled(q[1], q[2]) \/ Awaited(q[1], q[2]) BY DEF Traced, QueuedTraced
  <2>3. CASE Logged(q[1], q[2])
    <3>1. PICK i \in DOMAIN rows : rows[i].hook = q[1] /\ rows[i].payload = q[2]
      BY <2>3 DEF Logged
    <3>2. rows[i].delivered => q \in seen.got BY <2>1, <3>1 DEF Traced, DeliveredReceived
    <3> QED BY <2>1, <3>1, <3>2
  <2> QED BY <2>1, <2>2, <2>3 DEF Settled, Awaited
<1> QED BY <1>1, <1>2, <1>3, SoundAlways, PTL DEF Spec
-----------------------------------------------------------------------------
(* Calls of an open circuit *)

WorkerReady(h) == IF worker.at = "read" /\ worker.job.hook = h THEN 1 ELSE 0
RetrierReady(h) == IF retrier.at = "read" /\ Hook = h THEN 1 ELSE 0
TwoAtMost ==
  \A h \in Hooks :
    IF hooks[h].open THEN seen.sinceOpen[h] + WorkerReady(h) + RetrierReady(h) <= 2
    ELSE seen.sinceOpen[h] = 0

\* What the retrier has in hand is of the same endpoint after every step.
LEMMA SameHook ==
  ASSUME Typed, InLog, RowsStay, retrier.at \notin {"idle", "next"}, retrier'.row = retrier.row
  PROVE  Hook' = Hook
<1>1. retrier.row.row \in DOMAIN rows BY RetrierBusy
<1> QED BY <1>1 DEF Hook, RowsStay

\* Who is about to call: nobody more than before, unless he just looked.
ReadyStays ==
  \A h \in Hooks : /\ WorkerReady(h)' <= WorkerReady(h)
                   /\ RetrierReady(h)' <= RetrierReady(h)

LEMMA ReadyTypes ==
  \A h : WorkerReady(h) \in 0..1 /\ RetrierReady(h) \in 0..1
BY DEF WorkerReady, RetrierReady

LEMMA WorkerReadyStays ==
  ASSUME worker' = worker \/ worker'.at # "read"
  PROVE  \A h \in Hooks : WorkerReady(h)' <= WorkerReady(h)
BY ReadyTypes DEF WorkerReady

LEMMA RetrierReadyStays ==
  ASSUME Typed, InLog, RowsStay, retrier' = retrier \/ retrier'.at # "read"
  PROVE  \A h \in Hooks : RetrierReady(h)' <= RetrierReady(h)
<1> SUFFICES ASSUME NEW h \in Hooks PROVE RetrierReady(h)' <= RetrierReady(h) OBVIOUS
<1>1. CASE retrier'.at # "read" BY <1>1, ReadyTypes DEF RetrierReady
<1>2. CASE retrier' = retrier /\ retrier'.at = "read"
  <2>1. Hook' = Hook BY <1>2, SameHook
  <2> QED BY <1>2, <2>1 DEF RetrierReady
<1> QED BY <1>1, <1>2

\* Nobody is about to call who was not, and no call is made: circuits may open,
\* and those that close forget their count.
LEMMA NoCall ==
  ASSUME Sound, Sound', TwoAtMost, ReadyStays,
         \A h \in Hooks : \/ seen'.sinceOpen[h] = 0
                          \/ /\ seen'.sinceOpen[h] = seen.sinceOpen[h]
                             /\ hooks[h].open => hooks'[h].open
  PROVE  TwoAtMost'
<1> SUFFICES ASSUME NEW h \in Hooks
             PROVE  IF hooks'[h].open
                    THEN seen'.sinceOpen[h] + WorkerReady(h)' + RetrierReady(h)' <= 2
                    ELSE seen'.sinceOpen[h] = 0
  BY DEF TwoAtMost
<1>1. seen.sinceOpen[h] \in Nat /\ seen'.sinceOpen[h] \in Nat BY DEF Sound, Typed, Notes
<1>2. /\ WorkerReady(h) \in 0..1 /\ RetrierReady(h) \in 0..1
      /\ WorkerReady(h)' \in 0..1 /\ RetrierReady(h)' \in 0..1
  BY ReadyTypes DEF WorkerReady, RetrierReady
<1>3. WorkerReady(h)' <= WorkerReady(h) /\ RetrierReady(h)' <= RetrierReady(h) BY DEF ReadyStays
<1>4. IF hooks[h].open THEN seen.sinceOpen[h] + WorkerReady(h) + RetrierReady(h) <= 2
      ELSE seen.sinceOpen[h] = 0
  BY DEF TwoAtMost
<1> QED BY <1>1, <1>2, <1>3, <1>4

\* A call of endpoint h by one of the two who had looked at it.
LEMMA OneCall ==
  ASSUME Sound, Sound', TwoAtMost, NEW h \in Hooks, hooks' = hooks,
         \/ seen'.sinceOpen = seen.sinceOpen
         \/ seen'.sinceOpen = [seen.sinceOpen EXCEPT ![h] = IF hooks[h].open THEN @ + 1 ELSE 0],
         ReadyStays,
         WorkerReady(h)' + RetrierReady(h)' + 1 <= WorkerReady(h) + RetrierReady(h)
  PROVE  TwoAtMost'
<1> SUFFICES ASSUME NEW k \in Hooks
             PROVE  IF hooks'[k].open
                    THEN seen'.sinceOpen[k] + WorkerReady(k)' + RetrierReady(k)' <= 2
                    ELSE seen'.sinceOpen[k] = 0
  BY DEF TwoAtMost
<1>1. seen.sinceOpen \in [Hooks -> Nat] /\ seen.sinceOpen[k] \in Nat BY DEF Sound, Typed, Notes
<1>2. /\ WorkerReady(k) \in 0..1 /\ RetrierReady(k) \in 0..1
      /\ WorkerReady(k)' \in 0..1 /\ RetrierReady(k)' \in 0..1
  BY ReadyTypes DEF WorkerReady, RetrierReady
<1>3. WorkerReady(k)' <= WorkerReady(k) /\ RetrierReady(k)' <= RetrierReady(k) BY DEF ReadyStays
<1>4. IF hooks[k].open THEN seen.sinceOpen[k] + WorkerReady(k) + RetrierReady(k) <= 2
      ELSE seen.sinceOpen[k] = 0
  BY DEF TwoAtMost
<1>5. \/ seen'.sinceOpen[k] = seen.sinceOpen[k]
      \/ k = h /\ seen'.sinceOpen[k] = IF hooks[k].open THEN seen.sinceOpen[k] + 1 ELSE 0
  BY <1>1
<1> QED BY <1>1, <1>2, <1>3, <1>4, <1>5

LEMMA WorkerTwo ==
  ASSUME Sound, Sound', RowsStay, TwoAtMost, WorkerStep
  PROVE  TwoAtMost'
<1>1. Typed /\ InLog /\ retrier' = retrier /\ seen \in Notes
  BY DEF Sound, Typed, WorkerStep, TakeJob, Deliver, NoteHook, NoteRow
<1>2. \A h \in Hooks : RetrierReady(h)' <= RetrierReady(h) BY <1>1, RetrierReadyStays
<1>3. CASE TakeJob
  <2>1. hooks' = hooks BY <1>3 DEF TakeJob
  <2>2. PICK j \in jobs :
          \/ worker' = Idle /\ seen' = Drop(j.hook, j.payload)
          \/ /\ ~hooks[j.hook].open /\ seen' = seen
             /\ worker' = [at |-> "read", job |-> j, snap |-> hooks[j.hook], answer |-> "none"]
    BY <1>3 DEF TakeJob
  <2>3. seen'.sinceOpen = seen.sinceOpen BY <1>1, <2>2 DEF Drop, Notes
  <2>4. CASE worker' = Idle
    <3>1. \A h \in Hooks : WorkerReady(h)' <= WorkerReady(h) BY <2>4, WorkerReadyStays DEF Idle
    <3> QED BY <1>2, <2>1, <2>3, <3>1, NoCall DEF ReadyStays
  <2>5. CASE /\ ~hooks[j.hook].open
             /\ worker' = [at |-> "read", job |-> j, snap |-> hooks[j.hook], answer |-> "none"]
    <3> SUFFICES ASSUME NEW h \in Hooks
                 PROVE  IF hooks'[h].open
                        THEN seen'.sinceOpen[h] + WorkerReady(h)' + RetrierReady(h)' <= 2
                        ELSE seen'.sinceOpen[h] = 0
      BY DEF TwoAtMost
    <3>1. hooks[h].open => WorkerReady(h)' = 0 BY <2>5 DEF WorkerReady
    <3>2. seen.sinceOpen[h] \in Nat BY <1>1 DEF Notes
    <3>3. WorkerReady(h) \in 0..1 /\ RetrierReady(h) \in 0..1 /\ RetrierReady(h)' \in 0..1
      BY ReadyTypes DEF RetrierReady
    <3>4. IF hooks[h].open THEN seen.sinceOpen[h] + WorkerReady(h) + RetrierReady(h) <= 2
          ELSE seen.sinceOpen[h] = 0
      BY DEF TwoAtMost
    <3>5. RetrierReady(h)' <= RetrierReady(h) BY <1>2
    <3> QED BY <2>1, <2>3, <3>1, <3>2, <3>3, <3>4, <3>5
  <2> QED BY <2>2, <2>4, <2>5
<1>4. CASE Deliver
  <2>1. hooks' = hooks /\ worker.at = "read" BY <1>4 DEF Deliver
  <2>2. worker # Idle BY <2>1 DEF Idle
  <2>3. worker \in Workers /\ worker.job.hook \in Hooks /\ worker.job.payload \in Nat
    BY <1>1, <2>2, WorkerBusy
  <2>4. \/ worker' = Idle /\ seen' = Drop(worker.job.hook, worker.job.payload)
        \/ \E answer \in Answers(worker.job.hook) :
              /\ worker' = [worker EXCEPT !.at = "called", !.answer = answer]
              /\ seen' = Called(worker.job.hook, worker.job.payload, answer, worker.snap)
    BY <1>4 DEF Deliver
  <2>5. worker'.at # "read"
    <3>1. CASE worker' = Idle BY <3>1 DEF Idle
    <3>2. ASSUME NEW answer, worker' = [worker EXCEPT !.at = "called", !.answer = answer]
          PROVE  worker'.at # "read"
      BY <2>3, <3>2 DEF Workers
    <3> QED BY <2>4, <3>1, <3>2
  <2>6. ReadyStays BY <1>2, <2>5, WorkerReadyStays DEF ReadyStays
  <2>7. CASE worker' = Idle /\ seen' = Drop(worker.job.hook, worker.job.payload)
    <3>1. seen'.sinceOpen = seen.sinceOpen BY <1>1, <2>7 DEF Drop, Notes
    <3> QED BY <2>1, <2>6, <3>1, NoCall
  <2>8. ASSUME NEW answer \in Answers(worker.job.hook),
               seen' = Called(worker.job.hook, worker.job.payload, answer, worker.snap)
        PROVE  TwoAtMost'
    <3>1. PICK h \in Hooks : h = worker.job.hook BY <2>3
    <3>2. \/ seen'.sinceOpen = seen.sinceOpen
          \/ seen'.sinceOpen = [seen.sinceOpen EXCEPT ![h] = IF hooks[h].open THEN @ + 1 ELSE 0]
      BY <1>1, <2>3, <2>8, <3>1, CalledAdds
    <3>3. WorkerReady(h) = 1 /\ WorkerReady(h)' = 0 BY <2>1, <2>5, <3>1 DEF WorkerReady
    <3>4. RetrierReady(h)' <= RetrierReady(h) /\ RetrierReady(h) \in 0..1 /\ RetrierReady(h)' \in 0..1
      BY <1>2, ReadyTypes DEF RetrierReady
    <3>5. WorkerReady(h)' + RetrierReady(h)' + 1 <= WorkerReady(h) + RetrierReady(h)
      BY <3>3, <3>4
    <3> QED BY <2>1, <2>6, <3>2, <3>5, OneCall
  <2> QED BY <2>4, <2>7, <2>8
<1>5. CASE NoteHook
  <2>1. worker.at = "called" /\ seen' = seen /\ worker' = [worker EXCEPT !.at = "noted"]
    BY <1>5 DEF NoteHook
  <2>2. worker # Idle BY <2>1 DEF Idle
  <2>3. worker \in Workers /\ worker.job.hook \in Hooks /\ worker.snap \in Endpoints
    BY <1>1, <2>2, WorkerBusy
  <2>4. \A h \in Hooks : hooks[h].open => hooks'[h].open
    BY <1>1, <1>5, <2>3, FailureRegistered, FailuresCleared DEF NoteHook
  <2>5. worker'.at # "read" BY <2>1, <2>3 DEF Workers
  <2>6. ReadyStays BY <1>2, <2>5, WorkerReadyStays DEF ReadyStays
  <2> QED BY <2>1, <2>4, <2>6, NoCall
<1>6. CASE NoteRow
  <2>1. UNCHANGED <<hooks, seen>> /\ worker' = Idle BY <1>6 DEF NoteRow
  <2>2. ReadyStays BY <1>2, <2>1, WorkerReadyStays DEF ReadyStays, Idle
  <2> QED BY <2>1, <2>2, NoCall
<1> QED BY <1>3, <1>4, <1>5, <1>6 DEF WorkerStep

LEMMA ReadAgainTwo ==
  ASSUME Sound, Sound', RowsStay, TwoAtMost, ReadAgain
  PROVE  TwoAtMost'
<1>1. Typed /\ InLog /\ seen \in Notes BY DEF Sound, Typed
<1>2. retrier.at = "next" /\ UNCHANGED <<hooks, rows, worker, seen>> BY DEF ReadAgain
<1>3. retrier # Idle BY <1>2 DEF Idle
<1>4. retrier \in Retriers BY <1>1, <1>3 DEF Typed
<1>5. PICK r \in retrier.list :
        \/ retrier' = Idle
        \/ retrier' = [retrier EXCEPT !.list = retrier.list \ {r}]
        \/ /\ ~hooks[rows[r.row].hook].open
           /\ retrier' = [retrier EXCEPT !.list = retrier.list \ {r}, !.at = "read", !.row = r,
                                         !.snap = hooks[rows[r.row].hook]]
  BY DEF ReadAgain
<1>6. \A h \in Hooks : WorkerReady(h)' = WorkerReady(h) BY <1>2 DEF WorkerReady
<1> DEFINE rest == retrier.list \ {r}
           snap == hooks[rows[r.row].hook]
<1>7. ~hooks[rows[r.row].hook].open => ~snap.open OBVIOUS
<1> HIDE DEF rest, snap
<1>8. \A h \in Hooks : hooks[h].open => RetrierReady(h)' = 0
  <2>1. CASE retrier' = Idle BY <2>1 DEF Idle, RetrierReady
  <2>2. CASE retrier' = [retrier EXCEPT !.list = rest]
    <3>1. retrier'.at = "next" BY <1>2, <1>4, <2>2 DEF Retriers
    <3> QED BY <3>1 DEF RetrierReady
  <2>3. CASE /\ ~hooks[rows[r.row].hook].open
             /\ retrier' = [retrier EXCEPT !.list = rest, !.at = "read", !.row = r, !.snap = snap]
    <3>1. retrier'.row = r BY <1>4, <2>3 DEF Retriers
    <3>2. Hook' = rows[r.row].hook BY <1>2, <3>1 DEF Hook
    <3> QED BY <2>3, <3>2 DEF RetrierReady
  <2> QED BY <1>5, <2>1, <2>2, <2>3 DEF rest, snap
<1> SUFFICES ASSUME NEW h \in Hooks
             PROVE  IF hooks'[h].open
                    THEN seen'.sinceOpen[h] + WorkerReady(h)' + RetrierReady(h)' <= 2
                    ELSE seen'.sinceOpen[h] = 0
  BY DEF TwoAtMost
<1>9. seen.sinceOpen[h] \in Nat BY <1>1 DEF Notes
<1>10. WorkerReady(h) \in 0..1 /\ RetrierReady(h) \in 0..1 BY ReadyTypes
<1>11. IF hooks[h].open THEN seen.sinceOpen[h] + WorkerReady(h) + RetrierReady(h) <= 2
       ELSE seen.sinceOpen[h] = 0
  BY DEF TwoAtMost
<1> QED BY <1>2, <1>6, <1>8, <1>9, <1>10, <1>11

LEMMA RetrierTwo ==
  ASSUME Sound, Sound', RowsStay, TwoAtMost, RetrierStep
  PROVE  TwoAtMost'
<1>1. Typed /\ InLog /\ worker' = worker /\ seen \in Notes
  BY DEF Sound, Typed, RetrierStep, Scan, ReadAgain, Retry, RetryDelivered, RetryClears,
         RegisterRetryFailure, RetryFailed, Escalate
<1>2. \A h \in Hooks : WorkerReady(h)' <= WorkerReady(h) BY <1>1, WorkerReadyStays
<1>3. CASE Scan
  <2>1. seen' = seen /\ retrier'.at # "read" BY <1>3 DEF Scan, Idle
  <2>2. \A h \in Hooks : hooks'[h].open = hooks[h].open BY <1>1, <1>3, SecretsPurged DEF Scan
  <2>3. ReadyStays BY <1>1, <1>2, <2>1, RetrierReadyStays DEF ReadyStays
  <2> QED BY <2>1, <2>2, <2>3, NoCall
<1>4. CASE Retry
  <2>1. hooks' = hooks /\ retrier.at = "read" BY <1>4 DEF Retry
  <2>2. retrier \in Retriers /\ Hook \in Hooks /\ rows[retrier.row.row].payload \in Nat
    BY <1>1, <2>1, RetrierBusy
  <2>3. PICK answer \in Answers(Hook) :
          /\ retrier' = [retrier EXCEPT !.at = "called", !.answer = answer]
          /\ seen' = Called(Hook, rows[retrier.row.row].payload, answer, retrier.snap)
    BY <1>4 DEF Retry
  <2>4. PICK h \in Hooks : h = Hook BY <2>2
  <2>5. \/ seen'.sinceOpen = seen.sinceOpen
        \/ seen'.sinceOpen = [seen.sinceOpen EXCEPT ![h] = IF hooks[h].open THEN @ + 1 ELSE 0]
    BY <1>1, <2>2, <2>3, <2>4, CalledAdds
  <2>6. retrier'.at # "read" BY <2>2, <2>3 DEF Retriers
  <2>7. ReadyStays BY <1>1, <1>2, <2>6, RetrierReadyStays DEF ReadyStays
  <2>8. RetrierReady(h) = 1 /\ RetrierReady(h)' = 0 BY <2>1, <2>4, <2>6 DEF RetrierReady
  <2>9. WorkerReady(h)' <= WorkerReady(h) /\ WorkerReady(h) \in 0..1 /\ WorkerReady(h)' \in 0..1
    BY <1>2, ReadyTypes DEF WorkerReady
  <2>10. WorkerReady(h)' + RetrierReady(h)' + 1 <= WorkerReady(h) + RetrierReady(h)
    BY <2>8, <2>9
  <2> QED BY <2>1, <2>5, <2>7, <2>10, OneCall
<1>5. CASE RetryDelivered \/ RetryClears \/ RegisterRetryFailure \/ RetryFailed \/ Escalate
  <2>1. retrier.at \notin {"idle", "next"}
    BY <1>5 DEF RetryDelivered, RetryClears, RegisterRetryFailure, RetryFailed, Escalate
  <2>2. retrier \in Retriers /\ Hook \in Hooks /\ retrier.snap \in Endpoints
    BY <1>1, <2>1, RetrierBusy
  <2>3. retrier'.at # "read"
    <3>1. \/ NextRow \/ \E at \in {"delivered", "counted", "exhausted"} : retrier' = [retrier EXCEPT !.at = at]
      BY <1>5 DEF RetryDelivered, RetryClears, RegisterRetryFailure, RetryFailed, Escalate
    <3> QED BY <2>2, <3>1 DEF NextRow, Retriers, Idle
  <2>4. seen'.sinceOpen = seen.sinceOpen
    BY <1>1, <1>5
    DEF RetryDelivered, RetryClears, RegisterRetryFailure, RetryFailed, Escalate, Notes
  <2>5. \A h \in Hooks : hooks[h].open => hooks'[h].open
    <3>1. CASE UNCHANGED hooks BY <3>1
    <3>2. CASE RetryClears BY <1>1, <2>2, <3>2, FailuresCleared DEF RetryClears
    <3>3. CASE RegisterRetryFailure BY <1>1, <2>2, <3>3, FailureRegistered DEF RegisterRetryFailure
    <3> QED BY <1>5, <3>1, <3>2, <3>3 DEF RetryDelivered, RetryFailed, Escalate
  <2>6. ReadyStays BY <1>1, <1>2, <2>3, RetrierReadyStays DEF ReadyStays
  <2> QED BY <2>4, <2>5, <2>6, NoCall
<1> QED BY <1>3, <1>4, <1>5, ReadAgainTwo DEF RetrierStep

LEMMA OthersTwo ==
  ASSUME Sound, Sound', RowsStay, TwoAtMost,
         \/ UNCHANGED vars \/ Notify \/ ChooseEndpoints \/ EnqueueTier \/ Operator
         \/ (\E i \in DOMAIN rows : ComeDue(i)) \/ NewHour \/ RedisFails \/ Crash
  PROVE  TwoAtMost'
<1>1. Typed /\ InLog /\ seen \in Notes /\ hooks \in [Hooks -> Endpoints] BY DEF Sound, Typed
<1>2. (worker' = worker /\ retrier' = retrier) \/ (worker' = Idle /\ retrier' = Idle)
  BY DEF vars, Notify, ChooseEndpoints, EnqueueTier, Operator, BulkToggleWebhooks, DeleteWebhook,
         SetGlobalOptOut, UpsertPreferences, ResetWebhookCircuit, RotateWebhookSecret,
         ReplayWebhookDelivery, ComeDue, NewHour, RedisFails, Crash
<1>3. ReadyStays BY <1>1, <1>2, WorkerReadyStays, RetrierReadyStays DEF ReadyStays, Idle
<1>4. CASE hooks' = hooks /\ seen'.sinceOpen = seen.sinceOpen BY <1>3, <1>4, NoCall
<1>5. ASSUME NEW h \in Hooks, ResetWebhookCircuit(h) PROVE TwoAtMost'
  <2>1. /\ hooks' = [hooks EXCEPT ![h].open = FALSE, ![h].failures = 0]
        /\ seen' = [seen EXCEPT !.sinceOpen[h] = 0]
    BY <1>5 DEF ResetWebhookCircuit
  <2>2. \A k \in Hooks : \/ k = h /\ seen'.sinceOpen[k] = 0
                         \/ seen'.sinceOpen[k] = seen.sinceOpen[k] /\ hooks'[k] = hooks[k]
    BY <1>1, <2>1 DEF Notes
  <2> QED BY <1>3, <2>2, NoCall
<1>6. ASSUME NEW h \in Hooks, NEW on \in BOOLEAN,
             BulkToggleWebhooks(h, on) \/ DeleteWebhook(h) \/ RotateWebhookSecret(h)
      PROVE  TwoAtMost'
  <2>1. seen'.sinceOpen = seen.sinceOpen
    BY <1>1, <1>6 DEF BulkToggleWebhooks, DeleteWebhook, RotateWebhookSecret, Notes
  <2>2. \A k \in Hooks : hooks'[k].open = hooks[k].open
    <3>1. hooks[h] \in Endpoints BY <1>1
    <3>2. CASE BulkToggleWebhooks(h, on) BY <1>1, <3>1, <3>2 DEF BulkToggleWebhooks, Endpoints
    <3>3. CASE DeleteWebhook(h) BY <1>1, <3>1, <3>3 DEF DeleteWebhook, Endpoints
    <3>4. CASE RotateWebhookSecret(h) BY <1>1, <3>1, <3>4 DEF RotateWebhookSecret, Endpoints
    <3> QED BY <1>6, <3>2, <3>3, <3>4
  <2> QED BY <1>3, <2>1, <2>2, NoCall
<1>7. CASE Operator
  BY <1>4, <1>5, <1>6, <1>7
  DEF Operator, SetGlobalOptOut, UpsertPreferences, ReplayWebhookDelivery
<1>8. CASE EnqueueTier
  <2>1. hooks' = hooks /\ seen'.sinceOpen = seen.sinceOpen BY <1>1, <1>8 DEF EnqueueTier, Notes
  <2> QED BY <1>4, <2>1
<1> QED BY <1>4, <1>7, <1>8 DEF vars, Notify, ChooseEndpoints, ComeDue, NewHour, RedisFails, Crash

\* An open circuit lets through at most the two calls whose endpoint was read
\* before it opened, the worker's and the retrier's (processWebhookDelivery,
\* processRetries), however many jobs, due rows and replays there are.
THEOREM OpenCircuitHolds == Spec => []CircuitHolds
<1>1. Init => TwoAtMost
  <2> SUFFICES ASSUME Init PROVE TwoAtMost OBVIOUS
  <2>1. \A h \in Hooks : ~hooks[h].open /\ seen.sinceOpen[h] = 0 BY DEF Init
  <2> QED BY <2>1 DEF TwoAtMost
<1>2. Sound /\ Sound' /\ TwoAtMost /\ [Next]_vars => TwoAtMost'
  <2> SUFFICES ASSUME Sound, Sound', TwoAtMost, [Next]_vars PROVE TwoAtMost' OBVIOUS
  <2>1. RowsStay BY StepTyped DEF Sound
  <2> QED BY <2>1, WorkerTwo, RetrierTwo, OthersTwo DEF Next
<1>3. Sound /\ TwoAtMost => CircuitHolds
  <2> SUFFICES ASSUME Sound, TwoAtMost, NEW h \in Hooks, hooks[h].open
               PROVE  seen.sinceOpen[h] <= 2
    BY DEF CircuitHolds
  <2>1. seen.sinceOpen[h] \in Nat BY DEF Sound, Typed, Notes
  <2>2. WorkerReady(h) \in 0..1 /\ RetrierReady(h) \in 0..1 BY ReadyTypes
  <2>3. seen.sinceOpen[h] + WorkerReady(h) + RetrierReady(h) <= 2 BY DEF TwoAtMost
  <2> QED BY <2>1, <2>2, <2>3
<1> QED BY <1>1, <1>2, <1>3, SoundAlways, PTL DEF Spec
-----------------------------------------------------------------------------
(* Secrets *)

\* A copy of an endpoint has the last secret retired before it, if that is still
\* fresh.
Fresh(x) == hour - x[3] < Window
Pushed(x, secret) == \E y \in seen.retired : y[1] = x[1] /\ x[2] < y[2] /\ y[2] < secret
Signs(h, snap) ==
  \A x \in seen.retired : x[1] = h /\ x[2] < snap.secret /\ Fresh(x) /\ ~Pushed(x, snap.secret)
                            => snap.previous = x[2] /\ snap.rotated = x[3]
Retired ==
  \A x \in seen.retired : x[2] # None /\ x[2] < hooks[x[1]].secret /\ x[3] <= hour
Kept ==
  /\ Retired
  /\ \A h \in Hooks : Signs(h, hooks[h])
  /\ worker.at = "read" => Signs(worker.job.hook, worker.snap)
                           /\ worker.snap.secret <= hooks[worker.job.hook].secret
  /\ retrier.at = "read" => Signs(Hook, retrier.snap) /\ retrier.snap.secret <= hooks[Hook].secret
Honoured == RetiredSecretsHonoured /\ Kept

LEMMA RetiredTypes ==
  ASSUME Typed, NEW x \in seen.retired
  PROVE  x[1] \in Hooks /\ x[2] \in Nat /\ x[3] \in Nat /\ hooks[x[1]].secret \in Nat
BY DEF Typed, Notes, Endpoints

\* What a call is not signed with was pushed out inside its window.
LEMMA SignedCall ==
  ASSUME Typed, Retired, NEW h \in Hooks, NEW snap \in Endpoints, Signs(h, snap),
         NEW x \in InTransition(h, snap), x[2] \notin BuildSignatureHeaders(snap)
  PROVE  \E y \in seen.retired : y[1] = x[1] /\ y[2] > x[2] /\ y[3] - x[3] < Window
<1>1. x \in seen.retired /\ x[1] = h /\ x[2] < snap.secret /\ hour - x[3] < Window
  BY DEF InTransition
<1>2. x[2] # None BY <1>1 DEF Retired
<1>3. ~(snap.previous = x[2] /\ snap.rotated = x[3])
  BY <1>1, <1>2 DEF BuildSignatureHeaders, IsWithinRotationWindow
<1>4. Pushed(x, snap.secret) BY <1>1, <1>3 DEF Signs, Fresh
<1>5. PICK y \in seen.retired : y[1] = x[1] /\ x[2] < y[2] BY <1>4 DEF Pushed
<1>6. x[2] \in Nat /\ x[3] \in Nat /\ y[2] \in Nat /\ y[3] \in Nat /\ hour \in Nat /\ y[3] <= hour
  BY <1>1, RetiredTypes DEF Typed, Retired
<1>7. y[3] - x[3] < Window BY <1>1, <1>6, WebhookAssumption
<1> QED BY <1>5, <1>6, <1>7

\* Copies stay good while no secret is retired and time only passes.
LEMMA SignsStays ==
  ASSUME Typed, Typed', hour <= hour', NEW h, NEW snap, seen.retired \subseteq seen'.retired,
         \A x \in seen'.retired : x \in seen.retired \/ ~(x[1] = h /\ x[2] < snap.secret),
         Signs(h, snap)
  PROVE  Signs(h, snap)'
<1> SUFFICES ASSUME NEW x \in seen'.retired, x[1] = h, x[2] < snap.secret, hour' - x[3] < Window,
                    ~\E y \in seen'.retired : y[1] = x[1] /\ x[2] < y[2] /\ y[2] < snap.secret
             PROVE  snap.previous = x[2] /\ snap.rotated = x[3]
  BY DEF Signs, Fresh, Pushed
<1>1. x \in seen.retired OBVIOUS
<1>2. x[3] \in Nat /\ hour \in Nat /\ hour' \in Nat BY <1>1, RetiredTypes DEF Typed
<1>3. hour - x[3] < Window BY <1>2, WebhookAssumption
<1> QED BY <1>1, <1>3 DEF Signs, Fresh, Pushed

\* The copy a worker or retrier holds, and those it may take.
CopiesStay ==
  /\ worker'.at = "read" =>
       \/ worker' = worker
       \/ worker'.snap = hooks[worker'.job.hook] /\ hooks' = hooks
  /\ retrier'.at = "read" =>
       \/ retrier' = retrier
       \/ retrier'.snap = hooks[Hook'] /\ hooks' = hooks

LEMMA KeptStays ==
  ASSUME Sound, Sound', RowsStay, Kept, hour <= hour', CopiesStay,
         seen'.retired = seen.retired,
         \A h \in Hooks : /\ hooks'[h].secret = hooks[h].secret
                          /\ \/ hooks'[h].previous = hooks[h].previous
                                /\ hooks'[h].rotated = hooks[h].rotated
                             \/ hour - hooks[h].rotated >= Window
  PROVE  Kept'
<1>1. Typed /\ InLog /\ Typed' /\ InLog' BY DEF Sound
<1>2. Retired'
  <2> SUFFICES ASSUME NEW x \in seen.retired
               PROVE  x[2] # None /\ x[2] < hooks'[x[1]].secret /\ x[3] <= hour'
    BY DEF Retired
  <2>1. x[1] \in Hooks /\ x[3] \in Nat BY <1>1, RetiredTypes
  <2>2. x[2] # None /\ x[2] < hooks[x[1]].secret /\ x[3] <= hour BY DEF Kept, Retired
  <2>3. hour \in Nat /\ hour' \in Nat BY <1>1 DEF Typed
  <2> QED BY <2>1, <2>2, <2>3
<1>3. ASSUME NEW h \in Hooks PROVE Signs(h, hooks[h])'
  <2> SUFFICES ASSUME NEW x \in seen.retired, x[1] = h, x[2] < hooks[h].secret,
                      hour' - x[3] < Window, ~Pushed(x, hooks[h].secret)
               PROVE  hooks'[h].previous = x[2] /\ hooks'[h].rotated = x[3]
    BY DEF Signs, Fresh, Pushed
  <2>1. x[3] \in Nat /\ hour \in Nat /\ hour' \in Nat BY <1>1, RetiredTypes DEF Typed
  <2>2. hour - x[3] < Window BY <2>1, WebhookAssumption
  <2>3. hooks[h].previous = x[2] /\ hooks[h].rotated = x[3] BY <2>2 DEF Kept, Signs, Fresh
  <2> QED BY <2>1, <2>2, <2>3, WebhookAssumption
<1>4. ASSUME worker'.at = "read"
      PROVE  Signs(worker.job.hook, worker.snap)'
             /\ worker'.snap.secret <= hooks'[worker'.job.hook].secret
  <2>0. worker' # Idle BY <1>4 DEF Idle
  <2>1. worker'.job.hook \in Hooks /\ worker'.snap \in Endpoints
    BY <1>1, <2>0 DEF Typed, Workers, Jobs
  <2>2. CASE worker' = worker
    <3>1. Signs(worker.job.hook, worker.snap)
          /\ worker.snap.secret <= hooks[worker.job.hook].secret
      BY <1>4, <2>2 DEF Kept
    <3>2. PICK h, snap : h = worker.job.hook /\ snap = worker.snap OBVIOUS
    <3>3. Signs(h, snap)' BY <1>1, <3>1, <3>2, SignsStays
    <3> QED BY <2>1, <2>2, <3>1, <3>2, <3>3
  <2>3. CASE worker'.snap = hooks[worker'.job.hook] /\ hooks' = hooks
    <3>1. PICK h \in Hooks : h = worker'.job.hook BY <2>1
    <3>2. Signs(h, hooks[h])' BY <1>3
    <3>3. Signs(worker.job.hook, worker.snap)' BY <2>3, <3>1, <3>2
    <3> QED BY <2>1, <2>3, <3>3 DEF Endpoints
  <2> QED BY <1>4, <2>2, <2>3 DEF CopiesStay
<1>5. ASSUME retrier'.at = "read"
      PROVE  Signs(Hook, retrier.snap)' /\ retrier'.snap.secret <= hooks'[Hook'].secret
  <2>0. retrier' # Idle BY <1>5 DEF Idle
  <2>1. Hook' \in Hooks /\ retrier'.snap \in Endpoints
    <3>1. retrier'.row.row \in DOMAIN rows' BY <1>1, <1>5, <2>0 DEF InLog
    <3>2. rows'[retrier'.row.row] \in Rows BY <1>1, <3>1 DEF Typed
    <3> QED BY <1>1, <1>5, <3>2 DEF Typed, Rows, Hook
  <2>2. CASE retrier' = retrier
    <3>1. Signs(Hook, retrier.snap) /\ retrier.snap.secret <= hooks[Hook].secret
      BY <1>5, <2>2 DEF Kept
    <3>2. PICK h, snap : h = Hook /\ snap = retrier.snap OBVIOUS
    <3>3. Signs(h, snap)' BY <1>1, <3>1, <3>2, SignsStays
    <3>4. Hook' = Hook BY <1>1, <1>5, <2>2, SameHook
    <3> QED BY <2>1, <2>2, <3>1, <3>2, <3>3, <3>4
  <2>3. CASE retrier'.snap = hooks[Hook'] /\ hooks' = hooks
    <3>1. PICK h \in Hooks : h = Hook' BY <2>1
    <3>2. Signs(h, hooks[h])' BY <1>3
    <3>3. Signs(Hook, retrier.snap)' BY <2>3, <3>1, <3>2
    <3> QED BY <2>1, <2>3, <3>3 DEF Endpoints
  <2> QED BY <1>5, <2>2, <2>3 DEF CopiesStay
<1> QED BY <1>2, <1>3, <1>4, <1>5 DEF Kept

LEMMA RotateKept ==
  ASSUME Sound, Sound', RowsStay, Kept, NEW h \in Hooks, RotateWebhookSecret(h)
  PROVE  Kept'
<1>1. Typed /\ InLog /\ Typed' /\ InLog' /\ hooks[h] \in Endpoints /\ hour \in Nat
  BY DEF Sound, Typed
<1> DEFINE secret == hooks[h].secret
<1>2. UNCHANGED <<rows, worker, retrier, hour>> BY DEF RotateWebhookSecret
<1>3. secret \in Nat \ {0} BY <1>1 DEF Endpoints
<1>4. /\ hooks'[h].secret = secret + 1 /\ hooks'[h].previous = secret /\ hooks'[h].rotated = hour
      /\ \A k \in Hooks : k # h => hooks'[k] = hooks[k]
  BY <1>1 DEF RotateWebhookSecret, Typed, Endpoints
<1>5. seen'.retired = seen.retired \cup {<<h, secret, hour>>}
  BY <1>1 DEF RotateWebhookSecret, Typed, Notes
<1>6. ASSUME NEW x \in seen.retired, x[1] = h
      PROVE  \E y \in seen'.retired : y[1] = x[1] /\ x[2] < y[2] /\ y[2] < secret + 1
  <2>1. x[2] < secret BY <1>6 DEF Kept, Retired
  <2>2. <<h, secret, hour>> \in seen'.retired /\ secret < secret + 1 BY <1>3, <1>5
  <2> QED BY <1>6, <2>1, <2>2
<1>7. ASSUME NEW k \in Hooks
      PROVE  hooks[k].secret \in Nat /\ hooks[k].secret <= hooks'[k].secret
  <2>1. hooks[k] \in Endpoints BY <1>1 DEF Typed
  <2>2. hooks[k].secret \in Nat BY <2>1 DEF Endpoints
  <2>3. CASE k = h BY <1>3, <1>4, <2>3
  <2>4. CASE k # h BY <1>4, <2>2, <2>4
  <2> QED BY <2>2, <2>3, <2>4
<1> HIDE DEF secret
<1>8. Retired'
  <2> SUFFICES ASSUME NEW x \in seen'.retired
               PROVE  x[2] # None /\ x[2] < hooks'[x[1]].secret /\ x[3] <= hour'
    BY DEF Retired
  <2>1. CASE x \in seen.retired
    <3>1. x[2] # None /\ x[2] < hooks[x[1]].secret /\ x[3] <= hour'
      BY <1>2, <2>1 DEF Kept, Retired
    <3>2. x[1] \in Hooks /\ x[2] \in Nat BY <1>1, <2>1, RetiredTypes
    <3>3. hooks[x[1]].secret <= hooks'[x[1]].secret /\ hooks'[x[1]].secret \in Nat
          /\ hooks[x[1]].secret \in Nat
      BY <1>1, <1>7, <3>2 DEF Typed, Endpoints
    <3> QED BY <3>1, <3>2, <3>3
  <2>2. CASE x = <<h, secret, hour>> BY <1>1, <1>2, <1>3, <1>4, <2>2 DEF None
  <2> QED BY <1>5, <2>1, <2>2
<1>9. ASSUME NEW k \in Hooks PROVE Signs(k, hooks[k])'
  <2> SUFFICES ASSUME NEW x \in seen'.retired, x[1] = k, x[2] < hooks'[k].secret,
                      hour' - x[3] < Window,
                      ~\E y \in seen'.retired : y[1] = x[1] /\ x[2] < y[2] /\ y[2] < hooks'[k].secret
               PROVE  hooks'[k].previous = x[2] /\ hooks'[k].rotated = x[3]
    BY DEF Signs, Fresh, Pushed
  <2>1. CASE x = <<h, secret, hour>> BY <1>4, <2>1
  <2>2. CASE x \in seen.retired
    <3>1. k # h BY <1>4, <1>6, <2>2
    <3>2. Signs(k, hooks[k]) BY DEF Kept
    <3>3. x[2] < hooks[k].secret /\ hour - x[3] < Window /\ ~Pushed(x, hooks[k].secret)
      BY <1>2, <1>4, <1>5, <3>1 DEF Pushed
    <3> QED BY <1>4, <2>2, <3>1, <3>2, <3>3 DEF Signs, Fresh
  <2> QED BY <1>5, <2>1, <2>2
<1>10. ASSUME NEW k \in Hooks, NEW snap \in Endpoints, snap.secret <= hooks[k].secret, Signs(k, snap)
       PROVE  Signs(k, snap)' /\ snap.secret <= hooks'[k].secret
  <2>1. snap.secret \in Nat /\ hooks[k].secret \in Nat /\ hooks'[k].secret \in Nat
    BY <1>1 DEF Typed, Endpoints
  <2>2. \A x \in seen'.retired : x \in seen.retired \/ ~(x[1] = k /\ x[2] < snap.secret)
    <3> SUFFICES ASSUME NEW x \in seen'.retired, x \notin seen.retired, x[1] = k, x[2] < snap.secret
                 PROVE  FALSE
      OBVIOUS
    <3>1. x = <<h, secret, hour>> BY <1>5
    <3>2. k = h /\ x[2] = hooks[k].secret BY <3>1 DEF secret
    <3> QED BY <1>10, <2>1, <3>2
  <2>3. hour <= hour' /\ seen.retired \subseteq seen'.retired BY <1>1, <1>2, <1>5
  <2> QED BY <1>1, <1>7, <1>10, <2>1, <2>2, <2>3, SignsStays
<1>11. ASSUME worker'.at = "read"
       PROVE  Signs(worker.job.hook, worker.snap)'
              /\ worker'.snap.secret <= hooks'[worker'.job.hook].secret
  <2>1. worker # Idle BY <1>2, <1>11 DEF Idle
  <2>2. PICK k \in Hooks, snap \in Endpoints : k = worker.job.hook /\ snap = worker.snap
    BY <1>1, <2>1, WorkerBusy
  <2>3. Signs(k, snap) /\ snap.secret <= hooks[k].secret BY <1>2, <1>11, <2>2 DEF Kept
  <2> QED BY <1>2, <1>10, <2>2, <2>3
<1>12. ASSUME retrier'.at = "read"
       PROVE  Signs(Hook, retrier.snap)' /\ retrier'.snap.secret <= hooks'[Hook'].secret
  <2>1. PICK k \in Hooks, snap \in Endpoints : k = Hook /\ snap = retrier.snap
    BY <1>1, <1>2, <1>12, RetrierBusy
  <2>2. Signs(k, snap) /\ snap.secret <= hooks[k].secret BY <1>2, <1>12, <2>1 DEF Kept
  <2>3. Hook' = Hook BY <1>2 DEF Hook
  <2> QED BY <1>2, <1>10, <2>1, <2>2, <2>3
<1> QED BY <1>8, <1>9, <1>11, <1>12 DEF Kept

LEMMA StepCopies ==
  ASSUME Sound, Sound', [Next]_vars
  PROVE  CopiesStay
<1>1. Typed /\ InLog BY DEF Sound
<1>2. ASSUME worker'.at = "read", worker' # worker
      PROVE  worker'.snap = hooks[worker'.job.hook] /\ hooks' = hooks
  <2>1. worker' # Idle BY <1>2 DEF Idle
  <2>2. TakeJob \/ Deliver \/ NoteHook
    BY <1>2, <2>1
    DEF Next, vars, Notify, ChooseEndpoints, EnqueueTier, WorkerStep, NoteRow, RetrierStep, Scan,
        ReadAgain, Retry, RetryDelivered, RetryClears, RegisterRetryFailure, RetryFailed, Escalate,
        Operator, BulkToggleWebhooks, DeleteWebhook, SetGlobalOptOut, UpsertPreferences,
        ResetWebhookCircuit, RotateWebhookSecret, ReplayWebhookDelivery, ComeDue, NewHour,
        RedisFails, Crash
  <2>3. CASE TakeJob BY <2>1, <2>3 DEF TakeJob
  <2>4. CASE Deliver
    <3>1. worker.at = "read" BY <2>4 DEF Deliver
    <3>2. worker # Idle BY <3>1 DEF Idle
    <3>3. worker \in Workers BY <1>1, <3>2, WorkerBusy
    <3> QED BY <1>2, <2>1, <2>4, <3>3 DEF Deliver, Workers
  <2>5. CASE NoteHook
    <3>1. worker.at = "called" BY <2>5 DEF NoteHook
    <3>2. worker # Idle BY <3>1 DEF Idle
    <3>3. worker \in Workers BY <1>1, <3>2, WorkerBusy
    <3> QED BY <1>2, <2>5, <3>3 DEF NoteHook, Workers
  <2> QED BY <2>2, <2>3, <2>4, <2>5
<1>3. ASSUME retrier'.at = "read", retrier' # retrier
      PROVE  retrier'.snap = hooks[Hook'] /\ hooks' = hooks
  <2>1. retrier' # Idle BY <1>3 DEF Idle
  <2>2. RetrierStep
    BY <1>3, <2>1
    DEF Next, vars, Notify, ChooseEndpoints, EnqueueTier, WorkerStep, TakeJob, Deliver, NoteHook,
        NoteRow, Operator, BulkToggleWebhooks, DeleteWebhook, SetGlobalOptOut, UpsertPreferences,
        ResetWebhookCircuit, RotateWebhookSecret, ReplayWebhookDelivery, ComeDue, NewHour,
        RedisFails, Crash
  <2>3. ~Scan BY <1>3 DEF Scan, Idle
  <2>4. ReadAgain
    <3> SUFFICES ASSUME ~ReadAgain PROVE FALSE OBVIOUS
    <3>1. retrier.at \notin {"idle", "next"}
      BY <2>2, <2>3 DEF RetrierStep, Retry, RetryDelivered, RetryClears, RegisterRetryFailure,
                        RetryFailed, Escalate
    <3>2. retrier \in Retriers BY <1>1, <3>1, RetrierBusy
    <3>3. \/ NextRow
          \/ \E at \in {"called", "delivered", "counted", "exhausted"} : \E answer :
               \/ retrier' = [retrier EXCEPT !.at = at]
               \/ retrier' = [retrier EXCEPT !.at = at, !.answer = answer]
      BY <2>2, <2>3 DEF RetrierStep, Retry, RetryDelivered, RetryClears, RegisterRetryFailure,
                        RetryFailed, Escalate
    <3>4. NextRow => retrier'.at # "read" BY <3>2 DEF NextRow, Retriers, Idle
    <3>5. ASSUME NEW at \in {"called", "delivered", "counted", "exhausted"}, NEW answer,
                 \/ retrier' = [retrier EXCEPT !.at = at]
                 \/ retrier' = [retrier EXCEPT !.at = at, !.answer = answer]
          PROVE  retrier'.at # "read"
      BY <3>2, <3>5 DEF Retriers
    <3> QED BY <1>3, <3>3, <3>4, <3>5
  <2>5. retrier.at = "next" /\ UNCHANGED <<hooks, rows>> BY <2>4 DEF ReadAgain
  <2>6. retrier # Idle BY <2>5 DEF Idle
  <2>7. retrier \in Retriers BY <1>1, <2>6 DEF Typed
  <2>8. PICK r \in retrier.list :
          \/ retrier' = Idle
          \/ retrier' = [retrier EXCEPT !.list = retrier.list \ {r}]
          \/ retrier' = [retrier EXCEPT !.list = retrier.list \ {r}, !.at = "read", !.row = r,
                                        !.snap = hooks[rows[r.row].hook]]
    BY <2>4 DEF ReadAgain
  <2> DEFINE rest == retrier.list \ {r}
             snap == hooks[rows[r.row].hook]
  <2> HIDE DEF rest, snap
  <2>9. retrier' # [retrier EXCEPT !.list = rest] BY <1>3, <2>5, <2>7 DEF Retriers
  <2>10. retrier' = [retrier EXCEPT !.list = rest, !.at = "read", !.row = r, !.snap = snap]
    BY <2>1, <2>8, <2>9 DEF rest, snap
  <2>11. retrier'.row = r /\ retrier'.snap = snap BY <2>7, <2>10 DEF Retriers
  <2> QED BY <2>5, <2>11 DEF Hook, snap
<1> QED BY <1>2, <1>3 DEF CopiesStay

\* Only a rotation changes a secret, and one that retires no longer than the
\* window is not forgotten.
LEMMA SecretsStay ==
  ASSUME Sound, [Next]_vars, ~\E h \in Hooks : RotateWebhookSecret(h)
  PROVE  /\ hour <= hour' /\ seen'.retired = seen.retired
         /\ \A h \in Hooks : /\ hooks'[h].secret = hooks[h].secret
                             /\ \/ hooks'[h].previous = hooks[h].previous
                                   /\ hooks'[h].rotated = hooks[h].rotated
                                \/ hour - hooks[h].rotated >= Window
<1>1. Typed /\ InLog /\ seen \in Notes /\ hour \in Nat BY DEF Sound, Typed
<1> DEFINE Same(h) == /\ hooks'[h].secret = hooks[h].secret
                      /\ \/ hooks'[h].previous = hooks[h].previous
                            /\ hooks'[h].rotated = hooks[h].rotated
                         \/ hour - hooks[h].rotated >= Window
<1>2. CASE WorkerStep
  <2>1. hour' = hour /\ (hooks' = hooks \/ NoteHook)
    BY <1>2 DEF WorkerStep, TakeJob, Deliver, NoteHook, NoteRow
  <2>2. ASSUME NoteHook PROVE \A h \in Hooks : Same(h)
    <3>1. worker.at = "called" BY <2>2 DEF NoteHook
    <3>2. worker # Idle BY <3>1 DEF Idle
    <3>3. worker.job.hook \in Hooks /\ worker.snap \in Endpoints BY <1>1, <3>2, WorkerBusy
    <3> QED BY <1>1, <2>2, <3>3, FailureRegistered, FailuresCleared DEF NoteHook
  <2>3. seen'.retired = seen.retired
    <3>1. CASE TakeJob BY <1>1, <3>1 DEF TakeJob, Drop, Notes
    <3>2. CASE Deliver
      <4>1. worker.at = "read" BY <3>2 DEF Deliver
      <4>2. worker # Idle BY <4>1 DEF Idle
      <4>3. worker.job.hook \in Hooks /\ worker.job.payload \in Nat BY <1>1, <4>2, WorkerBusy
      <4>4. \/ seen' = Drop(worker.job.hook, worker.job.payload)
            \/ \E answer \in Answers(worker.job.hook) :
                 seen' = Called(worker.job.hook, worker.job.payload, answer, worker.snap)
        BY <3>2 DEF Deliver
      <4> QED BY <1>1, <4>3, <4>4, CalledAdds DEF Drop, Notes
    <3> QED BY <1>2, <3>1, <3>2 DEF WorkerStep, NoteHook, NoteRow
  <2> QED BY <1>1, <2>1, <2>2, <2>3
<1>3. CASE RetrierStep
  <2>1. hour' = hour /\ (hooks' = hooks \/ Scan \/ RetryClears \/ RegisterRetryFailure)
    BY <1>3 DEF RetrierStep, Scan, ReadAgain, Retry, RetryDelivered, RetryClears,
                RegisterRetryFailure, RetryFailed, Escalate
  <2>2. ASSUME Scan PROVE \A h \in Hooks : Same(h) BY <1>1, <2>2, SecretsPurged DEF Scan
  <2>3. ASSUME RetryClears PROVE \A h \in Hooks : Same(h)
    <3>1. Hook \in Hooks BY <1>1, <2>3, RetrierBusy DEF RetryClears
    <3> QED BY <1>1, <2>3, <3>1, FailuresCleared DEF RetryClears
  <2>4. ASSUME RegisterRetryFailure PROVE \A h \in Hooks : Same(h)
    <3>1. Hook \in Hooks /\ retrier.snap \in Endpoints
      BY <1>1, <2>4, RetrierBusy DEF RegisterRetryFailure
    <3> QED BY <1>1, <2>4, <3>1, FailureRegistered DEF RegisterRetryFailure
  <2>5. seen'.retired = seen.retired
    <3>1. CASE Retry
      <4>1. Hook \in Hooks /\ rows[retrier.row.row].payload \in Nat
        BY <1>1, <3>1, RetrierBusy DEF Retry
      <4> QED BY <1>1, <3>1, <4>1, CalledAdds DEF Retry
    <3>2. CASE Escalate BY <1>1, <3>2 DEF Escalate, Notes
    <3> QED BY <1>3, <3>1, <3>2
        DEF RetrierStep, Scan, ReadAgain, RetryDelivered, RetryClears, RegisterRetryFailure, RetryFailed
  <2> QED BY <1>1, <2>1, <2>2, <2>3, <2>4, <2>5
<1>4. CASE Operator
  <2>1. hour' = hour BY <1>4 DEF Operator, BulkToggleWebhooks, DeleteWebhook, SetGlobalOptOut,
      UpsertPreferences, ResetWebhookCircuit, RotateWebhookSecret, ReplayWebhookDelivery
  <2>2. seen'.retired = seen.retired
    BY <1>1, <1>4 DEF Operator, BulkToggleWebhooks, DeleteWebhook, SetGlobalOptOut,
      UpsertPreferences, ResetWebhookCircuit, ReplayWebhookDelivery, Notes
  <2>3. ASSUME NEW h \in Hooks, NEW on \in BOOLEAN,
               BulkToggleWebhooks(h, on) \/ DeleteWebhook(h) \/ ResetWebhookCircuit(h)
        PROVE  \A k \in Hooks : Same(k)
    <3>1. hooks \in [Hooks -> Endpoints] /\ hooks[h] \in Endpoints BY <1>1 DEF Typed
    <3>2. CASE BulkToggleWebhooks(h, on) BY <3>1, <3>2 DEF BulkToggleWebhooks, Endpoints
    <3>3. CASE DeleteWebhook(h) BY <3>1, <3>3 DEF DeleteWebhook, Endpoints
    <3>4. CASE ResetWebhookCircuit(h) BY <3>1, <3>4 DEF ResetWebhookCircuit, Endpoints
    <3> QED BY <2>3, <3>2, <3>3, <3>4
  <2>4. hooks' = hooks => \A k \in Hooks : Same(k) OBVIOUS
  <2>5. \A k \in Hooks : Same(k)
    <3> HIDE DEF Same
    <3> QED BY <1>4, <2>3, <2>4 DEF Operator, SetGlobalOptOut, UpsertPreferences, ReplayWebhookDelivery
  <2> QED BY <1>1, <2>1, <2>2, <2>5
<1>5. CASE UNCHANGED vars \/ Notify \/ ChooseEndpoints \/ EnqueueTier
           \/ (\E i \in DOMAIN rows : ComeDue(i)) \/ NewHour \/ RedisFails \/ Crash
  <2>1. hooks' = hooks
    BY <1>5 DEF vars, Notify, ChooseEndpoints, EnqueueTier, ComeDue, NewHour, RedisFails, Crash
  <2>2. hour' = hour \/ hour' = hour + 1
    BY <1>5 DEF vars, Notify, ChooseEndpoints, EnqueueTier, ComeDue, NewHour, RedisFails, Crash
  <2>3. CASE EnqueueTier BY <1>1, <2>1, <2>2, <2>3 DEF EnqueueTier, Notes
  <2>4. CASE ~EnqueueTier
    <3>1. seen' = seen
      BY <1>5, <2>4 DEF vars, Notify, ChooseEndpoints, ComeDue, NewHour, RedisFails, Crash
    <3> QED BY <1>1, <2>1, <2>2, <3>1
  <2> QED BY <2>3, <2>4
<1> QED BY <1>2, <1>3, <1>4, <1>5 DEF Next

LEMMA StepSigned ==
  ASSUME Sound, Honoured, [Next]_vars, seen.retired \subseteq seen'.retired
  PROVE  RetiredSecretsHonoured'
<1>1. Typed /\ InLog /\ seen \in Notes BY DEF Sound, Typed
<1> DEFINE Out(x) == \E y \in seen.retired : y[1] = x[1] /\ y[2] > x[2] /\ y[3] - x[3] < Window
<1> SUFFICES \A x \in seen'.unsigned : Out(x) BY DEF RetiredSecretsHonoured
<1>0. \A x \in seen.unsigned : Out(x) BY DEF Honoured, RetiredSecretsHonoured
<1>2. CASE Deliver
  <2>1. worker.at = "read" BY <1>2 DEF Deliver
  <2>2. worker # Idle BY <2>1 DEF Idle
  <2>3. worker.job.hook \in Hooks /\ worker.job.payload \in Nat /\ worker.snap \in Endpoints
    BY <1>1, <2>2, WorkerBusy
  <2>4. \/ seen' = Drop(worker.job.hook, worker.job.payload)
        \/ \E answer \in Answers(worker.job.hook) :
             seen' = Called(worker.job.hook, worker.job.payload, answer, worker.snap)
    BY <1>2 DEF Deliver
  <2>5. \A x \in InTransition(worker.job.hook, worker.snap) :
          x[2] \notin BuildSignatureHeaders(worker.snap) => Out(x)
    BY <1>1, <2>1, <2>3, SignedCall DEF Honoured, Kept
  <2> HIDE DEF Out
  <2>6. CASE seen' = Drop(worker.job.hook, worker.job.payload)
    BY <1>0, <1>1, <2>6 DEF Drop, Notes
  <2>7. ASSUME NEW answer,
               seen' = Called(worker.job.hook, worker.job.payload, answer, worker.snap)
        PROVE  \A x \in seen'.unsigned : Out(x)
    BY <1>0, <1>1, <2>3, <2>5, <2>7, CalledAdds
  <2> QED BY <2>4, <2>6, <2>7
<1>3. CASE Retry
  <2>1. retrier.at = "read" BY <1>3 DEF Retry
  <2>2. Hook \in Hooks /\ rows[retrier.row.row].payload \in Nat /\ retrier.snap \in Endpoints
    BY <1>1, <2>1, RetrierBusy
  <2>3. PICK answer : seen' = Called(Hook, rows[retrier.row.row].payload, answer, retrier.snap)
    BY <1>3 DEF Retry
  <2>4. \A x \in InTransition(Hook, retrier.snap) :
          x[2] \notin BuildSignatureHeaders(retrier.snap) => Out(x)
    BY <1>1, <2>1, <2>2, SignedCall DEF Honoured, Kept
  <2> HIDE DEF Out
  <2> QED BY <1>0, <1>1, <2>2, <2>3, <2>4, CalledAdds
<1> HIDE DEF Out
<1>4. \/ seen' = seen \/ EnqueueTier \/ TakeJob \/ Escalate \/ Deliver \/ Retry
      \/ \E h \in Hooks : ResetWebhookCircuit(h) \/ RotateWebhookSecret(h)
  BY DEF Next, vars, Notify, ChooseEndpoints, WorkerStep, NoteHook, NoteRow, RetrierStep, Scan,
         ReadAgain, RetryDelivered, RetryClears, RegisterRetryFailure, RetryFailed,
         Operator, BulkToggleWebhooks, DeleteWebhook, SetGlobalOptOut, UpsertPreferences,
         ReplayWebhookDelivery, ComeDue, NewHour, RedisFails, Crash
<1>5. seen' = seen \/ EnqueueTier \/ TakeJob \/ Escalate
      \/ (\E h \in Hooks : ResetWebhookCircuit(h) \/ RotateWebhookSecret(h))
      => seen'.unsigned = seen.unsigned
  BY <1>1 DEF EnqueueTier, TakeJob, Drop, Escalate, ResetWebhookCircuit, RotateWebhookSecret, Notes
<1> QED BY <1>0, <1>2, <1>3, <1>4, <1>5

\* Whatever an endpoint is called about, and by whom, the call carries every
\* secret that was retired less than the window ago and that no second rotation
\* inside that window has pushed out: the copy that worker or retrier read before
\* the call knows that secret, and the purge does not take it away
\* (buildSignatureHeaders, purgeExpiredRotatedSecrets, rotateWebhookSecret).
THEOREM OnlyRotationsPushOut == Spec => []RetiredSecretsHonoured
<1>1. Init => Honoured
  BY DEF Init, Honoured, RetiredSecretsHonoured, Kept, Retired, Signs, Idle
<1>2. Sound /\ Sound' /\ Honoured /\ [Next]_vars => Honoured'
  <2> SUFFICES ASSUME Sound, Sound', Honoured, [Next]_vars PROVE Honoured' OBVIOUS
  <2>1. RowsStay BY StepTyped DEF Sound
  <2>3. CASE \E h \in Hooks : RotateWebhookSecret(h)
    <3>1. PICK h \in Hooks : RotateWebhookSecret(h) BY <2>3
    <3>2. seen.retired \subseteq seen'.retired
      BY <3>1 DEF RotateWebhookSecret, Sound, Typed, Notes
    <3> QED BY <2>1, <3>1, <3>2, StepSigned, RotateKept DEF Honoured
  <2>4. CASE ~\E h \in Hooks : RotateWebhookSecret(h)
    <3>1. CopiesStay BY StepCopies
    <3>2. seen.retired \subseteq seen'.retired BY <2>4, SecretsStay
    <3> QED BY <2>1, <2>4, <3>1, <3>2, StepSigned, SecretsStay, KeptStays DEF Honoured
  <2> QED BY <2>3, <2>4
<1>3. Honoured => RetiredSecretsHonoured BY DEF Honoured
<1> QED BY <1>1, <1>2, <1>3, SoundAlways, PTL DEF Spec
=============================================================================
