------------------------------ MODULE Webhooks ------------------------------
(***************************************************************************)
(* Notifications: an event becomes one job per subscribed endpoint         *)
(* (services/notifications.ts, notify), the worker of the queue delivers   *)
(* it (webhookWorker.ts) and logs what failed, the retrier of the indexer  *)
(* loop delivers the log again (processRetries), and administrators        *)
(* switch, reset, rotate and replay meanwhile.  Worker and retrier each    *)
(* read an endpoint, call it and write back what they computed from what   *)
(* they read; an action ends where the code awaits the other's chance.     *)
(***************************************************************************)
EXTENDS Integers, Sequences, FiniteSets

CONSTANTS Hooks,        \* their ids, positive numbers
          Threshold,    \* CIRCUIT_BREAKER_THRESHOLD (5)
          MaxAttempts,  \* MAX_DELIVERY_ATTEMPTS (6)
          RetryLimit,   \* of a webhook-deliver job (5)
          Window,       \* secretRotationWindowHours
          Mixes         \* endpoints, answers and operations of a behaviour
ASSUME WebhookAssumption == /\ Threshold \in Nat \ {0} /\ MaxAttempts \in Nat \ {0}
                            /\ RetryLimit \in Nat /\ Window \in Nat \ {0}
                            /\ Hooks \subseteq Nat \ {0} /\ IsFiniteSet(Hooks)
ASSUME MixAssumption ==
  \A m \in Mixes :
    /\ \A h \in Hooks : /\ m.hooks[h].cap \in Nat /\ m.hooks[h].fallback \in Hooks \cup {0}
                        /\ m.hooks[h].priority \in Nat /\ m.hooks[h].channel \in STRING
    /\ m.answers \subseteq {"ok", "refused", "error"}

VARIABLES hooks,     \* table webhooks
          rows,      \* table webhook_deliveries
          jobs,      \* the webhook-deliver jobs of pg-boss
          notifier,  \* the notify() in flight
          worker,    \* the processWebhookDelivery() in flight
          retrier,   \* the processRetries() in flight
          redis,     \* the counters of the hour, and whether Redis answers
          hour,
          settings,  \* app_config's dispatch flag, and the preferences of the user
          seen,      \* history: what the endpoints saw and what was given up
          spent,     \* how much of the bounds of the mix is used
          mix
vars == <<hooks, rows, jobs, notifier, worker, retrier, redis, hour, seen, spent, mix, settings>>

None == 0
Idle == [at |-> "idle"]

Init ==
  /\ mix \in Mixes
  /\ hooks = [h \in Hooks |->
       [cap |-> mix.hooks[h].cap, fallback |-> mix.hooks[h].fallback,
        priority |-> mix.hooks[h].priority, channel |-> mix.hooks[h].channel,
        active |-> TRUE, open |-> FALSE, failures |-> 0,
        secret |-> 1, previous |-> None, rotated |-> 0]]
  /\ rows = <<>> /\ jobs = {} /\ notifier = Idle /\ worker = Idle /\ retrier = Idle
  /\ redis = [up |-> TRUE, count |-> [h \in Hooks |-> 0]] /\ hour = 0
  /\ settings = [enabled |-> TRUE, prefs |-> mix.prefs]
  /\ seen = [got |-> {}, queued |-> {}, dropped |-> {}, retired |-> {},
             unsigned |-> {}, sinceOpen |-> [h \in Hooks |-> 0]]
  /\ spent = [events |-> 0, jobs |-> 0, admin |-> 0, faults |-> 0]

Job(h, p, row) == [id |-> spent.jobs + 1, hook |-> h, payload |-> p, row |-> row, tries |-> 0]
Send(h, p, row) ==
  /\ jobs' = jobs \cup {Job(h, p, row)}
  /\ spent' = [spent EXCEPT !.jobs = @ + 1]
-----------------------------------------------------------------------------
\* notify: the preferences of the user the event is about; a row for the vault
\* wins over one for all vaults, and no row means enabled.
IsDeliveryEnabled(prefs, channel, vault) ==
  LET found == {r \in prefs : r.channel = channel /\ r.vault \in {vault, None}}
      own == {r \in found : r.vault = vault}
  IN  \A r \in IF own # {} THEN own ELSE found : r.enabled

Subscribed == {h \in Hooks : hooks[h].active /\ ~hooks[h].open}
Deliverable ==
  {h \in Subscribed : mix.personal => IsDeliveryEnabled(settings.prefs, hooks[h].channel, 1)}

\* isGloballyEnabled, awaited before the endpoints are read.
Notify ==
  /\ notifier = Idle /\ spent.events < mix.events
  /\ spent' = [spent EXCEPT !.events = @ + 1]
  /\ notifier' = IF settings.enabled THEN [at |-> "enabled", payload |-> spent.events + 1]
                 ELSE Idle
  /\ UNCHANGED <<hooks, rows, jobs, worker, retrier, redis, hour, seen, mix, settings>>

ChooseEndpoints ==
  /\ notifier.at = "enabled"
  /\ notifier' = IF Deliverable = {} THEN Idle
                 ELSE [at |-> "tiers", payload |-> notifier.payload, left |-> Deliverable]
  /\ UNCHANGED <<hooks, rows, jobs, worker, retrier, redis, hour, seen, spent, mix, settings>>

\* The endpoints of the smallest priority left are queued together; mail is
\* sent on the spot, whatever becomes of it.
Tier(S) == {h \in S : \A k \in S : hooks[h].priority <= hooks[k].priority}
EnqueueTier ==
  /\ notifier.at = "tiers"
  /\ LET tier == Tier(notifier.left)
         queued == {h \in tier : hooks[h].channel # "email"}
         left == notifier.left \ tier
         Number(h) == Cardinality({k \in queued : k <= h})
     IN  /\ jobs' = jobs \cup
              {[Job(h, notifier.payload, None) EXCEPT !.id = spent.jobs + Number(h)] : h \in queued}
         /\ spent' = [spent EXCEPT !.jobs = @ + Cardinality(queued)]
         /\ seen' = [seen EXCEPT !.queued = @ \cup {<<h, notifier.payload>> : h \in queued}]
         /\ notifier' = IF left = {} THEN Idle ELSE [notifier EXCEPT !.left = left]
  /\ UNCHANGED <<hooks, rows, worker, retrier, redis, hour, mix, settings>>
-----------------------------------------------------------------------------
\* One POST.  A redirect counts as refused; an unsafe address is not called.
Answers(h) == IF hooks[h].channel = "email" THEN {"unsafe"} ELSE mix.answers
\* Mutant: a window one hour short.
WindowEndsEarly(snap) == hour - snap.rotated < Window - 1
IsWithinRotationWindow(snap) == hour - snap.rotated < Window
BuildSignatureHeaders(snap) ==
  {snap.secret} \cup (IF snap.previous # None /\ IsWithinRotationWindow(snap)
                      THEN {snap.previous} ELSE {})
\* Secrets retired before the endpoint was read, less than the window ago.
InTransition(h, snap) ==
  {x \in seen.retired : x[1] = h /\ x[2] < snap.secret /\ hour - x[3] < Window}
Called(h, p, answer, snap) ==
  IF answer = "unsafe" THEN seen
  ELSE [seen EXCEPT !.got = @ \cup (IF answer = "ok" THEN {<<h, p>>} ELSE {}),
                    !.unsigned = @ \cup {x \in InTransition(h, snap) :
                                             x[2] \notin BuildSignatureHeaders(snap)},
                    !.sinceOpen[h] = IF hooks[h].open THEN @ + 1 ELSE 0]

\* Both sides write the count they read plus one.
RegisterFailure(h, snap) ==
  LET failures == snap.failures + 1
  IN  hooks' = [hooks EXCEPT ![h].failures = failures, ![h].open = @ \/ failures >= Threshold]
ClearFailures(h, snap) ==
  hooks' = IF snap.failures > 0 THEN [hooks EXCEPT ![h].failures = 0] ELSE hooks
-----------------------------------------------------------------------------
\* processWebhookDelivery.  The job stays in the queue until it is done with.
JobDone(j) == jobs' = jobs \ {j}
JobThrows(j) == jobs' = (jobs \ {j}) \cup
                        (IF j.tries < RetryLimit THEN {[j EXCEPT !.tries = @ + 1]} ELSE {})
Drop(h, p) == [seen EXCEPT !.dropped = @ \cup {<<h, p>>}]

\* Mutant: a job whose endpoint is suspended waits in the queue for a reset.
WaitForReset ==
  /\ worker = Idle
  /\ \E j \in {k \in jobs : ~hooks[k.hook].open} :
       worker' = [at |-> "read", job |-> j, snap |-> hooks[j.hook], answer |-> "none"]
  /\ UNCHANGED <<hooks, rows, jobs, notifier, retrier, redis, hour, seen, spent, mix, settings>>
TakeJob ==
  /\ worker = Idle
  /\ \E j \in jobs :
       LET snap == hooks[j.hook]
       IN  IF snap.open
           THEN /\ JobDone(j) /\ worker' = Idle /\ seen' = Drop(j.hook, j.payload)
           ELSE /\ worker' = [at |-> "read", job |-> j, snap |-> snap, answer |-> "none"]
                /\ UNCHANGED <<jobs, seen>>
  /\ UNCHANGED <<hooks, rows, notifier, retrier, redis, hour, spent, mix, settings>>

\* isWebhookThrottled counts, then compares; without Redis nothing is throttled.
IsWebhookThrottled(h, cap) == cap # None /\ redis.up /\ redis.count[h] + 1 > cap
Counted(h, cap) == IF cap # None /\ redis.up THEN [redis EXCEPT !.count[h] = @ + 1] ELSE redis

Deliver ==
  /\ worker.at = "read"
  /\ LET j == worker.job
         h == j.hook
     IN  /\ redis' = Counted(h, worker.snap.cap)
         /\ \/ /\ IsWebhookThrottled(h, worker.snap.cap)
               /\ worker' = Idle /\ JobDone(j) /\ seen' = Drop(h, j.payload)
            \/ /\ ~IsWebhookThrottled(h, worker.snap.cap)
               /\ \E answer \in Answers(h) :
                    /\ worker' = [worker EXCEPT !.at = "called", !.answer = answer]
                    /\ seen' = Called(h, j.payload, answer, worker.snap)
               /\ UNCHANGED jobs
  /\ UNCHANGED <<hooks, rows, notifier, retrier, hour, spent, mix, settings>>

NoteHook ==
  /\ worker.at = "called"
  /\ worker' = [worker EXCEPT !.at = "noted"]
  /\ IF worker.answer = "ok" THEN ClearFailures(worker.job.hook, worker.snap)
     ELSE RegisterFailure(worker.job.hook, worker.snap)
  /\ UNCHANGED <<rows, jobs, notifier, retrier, redis, hour, seen, spent, mix, settings>>

Failed == IF worker.snap.failures + 1 >= Threshold THEN "failed_permanent" ELSE "failed"
NewRow(h, p, due, status, from) ==
  [hook |-> h, payload |-> p, attempt |-> 1, due |-> due, delivered |-> FALSE,
   status |-> status, from |-> from]
\* Mutant: only a delivery that has its row is logged.
LogOwnRow(j) == IF j.row = None THEN rows
                ELSE [rows EXCEPT ![j.row].attempt = @ + 1, ![j.row].due = FALSE,
                                  ![j.row].status = Failed]
RecordFailure(j) ==
  IF j.row = None THEN Append(rows, NewRow(j.hook, j.payload, FALSE, Failed, None))
  ELSE [rows EXCEPT ![j.row].attempt = @ + 1, ![j.row].due = FALSE, ![j.row].status = Failed]
NoteRow ==
  /\ worker.at = "noted"
  /\ LET j == worker.job
     IN  IF worker.answer = "ok"
         THEN /\ rows' = IF j.row = None THEN rows
                         ELSE [rows EXCEPT ![j.row].delivered = TRUE, ![j.row].status = "delivered"]
              /\ JobDone(j)
         ELSE /\ rows' = RecordFailure(j)
              /\ IF worker.answer = "error" THEN JobThrows(j) ELSE JobDone(j)
  /\ worker' = Idle
  /\ UNCHANGED <<hooks, notifier, retrier, redis, hour, seen, spent, mix, settings>>
-----------------------------------------------------------------------------
\* processRetries.  One pass scans the rows that are due (fewer than its limit
\* of 50), forgets secrets whose window is over, and takes the rows in turn.
\* Its only caller is the tick of the indexer, behind a statement that throws
\* as the code stands: the steps are what it does whenever it is called, and
\* nothing here relies on its being called.
Due(i) == /\ rows[i].due /\ ~rows[i].delivered /\ rows[i].attempt < MaxAttempts
          /\ hooks[rows[i].hook].active /\ ~hooks[rows[i].hook].open
Expired(h) == hooks[h].previous # None /\ ~IsWithinRotationWindow(hooks[h])
PurgeExpiredRotatedSecrets ==
  hooks' = [h \in Hooks |-> IF Expired(h) THEN [hooks[h] EXCEPT !.previous = None, !.rotated = 0]
                            ELSE hooks[h]]
Scan ==
  /\ retrier = Idle
  /\ LET due == {i \in DOMAIN rows : Due(i)}
     IN  /\ due # {} \/ \E h \in Hooks : Expired(h)
         /\ retrier' = IF due = {} THEN Idle
                       ELSE [at |-> "next", row |-> None, snap |-> None, answer |-> "none",
                             list |-> {[row |-> i, attempt |-> rows[i].attempt] : i \in due}]
  /\ PurgeExpiredRotatedSecrets
  /\ UNCHANGED <<rows, jobs, notifier, worker, redis, hour, seen, spent, mix, settings>>

Hook == rows[retrier.row.row].hook
NextRow == retrier' = IF retrier.list = {} THEN Idle ELSE [retrier EXCEPT !.at = "next"]

\* Mutant: a row is retried without looking whether the circuit is still closed.
ReadWithoutLook ==
  /\ retrier.at = "next"
  /\ \E r \in retrier.list :
       retrier' = [retrier EXCEPT !.list = @ \ {r}, !.at = "read", !.row = r,
                                  !.snap = hooks[rows[r.row].hook]]
  /\ UNCHANGED <<hooks, rows, jobs, notifier, worker, redis, hour, seen, spent, mix, settings>>
\* The endpoint is read again: its circuit may have opened since the scan.
ReadAgain ==
  /\ retrier.at = "next"
  /\ \E r \in retrier.list :
       LET snap == hooks[rows[r.row].hook]
           rest == retrier.list \ {r}
       IN  retrier' = IF snap.open
                      THEN IF rest = {} THEN Idle ELSE [retrier EXCEPT !.list = rest]
                      ELSE [retrier EXCEPT !.list = rest, !.at = "read", !.row = r, !.snap = snap]
  /\ UNCHANGED <<hooks, rows, jobs, notifier, worker, redis, hour, seen, spent, mix, settings>>

\* A retry is neither counted nor throttled.
Retry ==
  /\ retrier.at = "read"
  /\ \E answer \in Answers(Hook) :
       /\ retrier' = [retrier EXCEPT !.at = "called", !.answer = answer]
       /\ seen' = Called(Hook, rows[retrier.row.row].payload, answer, retrier.snap)
  /\ UNCHANGED <<hooks, rows, jobs, notifier, worker, redis, hour, spent, mix, settings>>

RetryDelivered ==
  /\ retrier.at = "called" /\ retrier.answer = "ok"
  /\ rows' = [rows EXCEPT ![retrier.row.row].delivered = TRUE,
                          ![retrier.row.row].status = "delivered"]
  /\ retrier' = [retrier EXCEPT !.at = "delivered"]
  /\ UNCHANGED <<hooks, jobs, notifier, worker, redis, hour, seen, spent, mix, settings>>

RetryClears ==
  /\ retrier.at = "delivered"
  /\ ClearFailures(Hook, retrier.snap)
  /\ NextRow
  /\ UNCHANGED <<rows, jobs, notifier, worker, redis, hour, seen, spent, mix, settings>>

RegisterRetryFailure ==
  /\ retrier.at = "called" /\ retrier.answer \in {"refused", "unsafe"}
  /\ RegisterFailure(Hook, retrier.snap)
  /\ retrier' = [retrier EXCEPT !.at = "counted"]
  /\ UNCHANGED <<rows, jobs, notifier, worker, redis, hour, seen, spent, mix, settings>>

\* The attempt is the scanned one plus one, whatever the row says by now.
BackOff(r) == [rows EXCEPT ![r.row].attempt = r.attempt + 1, ![r.row].due = FALSE]
\* An error that fetch throws is not counted against the endpoint.
RetryFailed ==
  /\ \/ retrier.at = "counted"
     \/ retrier.at = "called" /\ retrier.answer = "error"
  /\ rows' = BackOff(retrier.row)
  /\ IF retrier.row.attempt + 1 >= MaxAttempts /\ hooks[Hook].fallback # None
     THEN retrier' = [retrier EXCEPT !.at = "exhausted"] ELSE NextRow
  /\ UNCHANGED <<hooks, jobs, notifier, worker, redis, hour, seen, spent, mix, settings>>

\* maybeEscalateToFallback.
Escalate ==
  /\ retrier.at = "exhausted"
  /\ LET p == rows[retrier.row.row].payload
         h == hooks[Hook].fallback
     IN  /\ Send(h, p, None)
         /\ seen' = [seen EXCEPT !.queued = @ \cup {<<h, p>>}]
  /\ NextRow
  /\ UNCHANGED <<hooks, rows, notifier, worker, redis, hour, mix, settings>>
-----------------------------------------------------------------------------
\* Administrators.
Admin(kind) ==
  /\ kind \in mix.admin /\ spent.admin < mix.settings
  /\ spent' = [spent EXCEPT !.admin = @ + 1]

BulkToggleWebhooks(h, on) ==
  /\ Admin("toggle")
  /\ hooks' = [hooks EXCEPT ![h].active = on]
  /\ UNCHANGED <<rows, jobs, notifier, worker, retrier, redis, hour, seen, mix, settings>>

DeleteWebhook(h) ==
  /\ Admin("delete") /\ hooks[h].active
  /\ hooks' = [hooks EXCEPT ![h].active = FALSE]
  /\ UNCHANGED <<rows, jobs, notifier, worker, retrier, redis, hour, seen, mix, settings>>

SetGlobalOptOut(enabled) ==
  /\ Admin("optout")
  /\ settings' = [settings EXCEPT !.enabled = enabled]
  /\ UNCHANGED <<hooks, rows, jobs, notifier, worker, retrier, redis, hour, seen, mix>>

\* One row per channel and vault.
UpsertPreferences(channel, vault, enabled) ==
  /\ Admin("prefs")
  /\ LET Same(r) == r.channel = channel /\ r.vault = vault
     IN  settings' = [settings EXCEPT !.prefs = {r \in @ : ~Same(r)} \cup
                        {[channel |-> channel, vault |-> vault, enabled |-> enabled]}]
  /\ UNCHANGED <<hooks, rows, jobs, notifier, worker, retrier, redis, hour, seen, mix>>

ResetWebhookCircuit(h) ==
  /\ Admin("reset")
  /\ hooks' = [hooks EXCEPT ![h].open = FALSE, ![h].failures = 0]
  /\ seen' = [seen EXCEPT !.sinceOpen[h] = 0]
  /\ UNCHANGED <<rows, jobs, notifier, worker, retrier, redis, hour, mix, settings>>

RotateWebhookSecret(h) ==
  /\ Admin("rotate")
  /\ hooks' = [hooks EXCEPT ![h].previous = hooks[h].secret, ![h].secret = @ + 1,
                            ![h].rotated = hour]
  /\ seen' = [seen EXCEPT !.retired = @ \cup {<<h, hooks[h].secret, hour>>}]
  /\ UNCHANGED <<rows, jobs, notifier, worker, retrier, redis, hour, mix, settings>>

\* A clone of a logged delivery, due at once, and a job that owns it.
ReplayWebhookDelivery(i) ==
  /\ "replay" \in mix.admin /\ spent.admin < mix.settings
  /\ ~hooks[rows[i].hook].open
  /\ rows' = Append(rows, NewRow(rows[i].hook, rows[i].payload, TRUE, "pending", i))
  /\ jobs' = jobs \cup {Job(rows[i].hook, rows[i].payload, Len(rows) + 1)}
  /\ spent' = [spent EXCEPT !.admin = @ + 1, !.jobs = @ + 1]
  /\ UNCHANGED <<hooks, notifier, worker, retrier, redis, hour, seen, mix, settings>>
-----------------------------------------------------------------------------
\* Time, Redis and the process.
ComeDue(i) ==
  /\ ~rows[i].due /\ ~rows[i].delivered /\ rows[i].attempt < MaxAttempts
  /\ rows' = [rows EXCEPT ![i].due = TRUE]
  /\ UNCHANGED <<hooks, jobs, notifier, worker, retrier, redis, hour, seen, spent, mix, settings>>

NewHour ==
  /\ hour < mix.hours /\ hour' = hour + 1
  /\ redis' = [redis EXCEPT !.count = [h \in Hooks |-> 0]]
  /\ UNCHANGED <<hooks, rows, jobs, notifier, worker, retrier, seen, spent, mix, settings>>

Fault(kind) ==
  /\ kind \in mix.faults /\ spent.faults < RetryLimit
  /\ spent' = [spent EXCEPT !.faults = @ + 1]

RedisFails ==
  /\ redis.up /\ Fault("redis")
  /\ redis' = [redis EXCEPT !.up = FALSE]
  /\ UNCHANGED <<hooks, rows, jobs, notifier, worker, retrier, hour, seen, mix, settings>>

\* The queue hands the job of a process that died out again.
Crash ==
  /\ Fault("crash")
  /\ notifier' = Idle /\ worker' = Idle /\ retrier' = Idle
  /\ IF worker = Idle THEN UNCHANGED jobs ELSE JobThrows(worker.job)
  /\ UNCHANGED <<hooks, rows, redis, hour, seen, mix, settings>>

WorkerStep == TakeJob \/ Deliver \/ NoteHook \/ NoteRow
RetrierStep == \/ Scan \/ ReadAgain \/ Retry \/ RetryDelivered \/ RetryClears
               \/ RegisterRetryFailure \/ RetryFailed \/ Escalate
Operator ==
  \/ \E h \in Hooks : \/ \E on \in BOOLEAN : BulkToggleWebhooks(h, on)
                      \/ DeleteWebhook(h) \/ ResetWebhookCircuit(h) \/ RotateWebhookSecret(h)
  \/ \E on \in BOOLEAN :
       \/ SetGlobalOptOut(on)
       \/ \E vault \in {None, 1} : UpsertPreferences("webhook", vault, on)
  \/ \E i \in DOMAIN rows : ReplayWebhookDelivery(i)
Next == \/ Notify \/ ChooseEndpoints \/ EnqueueTier \/ WorkerStep \/ RetrierStep \/ Operator
        \/ (\E i \in DOMAIN rows : ComeDue(i)) \/ NewHour \/ RedisFails \/ Crash

\* The queue keeps handing out its jobs and a notification that began goes on.
\* Nothing is assumed of the retrier.
Fairness == WF_vars(WorkerStep) /\ WF_vars(ChooseEndpoints \/ EnqueueTier)
Spec == Init /\ [][Next]_vars /\ Fairness
-----------------------------------------------------------------------------
\* What was queued for an endpoint is received by it, still queued, logged as a
\* delivery to try again or one given up, or dropped by the throttle or an open
\* circuit: no order of jobs, retries, replays and crashes makes it vanish
\* between the job queue and the delivery log.
NothingLost ==
  \A q \in seen.queued :
    \/ q \in seen.got \/ q \in seen.dropped
    \/ \E j \in jobs : <<j.hook, j.payload>> = q
    \/ \E i \in DOMAIN rows : <<rows[i].hook, rows[i].payload>> = q /\ ~rows[i].delivered

\* An open circuit lets through at most the two calls whose endpoint was read
\* before it opened, one of the worker and one of the retrier, whatever is
\* queued, due or being replayed.
CircuitHolds == \A h \in Hooks : hooks[h].open => seen.sinceOpen[h] <= 2

\* The signatures of a call cover every secret retired less than the window
\* ago, except one that a second rotation inside its window has pushed out (the
\* endpoint keeps one previous secret): neither the time between the reading of
\* the endpoint and the call nor the purge of expired secrets drops another.
RetiredSecretsHonoured ==
  \A x \in seen.unsigned :
    \E y \in seen.retired : y[1] = x[1] /\ y[2] > x[2] /\ y[3] - x[3] < Window

\* A rotation "keeps the outgoing one valid for SECRET_ROTATION_WINDOW_HOURS so
\* receivers can roll over without downtime" (admin.ts, rotateWebhookSecret).
OutgoingStaysValid == seen.unsigned = {}

\* No delivery goes round in the job queue for ever, whatever its endpoint
\* answers, whoever resets or replays it and however often the process dies.
Queued(h, p) == \E j \in jobs : j.hook = h /\ j.payload = p
DeliveriesEnd ==
  \A h \in Hooks : \A p \in UNION {1..m.events : m \in Mixes} : Queued(h, p) ~> ~Queued(h, p)
=============================================================================
