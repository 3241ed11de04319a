------------------------------- MODULE Indexer -------------------------------
(***************************************************************************)
(* The engine of services/indexer.ts: the polling loop, the backfill at    *)
(* startup, the backfill job of the job queue that runs in the same        *)
(* process, the pause and filter settings an administrator writes to the   *)
(* database meanwhile, and the shutdown that drains the loop.  A ledger    *)
(* holds one event; what its handler writes is VaultProjection's subject,  *)
(* here it is in the set applied or dead.                                  *)
(*                                                                         *)
(* An action ends where the code awaits.  The events of a transaction are  *)
(* processed where it commits: others see its effect only then.            *)
(***************************************************************************)
EXTENDS Integers, Sequences, FiniteSets

CONSTANTS Factory, Vault,
          BatchSize,   \* currentBatchSize, which nothing changes
          MaxFaults,   \* bound on the failures of a behaviour
          MaxTries,    \* retryLimit of the job queue
          Mixes        \* what may happen together, and its bounds
ASSUME BatchAssumption == BatchSize \in Nat \ {0}
ASSUME MixAssumption ==
  \A m \in Mixes : m.events \subseteq [of : {Factory, Vault}, kind : STRING] /\ m.ledgers \in Nat

VARIABLES chain,    \* the events the chain has published, one per ledger
          db,       \* the tables
          mem,      \* the fields of the Indexer object
          loop,     \* start(): the tick or the backfill in flight
          job,      \* the indexer-backfill job
          closing,  \* how far shutdown() is
          since,    \* the ledger from which the vault is known to be followed
          spent,    \* failures, settings and crashes so far
          mix       \* the mix of this behaviour
vars == <<chain, db, mem, loop, job, closing, since, spent, mix>>

None == -1
LongestChain == CHOOSE l \in {m.ledgers : m \in Mixes} : \A m \in Mixes : m.ledgers <= l
Contracts == {Factory, Vault}
Tip == Len(chain)
Of(l) == chain[l].of
Kind(l) == chain[l].kind

NoControl == [paused |-> FALSE, pausedAt |-> None, only |-> {}]
Tables == [cursor |-> 0, applied |-> {}, again |-> {}, dead |-> {}, waived |-> {},
           vault |-> FALSE, control |-> [c \in Contracts |-> NoControl]]
\* The constructor: the factory is watched, a vault only once its creation is seen.
NewProcess == [running |-> FALSE, last |-> 0, watched |-> {Factory},
               view |-> [c \in Contracts |-> NoControl], reread |-> FALSE]
Worker(at) == [at |-> at, from |-> 0, to |-> 0, ids |-> {}, batch |-> {}, replay |-> {}, start |-> 0, tries |-> 0]
TickStages == {"polled", "loaded", "replayed", "fetched", "committed"}
FillStages == {"fill", "filled"}

Init ==
  /\ chain = <<>> /\ db = Tables /\ mem = NewProcess
  /\ loop = Worker("new") /\ job = Worker("none")
  /\ closing = "open" /\ since = None
  /\ spent = [faults |-> 0, admin |-> 0, crashes |-> 0]
  /\ mix \in Mixes

\* A failure of the kind the mix allows.
Fault(kind) ==
  /\ kind \in mix.faults /\ spent.faults < MaxFaults
  /\ spent' = [spent EXCEPT !.faults = @ + 1]
-----------------------------------------------------------------------------
\* getEvents without an end: everything from a ledger on, of some contracts.
\* The node is taken to answer with all of it at once: the code never follows
\* the cursor of an answer, so a page limit of the node, or a limit on the
\* number of filters, is outside the model.
GetEvents(from, ids) == {l \in from..Tip : Of(l) \in ids}

\* The settings as loadContractControls last read them decide what is skipped.
Unpaused(batch, view) == {l \in batch : ~view[Of(l)].paused}
EventType(l) == IF Kind(l) = "create" THEN "vault_created" ELSE "other"
Filtered(batch, view) ==
  {l \in Unpaused(batch, view) : view[Of(l)].only # {} /\ EventType(l) \notin view[Of(l)].only}
Taken(batch, view) == Unpaused(batch, view) \ Filtered(batch, view)
Poisoned(batch) == {l \in Taken(batch, mem.view) : Kind(l) = "poison"}

\* Mutant: an event that cannot be decoded is dropped.
DropUndecodable(batch, bad) ==
  LET good == {l \in Taken(batch, mem.view) : Kind(l) \notin bad}
  IN  [db EXCEPT !.applied = @ \cup good, !.again = @ \cup (good \cap db.applied),
                 !.waived = @ \cup Filtered(batch, mem.view),
                 !.vault = @ \/ \E l \in good : Kind(l) = "create"]
\* processEvent on each event of a batch: what cannot be decoded (and, outside
\* a transaction, what a statement refuses) becomes a dead letter.  The guard
\* against duplicates looks for the transport's type, which no row has, so a
\* handler runs again when the event comes again.
ProcessEvents(batch, bad) ==
  LET taken == Taken(batch, mem.view)
      dead == {l \in taken : Kind(l) \in bad}
      good == taken \ dead
  IN  [db EXCEPT !.applied = @ \cup good, !.again = @ \cup (good \cap db.applied),
                 !.dead = @ \cup dead, !.waived = @ \cup Filtered(batch, mem.view),
                 !.vault = @ \/ \E l \in good : Kind(l) = "create"]
\* handleVaultCreated adds to the watched contracts in memory, which a
\* rollback does not undo.
Watched(batch) ==
  mem.watched \cup (IF \E l \in Taken(batch, mem.view) : Kind(l) = "create" THEN {Vault} ELSE {})
ActiveContractIds(view) == {c \in mem.watched : ~view[c].paused}
Followed(watched, from) == IF since = None /\ Vault \in watched THEN from ELSE since

DbUp == closing # "closed"
Fall == /\ loop' = Worker("down")
        /\ mem' = [mem EXCEPT !.running = FALSE]
-----------------------------------------------------------------------------
\* The environment.
Grow ==
  /\ Tip < mix.ledgers
  /\ \E ev \in mix.events :
       /\ ev.kind = "create" => \A l \in 1..Tip : Kind(l) # "create"
       /\ ev.of = Vault => \E l \in 1..Tip : Kind(l) = "create"
       /\ chain' = Append(chain, ev)
  /\ UNCHANGED <<db, mem, loop, job, closing, since, spent, mix>>

\* The process dies and is started again: what it held in memory is gone; the
\* job queue hands the job out again.
Crash ==
  /\ mix.crashes > spent.crashes /\ loop.at # "new"
  /\ mem' = NewProcess /\ loop' = Worker("new") /\ closing' = "open" /\ since' = None
  /\ job' = IF job.at \in FillStages THEN [job EXCEPT !.at = "queued"] ELSE job
  /\ spent' = [spent EXCEPT !.crashes = @ + 1]
  /\ UNCHANGED <<chain, db, mix>>

\* pauseContractIndexing, resumeContractIndexing, setContractEventFilter.
Configure(c, op, Change(_)) ==
  /\ op \in mix.admin /\ spent.admin < mix.settings /\ closing = "open"
  /\ c = Factory \/ db.vault
  /\ db' = [db EXCEPT !.control[c] = Change(@)]
  /\ db'.control # db.control
  /\ spent' = [spent EXCEPT !.admin = @ + 1]
  /\ UNCHANGED <<chain, mem, loop, job, closing, since, mix>>
\* Mutant: pausing again forgets the ledger of the first pause.
PauseAgain(c) ==
  Configure(c, "pause", LAMBDA row : [row EXCEPT !.paused = TRUE, !.pausedAt = db.cursor])
PauseContract(c) ==
  Configure(c, "pause", LAMBDA row :
    [row EXCEPT !.paused = TRUE, !.pausedAt = IF @ = None THEN db.cursor ELSE @])
\* Mutant: resuming forgets where the contract was paused.
ResumeForgets(c) ==
  Configure(c, "resume", LAMBDA row : [row EXCEPT !.paused = FALSE, !.pausedAt = None])
ResumeContract(c) ==
  Configure(c, "resume", LAMBDA row : [row EXCEPT !.paused = FALSE])
SetEventFilter(c, only) ==
  Configure(c, "filter", LAMBDA row : [row EXCEPT !.only = only])
-----------------------------------------------------------------------------
\* start(): from the saved cursor, by a backfill when the gap is large.
Start ==
  /\ loop.at = "new" /\ closing = "open"
  /\ mem' = [mem EXCEPT !.running = TRUE, !.last = db.cursor]
  /\ loop' = Worker("starting")
  /\ UNCHANGED <<chain, db, job, closing, since, spent, mix>>

\* backfill() up to its loop; the contracts to ask for are fixed here.
BeginFill(w, from, to) ==
  LET ids == {c \in mem.watched : ~db.control[c].paused}
  IN  [w EXCEPT !.at = IF ids = {} THEN "skipped" ELSE "fill", !.from = from, !.to = to, !.ids = ids]

EnterLoop ==
  /\ loop.at = "starting"
  /\ IF Tip - mem.last > BatchSize
     THEN LET w == BeginFill(loop, mem.last, Tip)
          IN  /\ loop' = IF w.at = "skipped" THEN Worker("idle") ELSE w
              /\ mem' = [mem EXCEPT !.view = db.control]
     ELSE loop' = Worker("idle") /\ UNCHANGED mem
  /\ UNCHANGED <<chain, db, job, closing, since, spent, mix>>

\* "Indexer failed to start": the process goes on without it.
StartFails ==
  /\ loop.at = "starting" /\ Fault("start")
  /\ Fall
  /\ UNCHANGED <<chain, db, job, closing, since, mix>>

LeaveLoop ==
  /\ loop.at = "idle" /\ ~mem.running
  /\ loop' = Worker("down")
  /\ UNCHANGED <<chain, db, mem, job, closing, since, spent, mix>>

\* Mutant: one new ledger is not enough.
PollOffByOne ==
  /\ loop.at = "idle" /\ mem.running /\ Tip > mem.last + 1
  /\ loop' = [Worker("polled") EXCEPT !.to = Tip]
  /\ UNCHANGED <<chain, db, mem, job, closing, since, spent, mix>>
\* tick(): a failing or stale answer ends it with nothing done.
Poll ==
  /\ loop.at = "idle" /\ mem.running /\ Tip > mem.last
  /\ loop' = [Worker("polled") EXCEPT !.to = Tip]
  /\ UNCHANGED <<chain, db, mem, job, closing, since, spent, mix>>

\* A failing read keeps the settings of the tick before.
LoadContractControls ==
  /\ loop.at = "polled"
  /\ \/ mem' = [mem EXCEPT !.view = db.control, !.reread = FALSE] /\ UNCHANGED spent
     \/ Fault("controls") /\ mem' = [mem EXCEPT !.reread = FALSE]
  /\ loop' = [loop EXCEPT !.at = "loaded", !.replay =
       {c \in Contracts : ~mem'.view[c].paused /\ mem'.view[c].pausedAt # None}]
  /\ UNCHANGED <<chain, db, job, closing, since, mix>>

\* replayResumedContracts for one contract, outside a transaction: its events
\* up to the cursor, then the marker, unless it was paused again meanwhile.
ReplayContract(c) ==
  /\ loop.at = "loaded" /\ c \in loop.replay
  /\ LET batch == {l \in GetEvents(mem.view[c].pausedAt + 1, {c}) : l <= mem.last}
     IN  /\ db' = ProcessEvents(batch, {"bad", "poison"})
         /\ mem' = [mem EXCEPT !.watched = Watched(batch)]
         /\ since' = Followed(Watched(batch), mem.last)
  /\ loop' = [loop EXCEPT !.at = "replayed", !.ids = {c}]
  /\ UNCHANGED <<chain, job, closing, spent, mix>>
\* Mutant: the marker goes although the contract is paused again.
ClearAnyMarker ==
  \E c \in loop.ids :
    /\ loop.at = "replayed"
    /\ db' = [db EXCEPT !.control[c].pausedAt = None]
    /\ mem' = [mem EXCEPT !.view[c].pausedAt = None]
    /\ loop' = [loop EXCEPT !.at = "loaded", !.replay = @ \ {c}]
    /\ UNCHANGED <<chain, job, closing, since, spent, mix>>
\* Mutant: the marker is taken from the settings in memory only.
MarkerStays ==
  \E c \in loop.ids :
    /\ loop.at = "replayed"
    /\ mem' = [mem EXCEPT !.view[c].pausedAt = None]
    /\ loop' = [loop EXCEPT !.at = "loaded", !.replay = @ \ {c}]
    /\ UNCHANGED <<chain, db, job, closing, since, spent, mix>>
\* In memory it goes from the settings the tick began with, which a job that
\* has read them again since has replaced.
ClearMarker ==
  \E c \in loop.ids :
    /\ loop.at = "replayed"
    /\ db' = [db EXCEPT !.control[c].pausedAt = IF db.control[c].paused THEN @ ELSE None]
    /\ mem' = IF mem.reread THEN mem ELSE [mem EXCEPT !.view[c].pausedAt = None]
    /\ loop' = [loop EXCEPT !.at = "loaded", !.replay = @ \ {c}]
    /\ UNCHANGED <<chain, job, closing, since, spent, mix>>
ReplayFails ==
  /\ loop.at = "loaded" /\ Fault("replay")
  /\ \E c \in loop.replay : loop' = [loop EXCEPT !.replay = @ \ {c}]
  /\ UNCHANGED <<chain, db, mem, job, closing, since, mix>>

FetchEvents ==
  /\ loop.at = "loaded" /\ loop.replay = {}
  /\ LET ids == ActiveContractIds(mem.view)
     IN  loop' = [loop EXCEPT !.at = "fetched", !.ids = ids, !.batch = GetEvents(mem.last + 1, ids)]
  /\ UNCHANGED <<chain, db, mem, job, closing, since, spent, mix>>
\* The handler of the error calls tuneBatchSize, which the class lacks.
FetchFails ==
  /\ loop.at = "loaded" /\ loop.replay = {} /\ Fault("fetch")
  /\ IF mix.declared THEN loop' = Worker("idle") /\ UNCHANGED mem ELSE Fall
  /\ UNCHANGED <<chain, db, job, closing, since, mix>>

\* The events and the cursor in one transaction.  The cursor is the tip the
\* tick began with, the events may be of later ledgers.
CommitTick ==
  /\ loop.at = "fetched" /\ DbUp /\ Poisoned(loop.batch) = {}
  /\ db' = [ProcessEvents(loop.batch, {"bad"}) EXCEPT !.cursor = loop.to]
  /\ mem' = [mem EXCEPT !.watched = Watched(loop.batch)]
  /\ since' = Followed(Watched(loop.batch), loop.to)
  /\ loop' = [loop EXCEPT !.at = "committed"]
  /\ UNCHANGED <<chain, job, closing, spent, mix>>

\* A vault may have been noticed before the failure of a transaction.
Noticed(batch) ==
  \E before \in SUBSET batch :
    /\ \A l \in Poisoned(batch) : \A k \in before : k < l
    /\ mem' = [mem EXCEPT !.watched = Watched(before)]
\* A statement that fails aborts the transaction: no dead letter, no cursor.
Rollback ==
  /\ loop.at = "fetched"
  /\ \/ (Poisoned(loop.batch) # {} \/ ~DbUp) /\ UNCHANGED spent
     \/ Fault("commit")
  /\ Noticed(loop.batch)
  /\ loop' = Worker("idle")
  /\ UNCHANGED <<chain, db, job, closing, since, mix>>

\* After the commit: batchDurationMs, which nothing declares, then the retries
\* of notifications, then the cursor in memory.
FinishTick ==
  /\ loop.at = "committed"
  /\ IF mix.declared
     THEN /\ mem' = [mem EXCEPT !.last = loop.to]
          /\ loop' = Worker("idle")
     ELSE Fall
  /\ UNCHANGED <<chain, db, job, closing, since, spent, mix>>
RetriesFail ==
  /\ loop.at = "committed" /\ Fault("retries")
  /\ Fall
  /\ UNCHANGED <<chain, db, job, closing, since, mix>>
-----------------------------------------------------------------------------
\* backfill(), for the loop at startup and for the job.
FillOf(who) == IF who = "loop" THEN loop ELSE job
SetFill(who, w) == IF who = "loop" THEN loop' = w /\ UNCHANGED job ELSE job' = w /\ UNCHANGED loop
\* The loop goes on to its ticks, the job is reported as complete.
FillDone(who) == Worker(IF who = "loop" THEN "idle" ELSE "done")

FetchBatch(who) ==
  LET w == FillOf(who)
  IN  /\ w.at = "fill"
      /\ SetFill(who, [w EXCEPT !.at = "filled", !.batch = GetEvents(w.from + 1, w.ids)])
      /\ UNCHANGED <<chain, db, mem, closing, since, spent, mix>>

BatchTo(w) == IF w.from + BatchSize < w.to THEN w.from + BatchSize ELSE w.to
CommitBatch(who) ==
  LET w == FillOf(who)
      to == BatchTo(w)
  IN  /\ w.at = "filled" /\ DbUp /\ Poisoned(w.batch) = {}
      /\ db' = [ProcessEvents(w.batch, {"bad"}) EXCEPT !.cursor = to]
      /\ mem' = [mem EXCEPT !.watched = Watched(w.batch), !.last = to]
      /\ since' = Followed(Watched(w.batch), w.to)
      /\ SetFill(who, IF to = w.to THEN FillDone(who) ELSE [w EXCEPT !.at = "fill", !.from = to])
      /\ UNCHANGED <<chain, closing, spent, mix>>

\* Any failure ends the range; tuneBatchSize, as it stands, throws out of the
\* handler of the error: the loop falls, the job is tried again.
BatchFails(who) ==
  LET w == FillOf(who)
  IN  /\ w.at \in FillStages
      /\ \/ w.at = "filled" /\ (Poisoned(w.batch) # {} \/ ~DbUp) /\ UNCHANGED spent
         \/ Fault("fill")
      /\ IF mix.declared THEN SetFill(who, FillDone(who)) /\ Noticed(w.batch)
         ELSE IF who = "loop" THEN Fall /\ UNCHANGED job
         ELSE /\ job' = IF job.tries < MaxTries
                        THEN [job EXCEPT !.at = "queued", !.from = job.start, !.tries = @ + 1]
                        ELSE Worker("failed")
              /\ Noticed(w.batch) /\ UNCHANGED loop
      /\ UNCHANGED <<chain, db, closing, since, mix>>

\* backfillIndexer: neither end of the range is compared with the cursor or
\* the tip; mix.within keeps it where it recovers a range already passed.
QueueBackfill(from, to) ==
  /\ closing = "open" /\ job.at = "none"
  /\ <<from, to>> \in mix.jobs
  /\ mix.within => from <= db.cursor /\ to <= Tip
  /\ job' = [Worker("queued") EXCEPT !.from = from, !.start = from, !.to = to]
  /\ UNCHANGED <<chain, db, mem, loop, closing, since, spent, mix>>
RunJob ==
  /\ job.at = "queued" /\ loop.at # "new" /\ closing \in {"open", "draining"}
  /\ mem' = [mem EXCEPT !.view = db.control, !.reread = TRUE]
  /\ job' = LET w == BeginFill(job, job.from, job.to)
            IN  IF w.at = "skipped" THEN Worker("done") ELSE w
  /\ UNCHANGED <<chain, db, loop, closing, since, spent, mix>>
-----------------------------------------------------------------------------
\* shutdown(): the loop stops and what it tracks is awaited, then the job
\* queue, then the pool is closed.
Stop ==
  /\ mix.stop /\ closing = "open" /\ loop.at # "new"
  /\ closing' = "draining"
  /\ mem' = [mem EXCEPT !.running = FALSE]
  /\ UNCHANGED <<chain, db, loop, job, since, spent, mix>>
\* Mutant: drain() does not wait for what is in flight.
DrainAtOnce ==
  /\ closing = "draining"
  /\ closing' = "drained"
  /\ UNCHANGED <<chain, db, mem, loop, job, since, spent, mix>>
Drain ==
  /\ closing = "draining" /\ loop.at \notin TickStages \cup FillStages
  /\ closing' = "drained"
  /\ UNCHANGED <<chain, db, mem, loop, job, since, spent, mix>>
ClosePool ==
  /\ closing = "drained" /\ job.at \notin FillStages
  /\ closing' = "closed"
  /\ UNCHANGED <<chain, db, mem, loop, job, since, spent, mix>>

LoopStep ==
  \/ Start \/ EnterLoop \/ LeaveLoop \/ Poll \/ LoadContractControls
  \/ \E c \in Contracts : ReplayContract(c)
  \/ ClearMarker \/ FetchEvents \/ CommitTick \/ Rollback \/ FinishTick
  \/ FetchBatch("loop") \/ CommitBatch("loop")
JobStep == RunJob \/ FetchBatch("job") \/ CommitBatch("job")
Failures ==
  \/ StartFails \/ ReplayFails \/ FetchFails \/ RetriesFail \/ Crash
  \/ \E who \in {"loop", "job"} : BatchFails(who)
Admin ==
  \/ \E c \in Contracts : PauseContract(c) \/ ResumeContract(c)
                            \/ \E only \in {{}, {"vault_created"}} : SetEventFilter(c, only)
  \/ \E from, to \in 0..(mix.ledgers + 1) : QueueBackfill(from, to)
  \/ Stop

Next == Grow \/ LoopStep \/ JobStep \/ Failures \/ Admin \/ Drain \/ ClosePool

\* The loop and the job queue go on as long as the process does; nothing is
\* assumed of the chain, of failures or of administrators.
Fairness == WF_vars(LoopStep) /\ WF_vars(JobStep)
Spec == Init /\ [][Next]_vars /\ Fairness
-----------------------------------------------------------------------------
\* A ledger that needs nothing more, and one a paused or resumed contract is
\* still to be caught up with.
Settled(l) == l \in db.applied \cup db.dead \cup db.waived
Owed(l) == LET control == db.control[Of(l)]
           IN  control.pausedAt # None /\ control.pausedAt < l
Missed == {l \in 1..db.cursor : l <= Tip /\ ~Settled(l) /\ ~Owed(l)}

\* No event of the factory is passed over: whatever the cursor is past has
\* been applied, is in the dead letters, was filtered, or is owed to a pause,
\* across rollbacks, crashes, backfills of old ranges and pauses that come
\* while a tick, a replay or a backfill is under way.
FactoryComplete == \A l \in Missed : Of(l) # Factory

\* The same of a vault, from the ledger on at which the process has it among
\* its contracts (handleVaultCreated, activeContractIds).
VaultFollowed ==
  mix.jobs = {} => \A l \in Missed : Of(l) = Vault => since = None \/ l <= since

\* "The factory contract plus every vault contract discovered via vault_created
\* events" are what a tick asks for (docs/indexer.md): no event is passed over.
NothingMissed == Missed = {}

\* "Already-indexed events are de-duplicated by processEvent" (indexer.ts,
\* replayResumedContracts): no handler runs twice for an event.
AppliedOnce == db.again = {}

\* The marker of a pause goes only when the contract owes nothing: a resume
\* or a second pause at any moment of the replay loses no ledger.
PausesPaidBack ==
  [][\A c \in Contracts :
       /\ db.control[c].pausedAt # None /\ db'.control[c].pausedAt = None
       /\ c = Factory \/ (mix.jobs = {} /\ since # None /\ since <= db.control[c].pausedAt)
       => \A l \in (db.control[c].pausedAt + 1)..mem.last :
            Of(l) = c => l \in db'.applied \cup db'.dead \cup db'.waived]_vars

\* Once drain() has returned no tick is in flight and none begins, so none
\* writes through the closed pool ("shutdown drains the indexer before it
\* closes the database pool").  A backfill that start() is about to begin is
\* not a tick.
DrainedMeansQuiet == closing \in {"drained", "closed"} => loop.at \notin TickStages

\* Nobody shuts the process down and nothing fails from here on.
Quiet == ~mix.stop /\ (mix.faults = {} \/ spent.faults = MaxFaults)
Digestible == \A ev \in mix.events : ev.kind # "poison"

\* Every start of the process gets the saved cursor as far as the chain was,
\* by the backfill or by its first tick, even one that ends the loop after its
\* commit; an event the database refuses is in the way of every later one.
StartsCatchUp ==
  \A l \in 1..LongestChain :
    (Quiet /\ Digestible /\ loop.at = "starting" /\ l <= Tip) ~> db.cursor >= l

\* "Enters the steady-state loop: while (running)" (docs/indexer.md): with no
\* failure and no shutdown the loop is not left.
KeepsPolling == mix.faults = {} /\ ~mix.stop => loop.at # "down"

\* A contract found resumed while the loop has a new ledger to look at is
\* caught up, unless the process dies first: a tick replays before it fetches.
Resumed(c) == ~db.control[c].paused /\ db.control[c].pausedAt # None
ResumedCatchesUp ==
  \A c \in Contracts :
    (Quiet /\ mix.jobs = {} /\ loop.at = "idle" /\ mem.last < Tip /\ Resumed(c))
      ~> (~Resumed(c) \/ loop.at = "new")

\* The engine as a consumer of the ledgers of the factory.
Log == INSTANCE AtLeastOnceLog WITH
         tip <- Tip,
         cursor <- db.cursor,
         done <- {l \in 1..Tip : Of(l) # Factory \/ Settled(l)},
         owed <- {l \in 1..db.cursor : Of(l) = Factory /\ ~Settled(l) /\ Owed(l)}
LogSpec == Log!Spec
=============================================================================
