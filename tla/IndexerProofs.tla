---------------------------- MODULE IndexerProofs ----------------------------
(***************************************************************************)
(* The indexer passes over no event of the factory, and none of a vault it *)
(* follows, whatever the length of the chain, the size of a batch, the     *)
(* failures, crashes and pauses; pauses are paid back; it implements       *)
(* AtLeastOnceLog; and a drained indexer stays quiet.                      *)
(***************************************************************************)
EXTENDS Indexer, TLAPS

\* What the theorems about completeness ask of a behaviour: where there are
\* backfill jobs they recover ranges already passed, and no contract is paused
\* beside them.
Orderly == \A m \in Mixes : m.jobs = {} \/ (m.within /\ "pause" \notin m.admin)

-----------------------------------------------------------------------------
(* Types *)

Controls == [paused : BOOLEAN, pausedAt : Nat \cup {None}, only : SUBSET {"vault_created"}]
Stages == {"none", "new", "starting", "idle", "polled", "loaded", "replayed", "fetched", "committed",
           "down", "fill", "filled", "skipped", "queued", "done", "failed"}
Workers == [at : Stages, from : Nat, to : Nat, ids : SUBSET Contracts, batch : SUBSET Nat,
            replay : SUBSET Contracts, start : Nat, tries : Nat]
Databases == [cursor : Nat, applied : SUBSET Nat, again : SUBSET Nat, dead : SUBSET Nat,
              waived : SUBSET Nat, vault : BOOLEAN, control : [Contracts -> Controls]]
Memories == [running : BOOLEAN, last : Nat, watched : SUBSET Contracts,
             view : [Contracts -> Controls], reread : BOOLEAN]
Typed ==
  /\ chain \in Seq([of : Contracts, kind : STRING])
  /\ db \in Databases /\ mem \in Memories
  /\ loop \in Workers /\ job \in Workers
  /\ mix \in Mixes

-----------------------------------------------------------------------------
(* The invariant *)

ToldApart == mix.jobs = {} \/ (mix.within /\ "pause" \notin mix.admin)

Control == db.control[Factory]
View == mem.view[Factory]

\* In a state d of the tables a ledger is settled, or it is owed to a pause of
\* the factory; up to a ledger n all of the factory are.
SettledIn(l, d) == l \in d.applied \cup d.dead \cup d.waived
OwedIn(l, d) == d.control[Factory].pausedAt # None /\ d.control[Factory].pausedAt < l
HandledIn(l, d) == SettledIn(l, d) \/ OwedIn(l, d)
FactoryEvents(log, n) == {l \in 1..n : log[l].of = Factory}
HandledTo(n, log, d) == n \in 0..Len(log) /\ \A l \in FactoryEvents(log, n) : HandledIn(l, d)

\* Where there are jobs nothing is ever paused.
Alone ==
  /\ mix.jobs = {} => job.at = "none"
  /\ mix.jobs # {} => /\ ~Control.paused /\ Control.pausedAt = None
                      /\ ~View.paused /\ View.pausedAt = None

\* Without jobs memory and table agree on how far the loop is.
Following == {"starting", "idle", "polled", "loaded", "replayed", "fetched", "fill", "filled"}
InStep ==
  mix.jobs = {} =>
    /\ mem.last <= db.cursor
    /\ loop.at \in Following => mem.last = db.cursor
    /\ loop.at = "committed" => loop.to = db.cursor
    /\ loop.at \in TickStages => mem.last <= loop.to
    /\ loop.at \in FillStages => loop.from = mem.last /\ loop.from <= loop.to

\* The marker of a pause is where the cursor was, and stays until paid back.
Marked ==
  /\ Control.paused => Control.pausedAt # None
  /\ Control.pausedAt # None => Control.pausedAt <= db.cursor
  /\ View.paused => Control.pausedAt \in 0..mem.last
  /\ View.pausedAt # None => Control.pausedAt = View.pausedAt

\* A replay is of a contract in view; after it the contract owes nothing.
Replaying ==
  /\ loop.at \in {"loaded", "replayed"} /\ Factory \in loop.replay
       => ~View.paused /\ View.pausedAt # None
  /\ loop.at = "replayed" => loop.ids \subseteq loop.replay
  /\ loop.at = "replayed" /\ Factory \in loop.ids =>
       \A l \in FactoryEvents(chain, mem.last) : SettledIn(l, db)

\* What a tick has not fetched is handled; committed, all is.
Ticking ==
  /\ loop.at \in TickStages => loop.to <= Tip
  /\ loop.at = "fetched" =>
       \A l \in FactoryEvents(chain, loop.to) : HandledIn(l, db) \/ (l \in loop.batch /\ ~View.paused)
  /\ loop.at = "committed" => HandledTo(loop.to, chain, db)

\* A worker that fills a range has it handled up to where it is, asks for the
\* factory unless that is paused, and what it fetched is the rest.
Filling(w, log, d, paused) ==
  /\ HandledTo(w.from, log, d) /\ w.to <= Len(log)
  /\ Factory \in w.ids <=> ~paused
  /\ w.at = "filled" /\ ~paused => \A l \in FactoryEvents(log, w.to) : l <= w.from \/ l \in w.batch
LoopFills == loop.at \in FillStages => Filling(loop, chain, db, View.paused)
JobFills ==
  /\ job.at \in FillStages => Filling(job, chain, db, View.paused)
  /\ job.at \in {"queued"} \cup FillStages =>
       HandledTo(job.from, chain, db) /\ HandledTo(job.start, chain, db) /\ job.to <= Tip

NothingPassedOver ==
  HandledTo(db.cursor, chain, db) /\ HandledTo(mem.last, chain, db) /\ Factory \in mem.watched

Inv == /\ Typed /\ ToldApart /\ Alone /\ InStep /\ Marked /\ Replaying /\ Ticking
       /\ LoopFills /\ JobFills /\ NothingPassedOver

\* Only a job reads the settings again while a tick goes by them.
Own == mix.jobs = {} => ~mem.reread

\* What processEvent leaves of the database after a batch: only the records of
\* what became of the events grow, and every event of a contract that is not
\* paused in view has become something.
LEMMA Processed ==
  ASSUME Typed, NEW batch \in SUBSET Nat, NEW bad, NEW d, d = ProcessEvents(batch, bad)
  PROVE  /\ d \in Databases /\ d.cursor = db.cursor /\ d.control = db.control
         /\ db.applied \subseteq d.applied /\ db.dead \subseteq d.dead
         /\ db.waived \subseteq d.waived
         /\ \A l \in batch :
              ~mem.view[chain[l].of].paused => l \in d.applied \cup d.dead \cup d.waived
<1> DEFINE taken == Taken(batch, mem.view)
           dead == {l \in taken : Kind(l) \in bad}
           good == taken \ dead
           filtered == Filtered(batch, mem.view)
           vault == db.vault \/ \E l \in good : Kind(l) = "create"
<1>1. /\ taken \subseteq batch /\ filtered \subseteq batch
      /\ \A l \in batch : ~mem.view[chain[l].of].paused => l \in taken \cup filtered
  BY DEF Taken, Filtered, Unpaused, Of
<1>2. d = [db EXCEPT !.applied = db.applied \cup good,
                     !.again = db.again \cup (good \cap db.applied),
                     !.dead = db.dead \cup dead, !.waived = db.waived \cup filtered,
                     !.vault = vault]
  BY DEF ProcessEvents
<1>3. db \in Databases BY DEF Typed
<1>4. vault \in BOOLEAN OBVIOUS
<1>5. good \subseteq batch /\ dead \subseteq batch /\ taken = good \cup dead
  BY <1>1
<1> HIDE DEF taken, filtered, good, dead, vault
<1>6. /\ db.applied \cup good \in SUBSET Nat /\ db.dead \cup dead \in SUBSET Nat
      /\ db.waived \cup filtered \in SUBSET Nat
      /\ db.again \cup (good \cap db.applied) \in SUBSET Nat
  BY <1>1, <1>3, <1>5 DEF Databases
<1>7. d \in Databases
  BY <1>2, <1>3, <1>4, <1>6 DEF Databases
<1>8. /\ d.cursor = db.cursor /\ d.control = db.control
      /\ d.applied = db.applied \cup good /\ d.dead = db.dead \cup dead
      /\ d.waived = db.waived \cup filtered
  BY <1>2, <1>3 DEF Databases
<1> QED BY <1>1, <1>5, <1>7, <1>8

LEMMA WatchedType ==
  ASSUME Typed, NEW batch
  PROVE  Watched(batch) \in SUBSET Contracts /\ mem.watched \subseteq Watched(batch)
BY DEF Typed, Memories, Watched, Contracts

LEMMA Fetched ==
  ASSUME Typed, NEW from \in Nat, NEW ids
  PROVE  GetEvents(from, ids) \in SUBSET Nat
BY DEF Typed, GetEvents, Tip

LEMMA WorkerType ==
  ASSUME NEW at \in Stages
  PROVE  Worker(at) \in Workers
BY DEF Worker, Workers

LEMMA InitTyped == Init => Typed
<1> SUFFICES ASSUME Init PROVE Typed OBVIOUS
<1>1. Factory \in Contracts BY DEF Contracts
<1>2. NoControl \in Controls BY DEF NoControl, Controls
<1>3. db \in Databases BY <1>2 DEF Init, Tables, Databases
<1>4. mem \in Memories BY <1>1, <1>2 DEF Init, NewProcess, Memories
<1>5. loop \in Workers /\ job \in Workers BY WorkerType DEF Init, Stages
<1> QED BY <1>3, <1>4, <1>5 DEF Init, Typed

\* backfill() begins with a range and the contracts to ask for.
Asked == {c \in mem.watched : ~db.control[c].paused}
FirstStage == IF Asked = {} THEN "skipped" ELSE "fill"

LEMMA BeginFillType ==
  ASSUME Typed, NEW w \in Workers, NEW from \in Nat, NEW to \in Nat
  PROVE  /\ BeginFill(w, from, to) \in Workers
         /\ BeginFill(w, from, to).from = from /\ BeginFill(w, from, to).to = to
         /\ BeginFill(w, from, to).start = w.start /\ BeginFill(w, from, to).ids = Asked
         /\ BeginFill(w, from, to).at = FirstStage
<1> DEFINE b == BeginFill(w, from, to)
<1>1. Asked \in SUBSET Contracts BY DEF Asked, Typed, Memories
<1>2. b = [w EXCEPT !.at = FirstStage, !.from = from, !.to = to, !.ids = Asked]
  BY DEF BeginFill, Asked, FirstStage
<1>3. FirstStage \in Stages BY DEF FirstStage, Stages
<1> HIDE DEF b
<1>4. /\ b \in Workers /\ b.from = from /\ b.to = to /\ b.start = w.start
      /\ b.ids = Asked /\ b.at = FirstStage
  BY <1>1, <1>2, <1>3 DEF Workers
<1> QED BY <1>4 DEF b

LEMMA StepTyped == Typed /\ [Next]_vars => Typed'
<1> SUFFICES ASSUME Typed, [Next]_vars PROVE Typed' OBVIOUS
<1> USE BatchAssumption
<1>a. /\ db \in Databases /\ mem \in Memories /\ loop \in Workers /\ job \in Workers
      /\ db.control \in [Contracts -> Controls] /\ mem.view \in [Contracts -> Controls]
      /\ Tip \in Nat /\ mem.last \in Nat /\ db.cursor \in Nat
  BY DEF Typed, Databases, Memories, Tip
<1>b. Factory \in Contracts BY DEF Contracts
<1>c. NewProcess \in Memories
  <2>1. NoControl \in Controls BY DEF NoControl, Controls
  <2> QED BY <1>b, <2>1 DEF NewProcess, Memories
<1>1. CASE Grow
  <2>1. PICK ev \in mix.events : chain' = Append(chain, ev)
    BY <1>1 DEF Grow
  <2>2. ev \in [of : Contracts, kind : STRING]
    BY MixAssumption DEF Typed, Contracts
  <2> QED BY <1>1, <2>1, <2>2 DEF Grow, Typed
<1>2. CASE Crash
  <2>1. job' \in Workers BY <1>2, <1>a DEF Crash, Workers, Stages
  <2> QED BY <1>2, <1>c, <2>1, WorkerType DEF Stages, Crash, Typed
<1>3. ASSUME NEW c \in Contracts, NEW only \in SUBSET {"vault_created"},
             PauseContract(c) \/ ResumeContract(c) \/ SetEventFilter(c, only)
      PROVE  Typed'
  <2>1. PICK row \in Controls : db' = [db EXCEPT !.control[c] = row]
    <3>1. db.control[c] \in Controls BY <1>a
    <3>2. CASE PauseContract(c)
      BY <1>a, <3>1, <3>2 DEF PauseContract, Configure, Controls
    <3>3. CASE ResumeContract(c)
      BY <1>a, <3>1, <3>3 DEF ResumeContract, Configure, Controls
    <3>4. CASE SetEventFilter(c, only)
      BY <1>a, <3>1, <3>4 DEF SetEventFilter, Configure, Controls
    <3> QED BY <1>3, <3>2, <3>3, <3>4
  <2>2. db' \in Databases BY <1>a, <2>1 DEF Databases
  <2>3. UNCHANGED <<chain, mem, loop, job, mix>>
    BY <1>3 DEF PauseContract, ResumeContract, SetEventFilter, Configure
  <2> QED BY <2>2, <2>3 DEF Typed
<1>4. CASE Start
  <2>1. mem' \in Memories BY <1>4, <1>a DEF Start, Memories
  <2> QED BY <1>4, <2>1, WorkerType DEF Stages, Start, Typed
<1>5. CASE EnterLoop
  <2>1. mem' \in Memories BY <1>5, <1>a DEF EnterLoop, Memories
  <2>2. BeginFill(loop, mem.last, Tip) \in Workers BY <1>a, BeginFillType
  <2>3. loop' \in Workers BY <1>5, <2>2, WorkerType DEF Stages, EnterLoop
  <2> QED BY <1>5, <2>1, <2>3 DEF EnterLoop, Typed
<1>6. CASE StartFails \/ RetriesFail \/ FetchFails \/ LeaveLoop
  <2>1. [mem EXCEPT !.running = FALSE] \in Memories BY <1>a DEF Memories
  <2> QED BY <1>6, <2>1, WorkerType
          DEF Stages, StartFails, RetriesFail, FetchFails, LeaveLoop, Fall, Typed
<1>7. CASE Poll
  <2>1. loop' \in Workers BY <1>7, <1>a, WorkerType DEF Poll, Workers, Stages
  <2> QED BY <1>7, <2>1 DEF Poll, Typed
<1>8. CASE LoadContractControls
  <2>1. mem' \in Memories BY <1>8, <1>a DEF LoadContractControls, Memories
  <2>2. loop' \in Workers BY <1>8, <1>a DEF LoadContractControls, Workers, Stages
  <2> QED BY <1>8, <2>1, <2>2 DEF LoadContractControls, Typed
<1>9. ASSUME NEW c \in Contracts, ReplayContract(c) PROVE Typed'
  <2> DEFINE batch == {l \in GetEvents(mem.view[c].pausedAt + 1, {c}) : l <= mem.last}
  <2>1. mem.view[c].pausedAt + 1 \in Nat BY <1>a DEF Controls, None
  <2>2. batch \in SUBSET Nat BY <2>1, Fetched
  <2>3. db' = ProcessEvents(batch, {"bad", "poison"})
        /\ mem' = [mem EXCEPT !.watched = Watched(batch)]
    BY <1>9 DEF ReplayContract
  <2>4. db' \in Databases BY <2>2, <2>3, Processed
  <2>5. mem' \in Memories BY <1>a, <2>3, WatchedType DEF Memories
  <2>6. loop' \in Workers BY <1>9, <1>a DEF ReplayContract, Workers, Stages
  <2> QED BY <1>9, <2>4, <2>5, <2>6 DEF ReplayContract, Typed
<1>10. CASE ClearMarker
  <2>1. PICK c \in loop.ids :
          /\ db' = [db EXCEPT !.control[c].pausedAt = IF db.control[c].paused THEN @ ELSE None]
          /\ mem' = IF mem.reread THEN mem ELSE [mem EXCEPT !.view[c].pausedAt = None]
          /\ loop' = [loop EXCEPT !.at = "loaded", !.replay = @ \ {c}]
          /\ UNCHANGED <<chain, job, mix>>
    BY <1>10 DEF ClearMarker
  <2>2. c \in Contracts BY <1>a DEF Workers
  <2>3. db.control[c] \in Controls /\ mem.view[c] \in Controls BY <1>a, <2>2
  <2>4. db' \in Databases BY <1>a, <2>1, <2>2, <2>3 DEF Databases, Controls
  <2>5. mem' \in Memories BY <1>a, <2>1, <2>2, <2>3 DEF Memories, Controls
  <2>6. loop' \in Workers BY <1>a, <2>1 DEF Workers, Stages
  <2> QED BY <2>1, <2>4, <2>5, <2>6 DEF Typed
<1>11. CASE ReplayFails
  <2>1. loop' \in Workers BY <1>11, <1>a DEF ReplayFails, Workers, Stages
  <2> QED BY <1>11, <2>1 DEF ReplayFails, Typed
<1>12. CASE FetchEvents
  <2>1. ActiveContractIds(mem.view) \in SUBSET Contracts BY <1>a DEF ActiveContractIds, Memories
  <2>2. GetEvents(mem.last + 1, ActiveContractIds(mem.view)) \in SUBSET Nat BY <1>a, Fetched
  <2>3. loop' \in Workers BY <1>12, <1>a, <2>1, <2>2 DEF FetchEvents, Workers, Stages
  <2> QED BY <1>12, <2>3 DEF FetchEvents, Typed
<1>13. CASE CommitTick
  <2> DEFINE d == ProcessEvents(loop.batch, {"bad"})
  <2>1. loop.batch \in SUBSET Nat /\ loop.to \in Nat BY <1>a DEF Workers
  <2>2. d \in Databases BY <2>1, Processed
  <2>3. db' = [d EXCEPT !.cursor = loop.to] BY <1>13 DEF CommitTick
  <2> HIDE DEF d
  <2>4. db' \in Databases BY <2>1, <2>2, <2>3 DEF Databases
  <2>5. mem' \in Memories BY <1>13, <1>a, <2>1, WatchedType DEF CommitTick, Memories
  <2>6. loop' \in Workers BY <1>13, <1>a DEF CommitTick, Workers, Stages
  <2> QED BY <1>13, <2>4, <2>5, <2>6 DEF CommitTick, Typed
<1>14. CASE Rollback
  <2>1. PICK before \in SUBSET loop.batch : mem' = [mem EXCEPT !.watched = Watched(before)]
    BY <1>14 DEF Rollback, Noticed
  <2>2. mem' \in Memories BY <1>a, <2>1, WatchedType DEF Memories
  <2> QED BY <1>14, <2>2, WorkerType DEF Stages, Rollback, Typed
<1>15. CASE FinishTick
  <2>1. mem' \in Memories BY <1>15, <1>a DEF FinishTick, Fall, Memories, Workers, Stages
  <2> QED BY <1>15, <2>1, WorkerType DEF Stages, FinishTick, Fall, Typed
<1>16. ASSUME NEW who \in {"loop", "job"}, FetchBatch(who) PROVE Typed'
  <2>1. FillOf(who) \in Workers BY <1>a DEF FillOf
  <2>2. GetEvents(FillOf(who).from + 1, FillOf(who).ids) \in SUBSET Nat
    BY <2>1, Fetched DEF Workers
  <2>3. [FillOf(who) EXCEPT !.at = "filled",
           !.batch = GetEvents(FillOf(who).from + 1, FillOf(who).ids)] \in Workers
    BY <2>1, <2>2 DEF Workers, Stages
  <2> QED BY <1>16, <2>3 DEF FetchBatch, SetFill, Typed
<1>17. ASSUME NEW who \in {"loop", "job"}, CommitBatch(who) PROVE Typed'
  <2> DEFINE w == FillOf(who)
             d == ProcessEvents(w.batch, {"bad"})
  <2>1. w \in Workers BY <1>a DEF FillOf
  <2>2. w.batch \in SUBSET Nat /\ BatchTo(w) \in Nat BY <2>1 DEF Workers, BatchTo
  <2>3. d \in Databases BY <2>2, Processed
  <2>4. /\ db' = [d EXCEPT !.cursor = BatchTo(w)]
        /\ mem' = [mem EXCEPT !.watched = Watched(w.batch), !.last = BatchTo(w)]
        /\ SetFill(who, IF BatchTo(w) = w.to THEN FillDone(who)
                        ELSE [w EXCEPT !.at = "fill", !.from = BatchTo(w)])
        /\ UNCHANGED <<chain, mix>>
    BY <1>17 DEF CommitBatch
  <2> HIDE DEF d
  <2>5. db' \in Databases BY <2>2, <2>3, <2>4 DEF Databases
  <2>6. mem' \in Memories BY <1>a, <2>2, <2>4, WatchedType DEF Memories
  <2>7. FillDone(who) \in Workers BY WorkerType DEF Stages, FillDone
  <2>8. [w EXCEPT !.at = "fill", !.from = BatchTo(w)] \in Workers BY <2>1, <2>2 DEF Workers, Stages
  <2> HIDE DEF w
  <2>9. loop' \in Workers /\ job' \in Workers BY <1>a, <2>4, <2>7, <2>8 DEF SetFill
  <2> QED BY <2>4, <2>5, <2>6, <2>9 DEF Typed
<1>18. ASSUME NEW who \in {"loop", "job"}, BatchFails(who) PROVE Typed'
  <2>1. FillDone(who) \in Workers /\ Worker("failed") \in Workers /\ Worker("down") \in Workers
    BY WorkerType DEF Stages, FillDone
  <2>2. [job EXCEPT !.at = "queued", !.from = job.start, !.tries = @ + 1] \in Workers
    <3>1. job.start \in Nat /\ job.tries + 1 \in Nat BY <1>a DEF Workers
    <3> QED BY <1>a, <3>1 DEF Workers, Stages
  <2>3. loop' \in Workers /\ job' \in Workers
    BY <1>18, <1>a, <2>1, <2>2 DEF BatchFails, SetFill, Fall
  <2>4. mem' \in Memories
    <3>1. \/ mem' = [mem EXCEPT !.running = FALSE]
          \/ \E before : mem' = [mem EXCEPT !.watched = Watched(before)]
      BY <1>18 DEF BatchFails, Noticed, Fall
    <3>2. CASE mem' = [mem EXCEPT !.running = FALSE] BY <1>a, <3>2 DEF Memories
    <3>3. CASE \E before : mem' = [mem EXCEPT !.watched = Watched(before)]
      BY <1>a, <3>3, WatchedType DEF Memories
    <3> QED BY <3>1, <3>2, <3>3
  <2> QED BY <1>18, <2>3, <2>4 DEF BatchFails, Typed
<1>19. ASSUME NEW from \in Nat, NEW to \in Nat, QueueBackfill(from, to) PROVE Typed'
  <2>1. job' \in Workers BY <1>19, WorkerType DEF Stages, QueueBackfill, Workers
  <2> QED BY <1>19, <2>1 DEF QueueBackfill, Typed
<1>20. CASE RunJob
  <2>1. mem' \in Memories BY <1>20, <1>a DEF RunJob, Memories
  <2>2. BeginFill(job, job.from, job.to) \in Workers BY <1>a, BeginFillType DEF Workers
  <2>3. job' \in Workers BY <1>20, <2>2, WorkerType DEF Stages, RunJob
  <2> QED BY <1>20, <2>1, <2>3 DEF RunJob, Typed
<1>21. CASE Stop \/ Drain \/ ClosePool
  <2>1. [mem EXCEPT !.running = FALSE] \in Memories BY <1>a DEF Memories
  <2> QED BY <1>21, <2>1 DEF Stop, Drain, ClosePool, Typed
<1>22. CASE UNCHANGED vars
  BY <1>22 DEF vars, Typed
<1>23. CASE Admin
  <2>1. mix.ledgers \in Nat BY MixAssumption DEF Typed
  <2>2. 0..(mix.ledgers + 1) \subseteq Nat BY <2>1
  <2>3. {} \in SUBSET {"vault_created"} /\ {"vault_created"} \in SUBSET {"vault_created"} OBVIOUS
  <2>4. CASE \E c \in Contracts : PauseContract(c) \/ ResumeContract(c)
                \/ \E only \in {{}, {"vault_created"}} : SetEventFilter(c, only)
    BY <1>3, <2>3, <2>4
  <2>5. CASE \E from, to \in 0..(mix.ledgers + 1) : QueueBackfill(from, to)
    BY <1>19, <2>2, <2>5
  <2> QED BY <1>21, <1>23, <2>4, <2>5 DEF Admin
<1>24. CASE Failures
  BY <1>2, <1>6, <1>11, <1>18, <1>24 DEF Failures
<1>25. CASE LoopStep \/ JobStep
  BY <1>4, <1>5, <1>6, <1>7, <1>8, <1>9, <1>10, <1>12, <1>13, <1>14, <1>15, <1>16, <1>17,
     <1>20, <1>25 DEF LoopStep, JobStep
<1> QED BY <1>1, <1>21, <1>22, <1>23, <1>24, <1>25 DEF Next
-----------------------------------------------------------------------------
(* What a step may not forget *)

Remembers(log, d, log2, d2) ==
  /\ d.applied \subseteq d2.applied /\ d.dead \subseteq d2.dead /\ d.waived \subseteq d2.waived
  /\ d.control[Factory].pausedAt # None =>
       d2.control[Factory].pausedAt = d.control[Factory].pausedAt
  /\ Len(log) \in Nat /\ Len(log2) \in Nat /\ Len(log) <= Len(log2)
  /\ \A l \in 1..Len(log) : log2[l] = log[l]

LEMMA StaysHandled ==
  ASSUME NEW log, NEW log2, NEW d, NEW d2, Remembers(log, d, log2, d2), NEW l
  PROVE  /\ HandledIn(l, d) => HandledIn(l, d2)
         /\ SettledIn(l, d) => SettledIn(l, d2)
BY DEF Remembers, HandledIn, SettledIn, OwedIn

LEMMA SameEvents ==
  ASSUME NEW log, NEW log2, NEW d, NEW d2, Remembers(log, d, log2, d2),
         NEW n \in Nat, n <= Len(log)
  PROVE  FactoryEvents(log2, n) = FactoryEvents(log, n)
BY DEF Remembers, FactoryEvents

LEMMA StaysHandledTo ==
  ASSUME NEW log, NEW log2, NEW d, NEW d2, Remembers(log, d, log2, d2),
         NEW n, HandledTo(n, log, d)
  PROVE  HandledTo(n, log2, d2)
<1>1. n \in Nat /\ n <= Len(log) /\ n \in 0..Len(log2) BY DEF HandledTo, Remembers
<1> QED BY <1>1, StaysHandled, SameEvents DEF HandledTo

LEMMA StaysFilling ==
  ASSUME NEW log, NEW log2, NEW d, NEW d2, Remembers(log, d, log2, d2),
         NEW w \in Workers, NEW paused, Filling(w, log, d, paused)
  PROVE  Filling(w, log2, d2, paused)
<1>1. HandledTo(w.from, log2, d2) BY StaysHandledTo DEF Filling
<1>2. w.to \in Nat /\ w.to <= Len(log) /\ w.to <= Len(log2) BY DEF Filling, Workers, Remembers
<1>3. FactoryEvents(log2, w.to) = FactoryEvents(log, w.to) BY <1>2, SameEvents
<1> QED BY <1>1, <1>2, <1>3 DEF Filling

\* A step that only adds to what became of the events, and keeps the marker.
LEMMA RemembersMore ==
  ASSUME Typed, chain' = chain, db.applied \subseteq db'.applied, db.dead \subseteq db'.dead,
         db.waived \subseteq db'.waived, Control' = Control
  PROVE  Remembers(chain, db, chain', db')
<1>1. Len(chain) \in Nat BY DEF Typed
<1> QED BY <1>1 DEF Remembers, Control

\* With tables and chain as they were nothing is forgotten.
LEMMA RemembersSame ==
  ASSUME Typed, chain' = chain, db' = db
  PROVE  Remembers(chain, db, chain', db')
BY DEF Typed, Remembers

\* Nor by a transaction.
LEMMA RemembersProcessed ==
  ASSUME Typed, chain' = chain, NEW batch \in SUBSET Nat, NEW bad, NEW cursor \in Nat,
         db' = [ProcessEvents(batch, bad) EXCEPT !.cursor = cursor]
  PROVE  /\ Remembers(chain, db, chain', db')
         /\ db'.cursor = cursor /\ db'.control = db.control
         /\ \A l \in batch : ~mem.view[chain[l].of].paused => SettledIn(l, db')
<1> DEFINE d == ProcessEvents(batch, bad)
<1>1. /\ d \in Databases /\ d.control = db.control
      /\ db.applied \subseteq d.applied /\ db.dead \subseteq d.dead /\ db.waived \subseteq d.waived
      /\ \A l \in batch : ~mem.view[chain[l].of].paused => SettledIn(l, d)
  BY Processed DEF SettledIn
<1>2. db' = [d EXCEPT !.cursor = cursor] OBVIOUS
<1> HIDE DEF d
<1>3. /\ db'.applied = d.applied /\ db'.dead = d.dead /\ db'.waived = d.waived
      /\ db'.control = d.control /\ db'.cursor = cursor
  BY <1>1, <1>2 DEF Databases
<1>4. Len(chain) \in Nat BY DEF Typed
<1> QED BY <1>1, <1>3, <1>4 DEF Remembers, SettledIn

LEMMA TickingKept ==
  ASSUME Typed, Ticking, Remembers(chain, db, chain', db'), loop' = loop,
         View'.paused = View.paused
  PROVE  Ticking'
<1>1. loop.to \in Nat BY DEF Typed, Workers
<1>2. loop.at \in TickStages => FactoryEvents(chain', loop.to) = FactoryEvents(chain, loop.to)
  BY <1>1, SameEvents DEF Ticking, Tip
<1>3. loop.at \in TickStages => loop.to <= Tip' BY <1>1 DEF Ticking, Tip, Remembers
<1>4. loop.at = "committed" => HandledTo(loop.to, chain', db')
  BY StaysHandledTo DEF Ticking
<1>5. ASSUME loop.at = "fetched", NEW l \in FactoryEvents(chain', loop.to)
      PROVE  HandledIn(l, db') \/ (l \in loop.batch /\ ~View.paused)
  BY <1>2, <1>5, StaysHandled DEF Ticking, TickStages
<1> QED BY <1>3, <1>4, <1>5 DEF Ticking

LEMMA LoopFillsKept ==
  ASSUME Typed, LoopFills, Remembers(chain, db, chain', db'), loop' = loop,
         View'.paused = View.paused
  PROVE  LoopFills'
BY StaysFilling DEF LoopFills, Typed

LEMMA JobFillsKept ==
  ASSUME Typed, JobFills, Remembers(chain, db, chain', db'), job' = job,
         View'.paused = View.paused
  PROVE  JobFills'
<1>1. job.at \in FillStages => Filling(job, chain', db', View'.paused)
  BY StaysFilling DEF JobFills, Typed
<1>2. job.at \in {"queued"} \cup FillStages =>
        HandledTo(job.from, chain', db') /\ HandledTo(job.start, chain', db')
  BY StaysHandledTo DEF JobFills
<1>3. job.to <= Tip => job.to <= Tip' BY DEF Tip, Remembers, Typed, Workers
<1> QED BY <1>1, <1>2, <1>3 DEF JobFills

\* A step of an actor that touches neither workers nor what the loop knows.
LEMMA Bystander ==
  ASSUME Inv, Remembers(chain, db, chain', db'), loop' = loop, job' = job, mix' = mix,
         mem'.last = mem.last, mem'.watched = mem.watched, mem'.view = mem.view,
         db'.cursor = db.cursor
  PROVE  ToldApart' /\ InStep' /\ Replaying' /\ Ticking' /\ LoopFills' /\ JobFills' /\ NothingPassedOver'
<1>1. View' = View BY DEF View
<1>2. Ticking' /\ LoopFills' /\ JobFills'
  BY <1>1, TickingKept, LoopFillsKept, JobFillsKept DEF Inv
<1>3. NothingPassedOver' BY StaysHandledTo DEF Inv, NothingPassedOver
<1>4. FactoryEvents(chain', mem.last) = FactoryEvents(chain, mem.last)
  BY SameEvents DEF Inv, NothingPassedOver, HandledTo, Typed, Memories
<1>5. Replaying' BY <1>1, <1>4, StaysHandled DEF Inv, Replaying
<1>6. InStep' /\ ToldApart' BY DEF Inv, InStep, ToldApart
<1> QED BY <1>2, <1>3, <1>5, <1>6
-----------------------------------------------------------------------------
(* The invariant holds at first and is kept by every step *)

LEMMA InitInv == Init /\ ToldApart => Inv
<1> SUFFICES ASSUME Init, ToldApart PROVE Inv OBVIOUS
<1>1. Typed /\ ToldApart BY InitTyped
<1>2. Control = NoControl /\ View = NoControl /\ mem.last = 0 /\ db.cursor = 0 /\ Tip = 0
  BY DEF Init, Tables, NewProcess, Control, View, Contracts, Tip
<1>3. loop.at = "new" /\ job.at = "none" BY DEF Init, Worker
<1>4. HandledTo(0, chain, db) BY <1>2 DEF HandledTo, FactoryEvents, Tip
<1>5. NothingPassedOver BY <1>2, <1>4 DEF NothingPassedOver, Init, NewProcess
<1>6. Alone /\ Marked BY <1>2, <1>3 DEF Alone, Marked, NoControl
<1>7. InStep /\ Replaying /\ Ticking
  BY <1>2, <1>3 DEF InStep, Following, TickStages, FillStages, Replaying, Ticking
<1>8. LoopFills /\ JobFills BY <1>3 DEF LoopFills, JobFills, FillStages
<1> QED BY <1>1, <1>5, <1>6, <1>7, <1>8 DEF Inv

LEMMA EnvironmentKeeps ==
  ASSUME Inv, Typed', Grow \/ Stop \/ Drain \/ ClosePool
  PROVE  Inv'
<1>1. Remembers(chain, db, chain', db')
  <2>1. CASE Grow
    <3>1. PICK ev \in mix.events : chain' = Append(chain, ev) BY <2>1 DEF Grow
    <3>2. ev \in [of : Contracts, kind : STRING]
      BY MixAssumption DEF Inv, Typed, Contracts
    <3>3. /\ Len(chain) \in Nat /\ Len(chain') = Len(chain) + 1
          /\ \A l \in 1..Len(chain) : chain'[l] = chain[l]
      BY <3>1, <3>2 DEF Inv, Typed
    <3> QED BY <2>1, <3>3 DEF Grow, Remembers
  <2>2. CASE Stop \/ Drain \/ ClosePool
    BY <2>2, RemembersSame DEF Inv, Stop, Drain, ClosePool
  <2> QED BY <2>1, <2>2
<1>2. /\ UNCHANGED <<db, loop, job, mix>>
      /\ mem'.last = mem.last /\ mem'.watched = mem.watched /\ mem'.view = mem.view
  BY DEF Inv, Typed, Memories, Grow, Stop, Drain, ClosePool
<1>3. /\ ToldApart' /\ InStep' /\ Replaying' /\ Ticking' /\ LoopFills' /\ JobFills'
      /\ NothingPassedOver'
  BY <1>1, <1>2, Bystander
<1>4. Alone' /\ Marked' BY <1>2 DEF Inv, Alone, Marked, Control, View
<1> QED BY <1>3, <1>4 DEF Inv

\* An administrator changes the row of one contract; a marker, once set, stays.
LEMMA SettingsKeep ==
  ASSUME Inv, Typed', NEW c \in Contracts, NEW only,
         PauseContract(c) \/ ResumeContract(c) \/ SetEventFilter(c, only)
  PROVE  Inv'
<1> DEFINE old == db.control[Factory]
           new == db'.control[Factory]
<1>1. Factory \in Contracts /\ old \in Controls /\ db \in Databases
  BY DEF Inv, Typed, Databases, Contracts
<1>2. UNCHANGED <<chain, mem, loop, job, mix>>
  BY DEF PauseContract, ResumeContract, SetEventFilter, Configure
<1>3. PICK row : db' = [db EXCEPT !.control[c] = row]
  BY DEF PauseContract, ResumeContract, SetEventFilter, Configure
<1>4. /\ db'.cursor = db.cursor /\ db'.applied = db.applied /\ db'.dead = db.dead
      /\ db'.waived = db.waived
      /\ c # Factory => new = old
  BY <1>1, <1>3 DEF Databases
<1>5. /\ old.pausedAt # None => new.pausedAt = old.pausedAt
      /\ new.paused => old.paused \/ (new.pausedAt # None /\ "pause" \in mix.admin)
      /\ new.pausedAt # None => new.pausedAt = old.pausedAt
                             \/ (new.pausedAt = db.cursor /\ "pause" \in mix.admin)
  <2>1. CASE c = Factory
    <3>1. CASE PauseContract(c)
      <4>1. /\ new.paused /\ "pause" \in mix.admin
            /\ new.pausedAt = IF old.pausedAt = None THEN db.cursor ELSE old.pausedAt
        BY <1>1, <2>1, <3>1 DEF PauseContract, Configure, Databases, Controls
      <4>2. db.cursor # None BY <1>1 DEF Databases, None
      <4> QED BY <4>1, <4>2
    <3>2. CASE ResumeContract(c)
      BY <1>1, <2>1, <3>2 DEF ResumeContract, Configure, Databases, Controls
    <3>3. CASE SetEventFilter(c, only)
      BY <1>1, <2>1, <3>3 DEF SetEventFilter, Configure, Databases, Controls
    <3> QED BY <3>1, <3>2, <3>3
  <2>2. CASE c # Factory BY <1>4, <2>2
  <2> QED BY <2>1, <2>2
<1>6. Remembers(chain, db, chain', db') BY <1>2, <1>4, <1>5 DEF Inv, Typed, Remembers
<1>7. /\ ToldApart' /\ InStep' /\ Replaying' /\ Ticking' /\ LoopFills' /\ JobFills'
      /\ NothingPassedOver'
  BY <1>2, <1>4, <1>6, Bystander
<1>8. Control = old /\ Control' = new /\ View' = View BY <1>2 DEF Control, View
<1> HIDE DEF old, new
<1>9. Alone' BY <1>2, <1>5, <1>8 DEF Inv, Alone, ToldApart
<1>10. db.cursor \in Nat BY <1>1 DEF Databases
<1>11. Marked' BY <1>2, <1>4, <1>5, <1>8, <1>10 DEF Inv, Marked, None
<1> QED BY <1>7, <1>9, <1>11 DEF Inv

\* A crash empties the memory and hands the job out again.
LEMMA CrashKeeps ==
  ASSUME Inv, Typed', Crash
  PROVE  Inv'
<1>1. /\ mem' = NewProcess /\ loop'.at = "new" /\ UNCHANGED <<chain, db, mix>>
      /\ job' = IF job.at \in FillStages THEN [job EXCEPT !.at = "queued"] ELSE job
  BY DEF Crash, Worker
<1>2. mem'.last = 0 /\ Factory \in mem'.watched /\ View' = NoControl /\ Control' = Control
  BY <1>1 DEF NewProcess, View, Control, Contracts
<1>3. Tip \in Nat BY DEF Inv, Typed, Tip
<1>4. HandledTo(0, chain, db) BY <1>3 DEF HandledTo, FactoryEvents, Tip
<1>5. NothingPassedOver' BY <1>1, <1>2, <1>4 DEF Inv, NothingPassedOver
<1>6. ToldApart' /\ Alone'
  BY <1>1, <1>2 DEF Inv, ToldApart, Alone, NoControl, FillStages
<1>7. db.cursor \in Nat BY DEF Inv, Typed, Databases
<1>8. InStep' /\ Marked'
  BY <1>1, <1>2, <1>7 DEF Inv, InStep, Marked, NoControl, Following, TickStages, FillStages
<1>9. Replaying' /\ Ticking' /\ LoopFills'
  BY <1>1 DEF Replaying, Ticking, LoopFills, TickStages, FillStages
<1>10. JobFills'
  <2>1. CASE job.at \in FillStages
    <3>1. job'.at = "queued" /\ job'.from = job.from /\ job'.start = job.start /\ job'.to = job.to
      BY <1>1, <2>1 DEF Inv, Typed, Workers
    <3> QED BY <1>1, <2>1, <3>1 DEF Inv, JobFills, FillStages, Tip
  <2>2. CASE job.at \notin FillStages
    BY <1>1, <2>2 DEF Inv, JobFills, Tip
  <2> QED BY <2>1, <2>2
<1> QED BY <1>5, <1>6, <1>8, <1>9, <1>10 DEF Inv
-----------------------------------------------------------------------------
(* The steps of the loop that leave the tables alone *)

LEMMA JobSurvives ==
  ASSUME Inv, Typed', Alone', Remembers(chain, db, chain', db'), job' = job, mix' = mix
  PROVE  JobFills'
<1>1. CASE mix.jobs = {}
  BY <1>1 DEF Inv, Alone, JobFills, FillStages
<1>2. CASE mix.jobs # {}
  <2>1. View.paused \in BOOLEAN /\ View'.paused \in BOOLEAN
    BY DEF Inv, Typed, View, Memories, Controls, Contracts
  <2>2. View'.paused = View.paused BY <1>2, <2>1 DEF Inv, Alone
  <2> QED BY <2>2, JobFillsKept DEF Inv
<1> QED BY <1>1, <1>2

\* The settings in memory are as they were or are read again.
LEMMA Reread ==
  ASSUME Inv, Typed', UNCHANGED <<db, mix>>, mem'.last = mem.last,
         View' = View \/ View' = Control,
         View' = Control => (mix.jobs = {} => mem.last = db.cursor),
         job' = job \/ mix.jobs # {}
  PROVE  Alone' /\ Marked'
<1>1. Control' = Control BY DEF Control
<1>2. Alone' BY <1>1 DEF Inv, Alone
<1>3. Control.pausedAt \in Nat \cup {None} /\ db.cursor \in Nat /\ mem.last \in Nat
  BY DEF Inv, Typed, Control, Databases, Memories, Controls, Contracts
<1>4. Marked' BY <1>1, <1>3 DEF Inv, Alone, Marked
<1> QED BY <1>2, <1>4

\* The loop comes to rest, between ticks or for good.
LEMMA RestKeeps ==
  ASSUME Inv, Typed', UNCHANGED <<chain, db, job, mix>>, mem'.last = mem.last,
         mem'.view = mem.view, Factory \in mem'.watched,
         loop'.at = "down" \/ (loop'.at = "idle" /\ loop.at \in Following)
  PROVE  Inv'
<1>1. View' = View BY DEF View
<1>2. Alone' /\ Marked' BY <1>1, Reread DEF Inv, Alone, Marked, Control
<1>3. Remembers(chain, db, chain', db') BY RemembersSame DEF Inv
<1>4. JobFills' BY <1>2, <1>3, JobSurvives
<1>5. InStep' BY DEF Inv, InStep, Following, TickStages, FillStages
<1>6. ToldApart' /\ Replaying' /\ Ticking' /\ LoopFills' /\ NothingPassedOver'
  BY DEF Inv, ToldApart, Replaying, Ticking, LoopFills, NothingPassedOver, TickStages, FillStages
<1> QED BY <1>2, <1>4, <1>5, <1>6 DEF Inv

LEMMA RestingSteps ==
  ASSUME Inv, Typed',
         StartFails \/ LeaveLoop \/ FetchFails \/ RetriesFail \/ Rollback
  PROVE  Inv'
<1>1. UNCHANGED <<chain, db, job, mix>>
  BY DEF StartFails, LeaveLoop, FetchFails, RetriesFail, Rollback
<1>2. loop'.at = "down" \/ (loop'.at = "idle" /\ loop.at \in Following)
  BY DEF StartFails, LeaveLoop, FetchFails, RetriesFail, Rollback, Fall, Worker, Following
<1>3. mem'.last = mem.last /\ mem'.view = mem.view /\ Factory \in mem'.watched
  <2>1. mem \in Memories /\ Factory \in mem.watched BY DEF Inv, Typed, NothingPassedOver
  <2>2. CASE Rollback
    <3>1. PICK before : mem' = [mem EXCEPT !.watched = Watched(before)]
      BY <2>2 DEF Rollback, Noticed
    <3> QED BY <2>1, <3>1, WatchedType DEF Inv, Memories
  <2>3. CASE StartFails \/ LeaveLoop \/ FetchFails \/ RetriesFail
    BY <2>1, <2>3 DEF StartFails, LeaveLoop, FetchFails, RetriesFail, Fall, Memories
  <2> QED BY <2>2, <2>3
<1> QED BY <1>1, <1>2, <1>3, RestKeeps

LEMMA StartKeeps ==
  ASSUME Inv, Typed', Start
  PROVE  Inv'
<1>1. /\ UNCHANGED <<chain, db, job, mix>> /\ loop'.at = "starting"
      /\ mem'.last = db.cursor /\ mem'.view = mem.view /\ mem'.watched = mem.watched
  BY DEF Start, Worker, Inv, Typed, Memories
<1>2. View' = View /\ Control' = Control BY <1>1 DEF View, Control
<1>3. db.cursor \in Nat /\ mem.last \in Nat BY DEF Inv, Typed, Databases, Memories
<1>4. Alone' BY <1>1, <1>2 DEF Inv, Alone
<1>5. Marked' /\ InStep'
  BY <1>1, <1>2, <1>3 DEF Inv, Alone, Marked, InStep, Following, TickStages, FillStages
<1>6. JobFills' BY <1>1, <1>4, JobSurvives, RemembersSame DEF Inv
<1>7. ToldApart' /\ Replaying' /\ Ticking' /\ LoopFills' /\ NothingPassedOver'
  BY <1>1 DEF Inv, ToldApart, Replaying, Ticking, LoopFills, NothingPassedOver, TickStages, FillStages
<1> QED BY <1>4, <1>5, <1>6, <1>7 DEF Inv

LEMMA EnterLoopKeeps ==
  ASSUME Inv, Typed', EnterLoop
  PROVE  Inv'
<1> DEFINE w == BeginFill(loop, mem.last, Tip)
<1>1. /\ UNCHANGED <<chain, db, job, mix>> /\ loop.at = "starting"
      /\ mem'.last = mem.last /\ mem'.watched = mem.watched
      /\ mem'.view = mem.view \/ mem'.view = db.control
  BY DEF EnterLoop, Inv, Typed, Memories
<1>2. mem.last \in Nat /\ Tip \in Nat BY DEF Inv, Typed, Memories, Tip
<1>3. /\ w.from = mem.last /\ w.to = Tip /\ w.ids = Asked
      /\ w.at = FirstStage
  <2>1. Typed /\ loop \in Workers BY DEF Inv, Typed
  <2>2. mem.last \in Nat /\ Tip \in Nat BY <1>2
  <2>3. w.from = mem.last BY <2>1, <2>2, BeginFillType
  <2>4. w.to = Tip BY <2>1, <2>2, BeginFillType
  <2>5. w.ids = Asked BY <2>1, <2>2, BeginFillType
  <2>6. w.at = FirstStage BY <2>1, <2>2, BeginFillType
  <2> QED BY <2>3, <2>4, <2>5, <2>6
<1>4. \/ loop'.at = "idle"
      \/ loop' = w /\ w.at = "fill" /\ mem'.view = db.control /\ Tip - mem.last > BatchSize
  <2>1. CASE Tip - mem.last > BatchSize
    <3>1. loop' = (IF w.at = "skipped" THEN Worker("idle") ELSE w) /\ mem'.view = db.control
      BY <2>1 DEF EnterLoop, Inv, Typed, Memories
    <3> HIDE DEF w
    <3> QED BY <1>3, <2>1, <3>1 DEF Worker, FirstStage
  <2>2. CASE ~(Tip - mem.last > BatchSize)
    BY <2>2 DEF EnterLoop, Worker
  <2> QED BY <2>1, <2>2
<1> HIDE DEF w
<1>5. View' = View \/ View' = Control BY <1>1 DEF View, Control
<1>6. mix.jobs = {} => mem.last = db.cursor BY <1>1 DEF Inv, InStep, Following
<1>7. Alone' /\ Marked' BY <1>1, <1>5, <1>6, Reread
<1>8. JobFills' BY <1>1, <1>7, JobSurvives, RemembersSame DEF Inv
<1>9. InStep'
  BY <1>1, <1>2, <1>3, <1>4, BatchAssumption
     DEF Inv, InStep, Following, TickStages, FillStages
<1>10. LoopFills'
  <2>1. CASE loop'.at = "idle" BY <2>1 DEF LoopFills, FillStages
  <2>2. CASE loop' = w /\ w.at = "fill" /\ mem'.view = db.control
    <3>1. HandledTo(w.from, chain, db) BY <1>3 DEF Inv, NothingPassedOver
    <3>2. Factory \in w.ids <=> ~View'.paused
      BY <1>3, <2>2 DEF Inv, NothingPassedOver, View, Asked
    <3>3. w.to <= Len(chain) BY <1>2, <1>3 DEF Tip
    <3> QED BY <1>1, <2>2, <3>1, <3>2, <3>3 DEF LoopFills, Filling
  <2> QED BY <1>4, <2>1, <2>2
<1>11. loop'.at \in {"idle", "fill"} BY <1>4
<1>12. ToldApart' /\ Replaying' /\ Ticking' /\ NothingPassedOver'
  BY <1>1, <1>11 DEF Inv, ToldApart, Replaying, Ticking, NothingPassedOver, TickStages
<1> QED BY <1>7, <1>8, <1>9, <1>10, <1>12 DEF Inv

LEMMA PollKeeps ==
  ASSUME Inv, Typed', Poll
  PROVE  Inv'
<1>1. /\ UNCHANGED <<chain, db, job, mix, mem>> /\ loop.at = "idle" /\ Tip > mem.last
      /\ loop'.at = "polled" /\ loop'.to = Tip /\ loop'.replay = {}
  BY DEF Poll, Worker
<1>2. mem.last \in Nat /\ Tip \in Nat BY DEF Inv, Typed, Memories, Tip
<1>3. Alone' /\ Marked' BY <1>1 DEF Inv, Alone, Marked, View, Control
<1>4. JobFills' BY <1>1, <1>3, JobSurvives, RemembersSame DEF Inv
<1>5. InStep' BY <1>1, <1>2 DEF Inv, InStep, Following, TickStages, FillStages
<1>6. ToldApart' /\ Replaying' /\ Ticking' /\ LoopFills' /\ NothingPassedOver'
  BY <1>1, <1>2 DEF Inv, ToldApart, Replaying, Ticking, LoopFills, NothingPassedOver,
                    TickStages, FillStages, Tip
<1> QED BY <1>3, <1>4, <1>5, <1>6 DEF Inv

LEMMA LoadKeeps ==
  ASSUME Inv, Typed', LoadContractControls
  PROVE  Inv'
<1>1. /\ UNCHANGED <<chain, db, job, mix>> /\ loop.at = "polled"
      /\ mem'.last = mem.last /\ mem'.watched = mem.watched
      /\ mem'.view = mem.view \/ mem'.view = db.control
      /\ loop'.at = "loaded" /\ loop'.to = loop.to
      /\ loop'.replay = {c \in Contracts : ~mem'.view[c].paused /\ mem'.view[c].pausedAt # None}
  BY DEF LoadContractControls, Inv, Typed, Memories, Workers
<1>2. View' = View \/ View' = Control BY <1>1 DEF View, Control
<1>3. mix.jobs = {} => mem.last = db.cursor BY <1>1 DEF Inv, InStep, Following
<1>4. Alone' /\ Marked' BY <1>1, <1>2, <1>3, Reread
<1>5. JobFills' BY <1>1, <1>4, JobSurvives, RemembersSame DEF Inv
<1>6. InStep' BY <1>1 DEF Inv, InStep, Following, TickStages, FillStages
<1>7. Replaying' BY <1>1 DEF Replaying, View
<1>8. ToldApart' /\ Ticking' /\ LoopFills' /\ NothingPassedOver'
  BY <1>1 DEF Inv, ToldApart, Ticking, LoopFills, NothingPassedOver, TickStages, FillStages, Tip
<1> QED BY <1>4, <1>5, <1>6, <1>7, <1>8 DEF Inv

LEMMA ReplayFailsKeeps ==
  ASSUME Inv, Typed', ReplayFails
  PROVE  Inv'
<1>1. /\ UNCHANGED <<chain, db, job, mix, mem>> /\ loop.at = "loaded" /\ loop'.at = "loaded"
      /\ loop'.to = loop.to /\ loop'.replay \subseteq loop.replay
  BY DEF ReplayFails, Inv, Typed, Workers
<1>2. Alone' /\ Marked' BY <1>1 DEF Inv, Alone, Marked, View, Control
<1>3. JobFills' BY <1>1, <1>2, JobSurvives, RemembersSame DEF Inv
<1>4. InStep' /\ Replaying' BY <1>1 DEF Inv, InStep, Following, TickStages, FillStages, Replaying, View
<1>5. ToldApart' /\ Ticking' /\ LoopFills' /\ NothingPassedOver'
  BY <1>1 DEF Inv, ToldApart, Ticking, LoopFills, NothingPassedOver, TickStages, FillStages, Tip
<1> QED BY <1>2, <1>3, <1>4, <1>5 DEF Inv

\* What is not fetched is handled already, or owed since the factory is paused.
LEMMA FetchKeeps ==
  ASSUME Inv, Typed', FetchEvents
  PROVE  Inv'
<1> DEFINE ids == ActiveContractIds(mem.view)
           batch == GetEvents(mem.last + 1, ids)
<1>1. /\ UNCHANGED <<chain, db, job, mix, mem>> /\ loop.at = "loaded" /\ loop'.at = "fetched"
      /\ loop'.to = loop.to /\ loop'.batch = batch
  BY DEF FetchEvents, Inv, Typed, Workers
<1>2. Alone' /\ Marked' BY <1>1 DEF Inv, Alone, Marked, View, Control
<1>3. JobFills' BY <1>1, <1>2, JobSurvives, RemembersSame DEF Inv
<1>4. InStep' /\ Replaying' BY <1>1 DEF Inv, InStep, Following, TickStages, FillStages, Replaying
<1>5. ASSUME NEW l \in FactoryEvents(chain, loop.to)
      PROVE  HandledIn(l, db) \/ (l \in batch /\ ~View.paused)
  <2>1. /\ mem.last \in Nat /\ Tip \in Nat /\ loop.to \in Nat /\ loop.to <= Tip
        /\ l \in 1..loop.to /\ chain[l].of = Factory
    BY <1>1 DEF Inv, Typed, Memories, Workers, Ticking, TickStages, Tip, FactoryEvents
  <2>2. CASE l <= mem.last
    BY <2>1, <2>2 DEF Inv, NothingPassedOver, HandledTo, FactoryEvents
  <2>3. CASE l > mem.last /\ ~View.paused
    <3>1. Factory \in ids BY <2>3 DEF Inv, NothingPassedOver, ActiveContractIds, View
    <3> QED BY <2>1, <2>3, <3>1 DEF GetEvents, Of, Tip
  <2>4. CASE l > mem.last /\ View.paused
    <3>1. Control.pausedAt \in 0..mem.last BY <2>4 DEF Inv, Marked
    <3> QED BY <2>1, <2>4, <3>1 DEF HandledIn, OwedIn, Control, None
  <2> QED BY <2>1, <2>2, <2>3, <2>4
<1>6. Ticking' BY <1>1, <1>5 DEF Inv, Ticking, TickStages, Tip, View
<1>7. ToldApart' /\ LoopFills' /\ NothingPassedOver'
  BY <1>1 DEF Inv, ToldApart, LoopFills, NothingPassedOver, FillStages
<1> QED BY <1>2, <1>3, <1>4, <1>6, <1>7 DEF Inv
-----------------------------------------------------------------------------
(* Replays and commits of the loop *)

\* What a paused factory owes is what its replay asks for.
LEMMA ReplayKeeps ==
  ASSUME Inv, Typed', NEW c \in Contracts, ReplayContract(c)
  PROVE  Inv'
<1> DEFINE batch == {l \in GetEvents(mem.view[c].pausedAt + 1, {c}) : l <= mem.last}
<1>1. /\ UNCHANGED <<chain, job, mix>> /\ loop.at = "loaded" /\ c \in loop.replay
      /\ loop'.at = "replayed" /\ loop'.ids = {c} /\ loop'.replay = loop.replay
      /\ loop'.to = loop.to
      /\ db' = ProcessEvents(batch, {"bad", "poison"})
      /\ mem'.watched = Watched(batch) /\ mem'.last = mem.last /\ mem'.view = mem.view
  BY DEF ReplayContract, Inv, Typed, Workers, Memories
<1>2. mem.view[c].pausedAt + 1 \in Nat
  <2>1. mem.view[c] \in Controls BY DEF Inv, Typed, Memories
  <2> QED BY <2>1 DEF Controls, None
<1>3. batch \in SUBSET Nat BY <1>2, Fetched DEF Inv
<1>4. /\ db'.cursor = db.cursor /\ db'.control = db.control
      /\ db.applied \subseteq db'.applied /\ db.dead \subseteq db'.dead
      /\ db.waived \subseteq db'.waived
      /\ \A l \in batch : ~mem.view[chain[l].of].paused => SettledIn(l, db')
  <2>1. Typed BY DEF Inv
  <2>2. db' = ProcessEvents(batch, {"bad", "poison"}) BY <1>1
  <2> HIDE DEF batch
  <2>3. db'.cursor = db.cursor /\ db'.control = db.control BY <1>3, <2>1, <2>2, Processed
  <2>4. /\ db.applied \subseteq db'.applied /\ db.dead \subseteq db'.dead
        /\ db.waived \subseteq db'.waived
    BY <1>3, <2>1, <2>2, Processed
  <2>5. \A l \in batch : ~mem.view[chain[l].of].paused => SettledIn(l, db')
    BY <1>3, <2>1, <2>2, Processed DEF SettledIn
  <2> QED BY <2>3, <2>4, <2>5
<1>5. Remembers(chain, db, chain', db') BY <1>1, <1>4, RemembersMore DEF Inv, Control
<1>6. View' = View /\ Control' = Control BY <1>1, <1>4 DEF View, Control
<1>7. Alone' /\ Marked' /\ ToldApart'
  BY <1>1, <1>4, <1>6 DEF Inv, Alone, Marked, ToldApart
<1>8. JobFills' BY <1>1, <1>5, <1>7, JobSurvives
<1>9. ASSUME c = Factory, NEW l \in FactoryEvents(chain, mem.last)
      PROVE  SettledIn(l, db')
  <2>1. /\ mem.last \in Nat /\ Tip \in Nat /\ mem.last <= Tip /\ l \in 1..mem.last
        /\ chain[l].of = Factory /\ HandledIn(l, db)
    BY DEF Inv, Typed, Memories, NothingPassedOver, HandledTo, FactoryEvents, Tip
  <2>2. CASE SettledIn(l, db) BY <1>5, <2>2, StaysHandled
  <2>3. CASE OwedIn(l, db)
    <3>1. ~View.paused /\ View.pausedAt # None /\ Control.pausedAt = View.pausedAt
      BY <1>1, <1>9 DEF Inv, Replaying, Marked
    <3>2. mem.view[c].pausedAt + 1 <= l
      BY <1>2, <1>9, <2>1, <2>3, <3>1 DEF OwedIn, Control, View, Inv, Typed, Memories, Controls, None
    <3>3. l \in batch BY <1>2, <1>9, <2>1, <3>2 DEF GetEvents, Of, Tip
    <3>4. ~mem.view[chain[l].of].paused BY <1>9, <2>1, <3>1 DEF View
    <3> HIDE DEF batch
    <3> QED BY <1>4, <3>3, <3>4
  <2> QED BY <2>1, <2>2, <2>3 DEF HandledIn
<1>10. Replaying' BY <1>1, <1>6, <1>9 DEF Inv, Replaying
<1>11. InStep' /\ Ticking' /\ LoopFills'
  BY <1>1, <1>4 DEF Inv, InStep, Ticking, LoopFills, Following, TickStages, FillStages, Tip
<1>12. NothingPassedOver'
  BY <1>1, <1>4, <1>5, StaysHandledTo, WatchedType DEF Inv, NothingPassedOver
<1> QED BY <1>7, <1>8, <1>10, <1>11, <1>12 DEF Inv

\* A marker goes when nothing is owed.
LEMMA ClearMarkerKeeps ==
  ASSUME Inv, Typed', Own, ClearMarker
  PROVE  Inv'
<1>1. PICK c \in loop.ids :
        /\ db' = [db EXCEPT !.control[c].pausedAt = IF db.control[c].paused THEN @ ELSE None]
        /\ mem' = IF mem.reread THEN mem ELSE [mem EXCEPT !.view[c].pausedAt = None]
        /\ loop' = [loop EXCEPT !.at = "loaded", !.replay = @ \ {c}]
        /\ loop.at = "replayed" /\ UNCHANGED <<chain, job, mix>>
  BY DEF ClearMarker
<1>2. /\ c \in Contracts /\ Factory \in Contracts /\ Control \in Controls /\ View \in Controls
      /\ mem.last \in Nat /\ db.cursor \in Nat
  BY DEF Inv, Typed, Workers, Control, View, Databases, Memories, Contracts
<1>3. /\ db'.cursor = db.cursor /\ db'.applied = db.applied /\ db'.dead = db.dead
      /\ db'.waived = db.waived
      /\ mem'.last = mem.last /\ mem'.watched = mem.watched
      /\ loop'.at = "loaded" /\ loop'.replay = loop.replay \ {c} /\ loop'.to = loop.to
  BY <1>1 DEF Inv, Typed, Databases, Memories, Workers
<1>4. InStep' /\ ToldApart' /\ Ticking' /\ LoopFills'
  BY <1>1, <1>3 DEF Inv, InStep, ToldApart, Ticking, LoopFills, Following, TickStages, FillStages, Tip
<1>5. CASE c = Factory
  <2>1. Factory \in loop.replay /\ ~View.paused /\ View.pausedAt # None
    BY <1>1, <1>5 DEF Inv, Replaying
  <2>2. mix.jobs = {} /\ job.at = "none" /\ mem.last = db.cursor /\ ~mem.reread
    BY <1>1, <2>1 DEF Inv, Alone, InStep, Following, Own
  <2>3. /\ Control'.paused = Control.paused
        /\ Control'.pausedAt = IF Control.paused THEN Control.pausedAt ELSE None
        /\ View'.paused = View.paused /\ View'.pausedAt = None
    BY <1>1, <1>2, <1>5, <2>2
       DEF Inv, Typed, Databases, Memories, Controls, Control, View
  <2>4. Alone' /\ Marked' /\ Replaying'
    BY <1>1, <1>2, <1>3, <1>5, <2>1, <2>2, <2>3 DEF Inv, Alone, Marked, Replaying
  <2>5. JobFills' BY <1>1, <2>2 DEF JobFills, FillStages
  <2>6. HandledTo(db.cursor, chain, db')
    <3>1. ASSUME NEW l \in FactoryEvents(chain, mem.last) PROVE HandledIn(l, db')
      <4>1. SettledIn(l, db) BY <1>1, <1>5 DEF Inv, Replaying
      <4> QED BY <1>3, <4>1 DEF SettledIn, HandledIn
    <3> QED BY <2>2, <3>1 DEF Inv, NothingPassedOver, HandledTo
  <2>7. NothingPassedOver' BY <1>1, <1>3, <2>2, <2>6 DEF Inv, NothingPassedOver
  <2> QED BY <1>4, <2>4, <2>5, <2>7 DEF Inv
<1>6. CASE c # Factory
  <2>1. Control' = Control /\ View' = View
    BY <1>1, <1>2, <1>6 DEF Inv, Typed, Databases, Memories, Control, View
  <2>2. Remembers(chain, db, chain', db')
    BY <1>1, <1>3, <2>1, RemembersMore DEF Inv
  <2>3. Alone' /\ Marked' /\ Replaying'
    BY <1>1, <1>3, <2>1 DEF Inv, Alone, Marked, Replaying
  <2>4. JobFills' BY <1>1, <2>2, <2>3, JobSurvives
  <2>5. NothingPassedOver' BY <1>1, <1>3, <2>2, StaysHandledTo DEF Inv, NothingPassedOver
  <2> QED BY <1>4, <2>3, <2>4, <2>5 DEF Inv
<1> QED BY <1>5, <1>6

\* A transaction settles what was fetched, up to the ledger it moves the cursor to.
LEMMA CommitTickKeeps ==
  ASSUME Inv, Typed', CommitTick
  PROVE  Inv'
<1>1. /\ UNCHANGED <<chain, job, mix>> /\ loop.at = "fetched" /\ loop'.at = "committed"
      /\ loop'.to = loop.to
      /\ db' = [ProcessEvents(loop.batch, {"bad"}) EXCEPT !.cursor = loop.to]
      /\ mem'.watched = Watched(loop.batch) /\ mem'.last = mem.last /\ mem'.view = mem.view
  BY DEF CommitTick, Inv, Typed, Workers, Memories
<1>2. /\ loop.batch \in SUBSET Nat /\ loop.to \in Nat /\ mem.last \in Nat /\ db.cursor \in Nat
      /\ Tip \in Nat /\ loop.to <= Tip
  BY <1>1 DEF Inv, Typed, Workers, Memories, Databases, Tip, Ticking, TickStages
<1>3. /\ Remembers(chain, db, chain', db')
      /\ db'.cursor = loop.to /\ db'.control = db.control
      /\ \A l \in loop.batch : ~mem.view[chain[l].of].paused => SettledIn(l, db')
  BY <1>1, <1>2, RemembersProcessed DEF Inv
<1>4. View' = View /\ Control' = Control BY <1>1, <1>3 DEF View, Control
<1>5. Control.pausedAt \in Nat \cup {None}
  BY DEF Inv, Typed, Control, Databases, Controls, Contracts
<1>6. ToldApart' /\ Alone' BY <1>1, <1>4 DEF Inv, ToldApart, Alone
<1>7. InStep' /\ Marked'
  BY <1>1, <1>2, <1>3, <1>4, <1>5
     DEF Inv, Alone, InStep, Marked, Following, TickStages, FillStages, None
<1>8. JobFills' BY <1>1, <1>3, <1>6, JobSurvives
<1>9. HandledTo(loop.to, chain, db')
  <2>1. ASSUME NEW l \in FactoryEvents(chain, loop.to) PROVE HandledIn(l, db')
    <3>1. HandledIn(l, db) \/ (l \in loop.batch /\ ~View.paused)
      BY <1>1 DEF Inv, Ticking
    <3>2. chain[l].of = Factory BY DEF FactoryEvents
    <3> QED BY <1>3, <3>1, <3>2, StaysHandled DEF View, HandledIn
  <2> QED BY <1>2, <2>1 DEF HandledTo, Tip
<1>10. Ticking' /\ Replaying' /\ LoopFills'
  BY <1>1, <1>2, <1>9 DEF Ticking, Replaying, LoopFills, TickStages, FillStages, Tip
<1>11. NothingPassedOver'
  BY <1>1, <1>2, <1>3, <1>9, StaysHandledTo, WatchedType DEF Inv, NothingPassedOver
<1> QED BY <1>6, <1>7, <1>8, <1>10, <1>11 DEF Inv

LEMMA FinishTickKeeps ==
  ASSUME Inv, Typed', FinishTick
  PROVE  Inv'
<1>1. UNCHANGED <<chain, db, job, mix>> /\ loop.at = "committed"
  BY DEF FinishTick
<1>2. CASE ~mix.declared
  <2>1. /\ loop'.at = "down" /\ mem'.last = mem.last /\ mem'.view = mem.view
        /\ mem'.watched = mem.watched
    BY <1>2 DEF FinishTick, Fall, Worker, Inv, Typed, Memories
  <2> QED BY <1>1, <2>1, RestKeeps DEF Inv, NothingPassedOver
<1>3. CASE mix.declared
  <2>1. /\ loop'.at = "idle" /\ mem'.last = loop.to /\ mem'.view = mem.view
        /\ mem'.watched = mem.watched
    BY <1>3 DEF FinishTick, Worker, Inv, Typed, Memories
  <2>2. View' = View /\ Control' = Control BY <1>1, <2>1 DEF View, Control
  <2>3. mem.last \in Nat /\ loop.to \in Nat /\ db.cursor \in Nat
    BY DEF Inv, Typed, Memories, Workers, Databases
  <2>4. ToldApart' /\ Alone' BY <1>1, <2>2 DEF Inv, ToldApart, Alone
  <2>5. InStep' /\ Marked'
    BY <1>1, <2>1, <2>2, <2>3 DEF Inv, Alone, InStep, Marked, Following, TickStages, FillStages
  <2>6. JobFills' BY <1>1, <2>4, JobSurvives, RemembersSame DEF Inv
  <2>7. Ticking' /\ Replaying' /\ LoopFills'
    BY <2>1 DEF Ticking, Replaying, LoopFills, TickStages, FillStages
  <2>8. NothingPassedOver' BY <1>1, <2>1 DEF Inv, NothingPassedOver, Ticking
  <2> QED BY <2>4, <2>5, <2>6, <2>7, <2>8 DEF Inv
<1> QED BY <1>2, <1>3
-----------------------------------------------------------------------------
(* Backfills, of the loop and of the job *)

LEMMA HandledDown ==
  ASSUME NEW log, NEW d, NEW n, HandledTo(n, log, d), Len(log) \in Nat,
         NEW m \in Nat, m <= n
  PROVE  HandledTo(m, log, d)
BY DEF HandledTo, FactoryEvents

LEMMA BatchToType == ASSUME NEW w \in Workers PROVE BatchTo(w) \in Nat
BY BatchAssumption DEF Workers, BatchTo

\* A batch that commits leaves its range handled up to where it ends.
LEMMA BatchHandled ==
  ASSUME Inv, chain' = chain, Remembers(chain, db, chain', db'),
         NEW w \in Workers, w.at = "filled", Filling(w, chain, db, View.paused),
         View.paused => Control.pausedAt \in 0..w.from,
         \A l \in w.batch : ~mem.view[chain[l].of].paused => SettledIn(l, db')
  PROVE  /\ BatchTo(w) \in Nat /\ BatchTo(w) <= w.to /\ (w.from <= w.to => w.from <= BatchTo(w))
         /\ HandledTo(BatchTo(w), chain', db')
<1>1. /\ w.from \in Nat /\ w.to \in Nat /\ w.to <= Len(chain) /\ Len(chain) \in Nat
      /\ BatchTo(w) \in Nat /\ BatchTo(w) <= w.to /\ (w.from <= w.to => w.from <= BatchTo(w))
  BY BatchAssumption DEF Workers, Filling, BatchTo, Inv, Typed
<1>2. ASSUME NEW l \in FactoryEvents(chain, BatchTo(w)) PROVE HandledIn(l, db')
  <2>1. l \in FactoryEvents(chain, w.to) /\ chain[l].of = Factory /\ l \in 1..BatchTo(w)
    BY <1>1 DEF FactoryEvents
  <2>2. CASE l <= w.from
    <3>1. HandledIn(l, db) BY <1>1, <2>1, <2>2 DEF Filling, HandledTo, FactoryEvents
    <3> QED BY <3>1, StaysHandled
  <2>3. CASE l > w.from /\ ~View.paused
    <3>1. l \in w.batch BY <1>1, <2>1, <2>3 DEF Filling
    <3> QED BY <2>1, <2>3, <3>1 DEF View, HandledIn
  <2>4. CASE l > w.from /\ View.paused
    <3>1. HandledIn(l, db) BY <1>1, <2>1, <2>4 DEF HandledIn, OwedIn, Control, None
    <3> QED BY <3>1, StaysHandled
  <2> QED BY <1>1, <2>1, <2>2, <2>3, <2>4
<1> QED BY <1>1, <1>2 DEF HandledTo

\* Events fetched for a range are all of the factory's, if it is asked for.
LEMMA FillFetched ==
  ASSUME Inv, NEW w \in Workers, NEW w2 \in Workers, Filling(w, chain, db, View.paused),
         w2.from = w.from, w2.to = w.to, w2.ids = w.ids,
         w2.batch = GetEvents(w.from + 1, w.ids)
  PROVE  Filling(w2, chain, db, View.paused)
<1>1. ASSUME ~View.paused, NEW l \in FactoryEvents(chain, w.to), ~(l <= w.from)
      PROVE  l \in GetEvents(w.from + 1, w.ids)
  <2>1. Factory \in w.ids BY <1>1 DEF Filling
  <2>2. w.from \in Nat /\ w.to \in Nat /\ w.to <= Len(chain) /\ Len(chain) \in Nat
    BY DEF Workers, Filling, Inv, Typed
  <2> QED BY <1>1, <2>1, <2>2 DEF GetEvents, FactoryEvents, Of, Tip
<1> QED BY <1>1 DEF Filling

LEMMA FetchBatchKeeps ==
  ASSUME Inv, Typed', NEW who \in {"loop", "job"}, FetchBatch(who)
  PROVE  Inv'
<1>1. UNCHANGED <<chain, db, mem, mix>> BY DEF FetchBatch
<1>2. View' = View /\ Control' = Control BY <1>1 DEF View, Control
<1>3. ToldApart' /\ Marked' /\ NothingPassedOver'
  BY <1>1, <1>2 DEF Inv, ToldApart, Marked, NothingPassedOver
<1>4. Remembers(chain, db, chain', db') BY <1>1, RemembersSame DEF Inv
<1>5. CASE who = "loop"
  <2>1. /\ loop.at = "fill" /\ job' = job
        /\ loop' = [loop EXCEPT !.at = "filled", !.batch = GetEvents(loop.from + 1, loop.ids)]
    BY <1>5 DEF FetchBatch, FillOf, SetFill
  <2>2. /\ loop'.at = "filled" /\ loop'.from = loop.from /\ loop'.to = loop.to
        /\ loop'.ids = loop.ids /\ loop'.batch = GetEvents(loop.from + 1, loop.ids)
    BY <2>1 DEF Inv, Typed, Workers
  <2>3. LoopFills'
    <3>1. loop \in Workers /\ loop' \in Workers BY DEF Inv, Typed
    <3>2. Filling(loop, chain, db, View.paused) BY <2>1 DEF Inv, LoopFills, FillStages
    <3>3. Filling(loop', chain, db, View.paused) BY <2>2, <3>1, <3>2, FillFetched
    <3> QED BY <1>1, <1>2, <3>3 DEF LoopFills
  <2>4. Alone' BY <1>1, <1>2, <2>1 DEF Inv, Alone
  <2>5. JobFills' BY <1>1, <1>4, <2>1, <2>4, JobSurvives
  <2>6. InStep' /\ Replaying' /\ Ticking'
    BY <1>1, <2>1, <2>2 DEF Inv, InStep, Replaying, Ticking, Following, TickStages, FillStages
  <2> QED BY <1>3, <2>3, <2>4, <2>5, <2>6 DEF Inv
<1>6. CASE who = "job"
  <2>1. /\ job.at = "fill" /\ loop' = loop
        /\ job' = [job EXCEPT !.at = "filled", !.batch = GetEvents(job.from + 1, job.ids)]
    BY <1>6 DEF FetchBatch, FillOf, SetFill
  <2>2. /\ job'.at = "filled" /\ job'.from = job.from /\ job'.to = job.to
        /\ job'.ids = job.ids /\ job'.batch = GetEvents(job.from + 1, job.ids)
        /\ job'.start = job.start
    BY <2>1 DEF Inv, Typed, Workers
  <2>3. JobFills'
    <3>1. job \in Workers /\ job' \in Workers BY DEF Inv, Typed
    <3>2. Filling(job, chain, db, View.paused) BY <2>1 DEF Inv, JobFills, FillStages
    <3>3. Filling(job', chain, db, View.paused) BY <2>2, <3>1, <3>2, FillFetched
    <3> QED BY <1>1, <1>2, <2>1, <2>2, <3>3 DEF Inv, JobFills, FillStages, Tip
  <2>4. Alone' BY <1>1, <1>2, <2>1 DEF Inv, Alone
  <2>5. Ticking' /\ LoopFills' BY <1>2, <1>4, <2>1, TickingKept, LoopFillsKept DEF Inv
  <2>6. InStep' /\ Replaying' BY <1>1, <1>2, <2>1 DEF Inv, InStep, Replaying
  <2> QED BY <1>3, <2>3, <2>4, <2>5, <2>6 DEF Inv
<1> QED BY <1>5, <1>6

LEMMA CommitLoopBatchKeeps ==
  ASSUME Inv, Typed', CommitBatch("loop")
  PROVE  Inv'
<1> DEFINE to == BatchTo(loop)
<1>1. /\ UNCHANGED <<chain, job, mix>> /\ loop.at = "filled"
      /\ db' = [ProcessEvents(loop.batch, {"bad"}) EXCEPT !.cursor = to]
      /\ mem' = [mem EXCEPT !.watched = Watched(loop.batch), !.last = to]
      /\ loop' = IF to = loop.to THEN Worker("idle") ELSE [loop EXCEPT !.at = "fill", !.from = to]
  BY DEF CommitBatch, FillOf, SetFill, FillDone
<1>2. /\ loop \in Workers /\ loop.batch \in SUBSET Nat /\ to \in Nat
      /\ loop.from \in Nat /\ loop.to \in Nat /\ mem.last \in Nat /\ db.cursor \in Nat
  <2>1. loop \in Workers /\ mem \in Memories /\ db \in Databases BY DEF Inv, Typed
  <2>2. to \in Nat BY <2>1, BatchToType
  <2> QED BY <2>1, <2>2 DEF Workers, Memories, Databases
<1> HIDE DEF to
<1>3. /\ Remembers(chain, db, chain', db')
      /\ db'.cursor = to /\ db'.control = db.control
      /\ \A l \in loop.batch : ~mem.view[chain[l].of].paused => SettledIn(l, db')
  BY <1>1, <1>2, RemembersProcessed DEF Inv
<1>4. mem'.last = to /\ mem'.watched = Watched(loop.batch) /\ mem'.view = mem.view
  BY <1>1 DEF Inv, Typed, Memories
<1>5. View' = View /\ Control' = Control BY <1>3, <1>4 DEF View, Control
<1>6. Filling(loop, chain, db, View.paused)
  BY <1>1 DEF Inv, LoopFills, FillStages
<1>7. mix.jobs = {} => mem.last = db.cursor /\ loop.from = mem.last /\ loop.from <= loop.to
  BY <1>1 DEF Inv, InStep, Following, FillStages
<1>8. View.paused => mix.jobs = {} /\ Control.pausedAt \in 0..loop.from
  BY <1>7 DEF Inv, Alone, Marked
<1>9. /\ to <= loop.to /\ (loop.from <= loop.to => loop.from <= to)
      /\ HandledTo(to, chain', db')
  BY <1>1, <1>2, <1>3, <1>6, <1>8, BatchHandled DEF to
<1>10. \/ loop'.at = "idle"
       \/ /\ loop'.at = "fill" /\ loop'.from = to /\ loop'.to = loop.to /\ loop'.ids = loop.ids
  BY <1>1, <1>2 DEF Worker, Workers
<1>11. ToldApart' /\ Alone' BY <1>1, <1>5 DEF Inv, ToldApart, Alone
<1>12. InStep'
  BY <1>1, <1>2, <1>3, <1>4, <1>9, <1>10 DEF InStep, Following, TickStages, FillStages
<1>13. Control.pausedAt \in Nat \cup {None}
  BY DEF Inv, Typed, Control, Databases, Controls, Contracts
<1>14. Marked'
  BY <1>2, <1>3, <1>4, <1>5, <1>7, <1>8, <1>9, <1>13 DEF Inv, Alone, Marked
<1>15. LoopFills'
  <2>1. CASE loop'.at = "idle" BY <2>1 DEF LoopFills, FillStages
  <2>2. CASE loop'.at # "idle"
    BY <1>1, <1>5, <1>6, <1>9, <1>10, <2>2 DEF LoopFills, Filling
  <2> QED BY <2>1, <2>2
<1>16. JobFills' BY <1>1, <1>3, <1>11, JobSurvives
<1>17. Ticking' /\ Replaying' BY <1>10 DEF Ticking, Replaying, TickStages
<1>18. NothingPassedOver'
  BY <1>3, <1>4, <1>9, WatchedType DEF Inv, NothingPassedOver
<1> QED BY <1>11, <1>12, <1>14, <1>15, <1>16, <1>17, <1>18 DEF Inv

\* Whatever the job does with its own range, the loop keeps what it knows.
LEMMA JobStepKeeps ==
  ASSUME Inv, Typed', mix.jobs # {}, UNCHANGED <<chain, loop, mix>>, Alone',
         Remembers(chain, db, chain', db'), db'.control = db.control,
         JobFills', NothingPassedOver'
  PROVE  Inv'
<1>1. View.paused \in BOOLEAN /\ View'.paused \in BOOLEAN
  BY DEF Inv, Typed, View, Memories, Controls, Contracts
<1>2. View'.paused = View.paused BY <1>1 DEF Inv, Alone
<1>3. Ticking' /\ LoopFills' BY <1>2, TickingKept, LoopFillsKept DEF Inv
<1>4. Factory \notin loop.replay \/ loop.at \notin {"loaded", "replayed"}
  BY DEF Inv, Alone, Replaying
<1>5. Replaying' BY <1>4 DEF Inv, Replaying
<1>6. ToldApart' /\ InStep' /\ Marked' BY DEF Inv, ToldApart, InStep, Alone, Marked
<1> QED BY <1>3, <1>5, <1>6 DEF Inv

LEMMA CommitJobBatchKeeps ==
  ASSUME Inv, Typed', CommitBatch("job")
  PROVE  Inv'
<1> DEFINE to == BatchTo(job)
<1>1. /\ UNCHANGED <<chain, loop, mix>> /\ job.at = "filled"
      /\ db' = [ProcessEvents(job.batch, {"bad"}) EXCEPT !.cursor = to]
      /\ mem' = [mem EXCEPT !.watched = Watched(job.batch), !.last = to]
      /\ job' = IF to = job.to THEN Worker("done") ELSE [job EXCEPT !.at = "fill", !.from = to]
  BY DEF CommitBatch, FillOf, SetFill, FillDone
<1>2. /\ job \in Workers /\ job.batch \in SUBSET Nat /\ to \in Nat
  <2>1. job \in Workers BY DEF Inv, Typed
  <2> QED BY <2>1, BatchToType DEF Workers
<1> HIDE DEF to
<1>3. /\ Remembers(chain, db, chain', db')
      /\ db'.cursor = to /\ db'.control = db.control
      /\ \A l \in job.batch : ~mem.view[chain[l].of].paused => SettledIn(l, db')
  BY <1>1, <1>2, RemembersProcessed DEF Inv
<1>4. mem'.last = to /\ mem'.watched = Watched(job.batch) /\ mem'.view = mem.view
  BY <1>1 DEF Inv, Typed, Memories
<1>5. View' = View /\ Control' = Control BY <1>3, <1>4 DEF View, Control
<1>6. mix.jobs # {} /\ ~View.paused BY <1>1 DEF Inv, Alone
<1>7. /\ Filling(job, chain, db, View.paused)
      /\ HandledTo(job.start, chain, db) /\ job.to <= Tip
  BY <1>1 DEF Inv, JobFills, FillStages
<1>8. HandledTo(to, chain', db')
  BY <1>1, <1>2, <1>3, <1>6, <1>7, BatchHandled DEF to
<1>9. \/ job'.at = "done"
      \/ /\ job'.at = "fill" /\ job'.from = to /\ job'.to = job.to /\ job'.ids = job.ids
         /\ job'.start = job.start
  BY <1>1, <1>2 DEF Worker, Workers
<1>10. Alone' BY <1>1, <1>5, <1>6 DEF Inv, Alone
<1>11. HandledTo(job.start, chain', db') BY <1>3, <1>7, StaysHandledTo
<1>12. JobFills'
  <2>1. CASE job'.at = "done" BY <2>1 DEF JobFills, FillStages
  <2>2. CASE job'.at # "done"
    BY <1>1, <1>5, <1>7, <1>8, <1>9, <1>11, <2>2 DEF JobFills, Filling, Tip, FillStages
  <2> QED BY <2>1, <2>2
<1>13. NothingPassedOver'
  BY <1>3, <1>4, <1>8, WatchedType DEF Inv, NothingPassedOver
<1> QED BY <1>1, <1>3, <1>6, <1>10, <1>12, <1>13, JobStepKeeps

LEMMA LoopBatchFailsKeeps ==
  ASSUME Inv, Typed', BatchFails("loop")
  PROVE  Inv'
<1>1. /\ UNCHANGED <<chain, db, job, mix>> /\ loop.at \in FillStages
      /\ \/ loop'.at = "idle" /\ Noticed(loop.batch)
         \/ Fall
  BY DEF BatchFails, FillOf, SetFill, FillDone, Worker
<1>2. mem'.last = mem.last /\ mem'.view = mem.view /\ Factory \in mem'.watched
  <2>1. mem \in Memories /\ Factory \in mem.watched BY DEF Inv, Typed, NothingPassedOver
  <2>2. CASE Noticed(loop.batch)
    <3>1. PICK before : mem' = [mem EXCEPT !.watched = Watched(before)]
      BY <2>2 DEF Noticed
    <3> QED BY <2>1, <3>1, WatchedType DEF Inv, Memories
  <2>3. CASE Fall BY <2>1, <2>3 DEF Fall, Memories
  <2> QED BY <1>1, <2>2, <2>3
<1>3. loop'.at = "down" \/ (loop'.at = "idle" /\ loop.at \in Following)
  BY <1>1 DEF Fall, Worker, Following, FillStages
<1> QED BY <1>1, <1>2, <1>3, RestKeeps

LEMMA JobBatchFailsKeeps ==
  ASSUME Inv, Typed', BatchFails("job")
  PROVE  Inv'
<1>1. /\ UNCHANGED <<chain, db, loop, mix>> /\ job.at \in FillStages /\ Noticed(job.batch)
      /\ \/ job' = [job EXCEPT !.at = "queued", !.from = job.start, !.tries = @ + 1]
         \/ job'.at \in {"done", "failed"}
  BY DEF BatchFails, FillOf, SetFill, FillDone, Worker
<1>2. mem'.last = mem.last /\ mem'.view = mem.view /\ Factory \in mem'.watched
  <2>1. mem \in Memories /\ Factory \in mem.watched BY DEF Inv, Typed, NothingPassedOver
  <2>2. PICK before : mem' = [mem EXCEPT !.watched = Watched(before)] BY <1>1 DEF Noticed
  <2> QED BY <2>1, <2>2, WatchedType DEF Inv, Memories
<1>3. mix.jobs # {} BY <1>1 DEF Inv, Alone, FillStages
<1>4. Alone' BY <1>1, <1>2, <1>3 DEF Inv, Alone, View, Control
<1>5. JobFills'
  <2>1. CASE job'.at \in {"done", "failed"} BY <2>1 DEF JobFills, FillStages
  <2>2. CASE job' = [job EXCEPT !.at = "queued", !.from = job.start, !.tries = @ + 1]
    <3>1. /\ job'.at = "queued" /\ job'.from = job.start /\ job'.start = job.start
          /\ job'.to = job.to
      BY <2>2 DEF Inv, Typed, Workers
    <3> QED BY <1>1, <3>1 DEF Inv, JobFills, FillStages, Tip
  <2> QED BY <1>1, <2>1, <2>2
<1>6. NothingPassedOver' BY <1>1, <1>2 DEF Inv, NothingPassedOver
<1> QED BY <1>1, <1>3, <1>4, <1>5, <1>6, RemembersSame, JobStepKeeps DEF Inv

\* A job is of a range already passed.
LEMMA QueueBackfillKeeps ==
  ASSUME Inv, Typed', NEW from \in Nat, NEW to \in Nat, QueueBackfill(from, to)
  PROVE  Inv'
<1>1. /\ UNCHANGED <<chain, db, mem, loop, mix>> /\ mix.jobs # {}
      /\ from <= db.cursor /\ to <= Tip
      /\ job'.at = "queued" /\ job'.from = from /\ job'.start = from /\ job'.to = to
  BY DEF QueueBackfill, Inv, ToldApart, Worker
<1>2. Alone' BY <1>1 DEF Inv, Alone, View, Control
<1>3. HandledTo(from, chain, db)
  BY <1>1, HandledDown DEF Inv, Typed, NothingPassedOver
<1>4. JobFills' BY <1>1, <1>3 DEF JobFills, FillStages, Tip
<1>5. NothingPassedOver' BY <1>1 DEF Inv, NothingPassedOver
<1> QED BY <1>1, <1>2, <1>4, <1>5, RemembersSame, JobStepKeeps DEF Inv

LEMMA RunJobKeeps ==
  ASSUME Inv, Typed', RunJob
  PROVE  Inv'
<1> DEFINE w == BeginFill(job, job.from, job.to)
<1>1. /\ UNCHANGED <<chain, db, loop, mix>> /\ job.at = "queued"
      /\ mem'.last = mem.last /\ mem'.watched = mem.watched /\ mem'.view = db.control
      /\ job' = IF w.at = "skipped" THEN Worker("done") ELSE w
  BY DEF RunJob, Inv, Typed, Memories
<1>2. Typed /\ job \in Workers /\ job.from \in Nat /\ job.to \in Nat
  BY DEF Inv, Typed, Workers
<1>3. w.from = job.from BY <1>2, BeginFillType
<1>4. w.to = job.to /\ w.start = job.start
  <2>1. w.to = job.to BY <1>2, BeginFillType
  <2>2. w.start = job.start BY <1>2 DEF BeginFill, Workers
  <2> QED BY <2>1, <2>2
<1>5. w.ids = Asked BY <1>2, BeginFillType
<1>6. w.at = FirstStage BY <1>2, BeginFillType
<1> HIDE DEF w
<1>7. mix.jobs # {} BY <1>1 DEF Inv, Alone
<1>8. View' = Control /\ Control' = Control BY <1>1 DEF View, Control
<1>9. Alone' BY <1>1, <1>7, <1>8 DEF Inv, Alone
<1>10. Factory \in Asked /\ ~View'.paused
  BY <1>7, <1>8 DEF Inv, Alone, NothingPassedOver, Asked, Control
<1>11. job' = w /\ job'.at = "fill" BY <1>1, <1>6, <1>10 DEF FirstStage
<1>12. HandledTo(job.from, chain, db) /\ HandledTo(job.start, chain, db) /\ job.to <= Tip
  BY <1>1 DEF Inv, JobFills
<1>13. JobFills'
  BY <1>1, <1>3, <1>4, <1>5, <1>10, <1>11, <1>12 DEF JobFills, Filling, Tip
<1>14. NothingPassedOver' BY <1>1 DEF Inv, NothingPassedOver
<1> QED BY <1>1, <1>7, <1>9, <1>13, <1>14, RemembersSame, JobStepKeeps DEF Inv
-----------------------------------------------------------------------------
(* The theorems *)

LEMMA StepInv == Inv /\ Own /\ [Next]_vars => Inv'
<1> SUFFICES ASSUME Inv, Own, [Next]_vars PROVE Inv' OBVIOUS
<1>1. Typed' BY StepTyped DEF Inv
<1>2. CASE LoopStep
  <2>1. CASE Start BY <1>1, <2>1, StartKeeps
  <2>2. CASE EnterLoop BY <1>1, <2>2, EnterLoopKeeps
  <2>3. CASE LeaveLoop \/ Rollback BY <1>1, <2>3, RestingSteps
  <2>4. CASE Poll BY <1>1, <2>4, PollKeeps
  <2>5. CASE LoadContractControls BY <1>1, <2>5, LoadKeeps
  <2>6. CASE \E c \in Contracts : ReplayContract(c) BY <1>1, <2>6, ReplayKeeps
  <2>7. CASE ClearMarker BY <1>1, <2>7, ClearMarkerKeeps
  <2>8. CASE FetchEvents BY <1>1, <2>8, FetchKeeps
  <2>9. CASE CommitTick BY <1>1, <2>9, CommitTickKeeps
  <2>10. CASE FinishTick BY <1>1, <2>10, FinishTickKeeps
  <2>11. CASE FetchBatch("loop") BY <1>1, <2>11, FetchBatchKeeps
  <2>12. CASE CommitBatch("loop") BY <1>1, <2>12, CommitLoopBatchKeeps
  <2> QED BY <1>2, <2>1, <2>2, <2>3, <2>4, <2>5, <2>6, <2>7, <2>8, <2>9, <2>10, <2>11, <2>12
          DEF LoopStep
<1>3. CASE JobStep
  <2>1. CASE RunJob BY <1>1, <2>1, RunJobKeeps
  <2>2. CASE FetchBatch("job") BY <1>1, <2>2, FetchBatchKeeps
  <2>3. CASE CommitBatch("job") BY <1>1, <2>3, CommitJobBatchKeeps
  <2> QED BY <1>3, <2>1, <2>2, <2>3 DEF JobStep
<1>4. CASE Failures
  <2>1. CASE StartFails \/ FetchFails \/ RetriesFail BY <1>1, <2>1, RestingSteps
  <2>2. CASE ReplayFails BY <1>1, <2>2, ReplayFailsKeeps
  <2>3. CASE Crash BY <1>1, <2>3, CrashKeeps
  <2>4. CASE \E who \in {"loop", "job"} : BatchFails(who)
    BY <1>1, <2>4, LoopBatchFailsKeeps, JobBatchFailsKeeps
  <2> QED BY <1>4, <2>1, <2>2, <2>3, <2>4 DEF Failures
<1>5. CASE Admin
  <2>1. CASE \E c \in Contracts : PauseContract(c) \/ ResumeContract(c)
                \/ \E only \in {{}, {"vault_created"}} : SetEventFilter(c, only)
    BY <1>1, <2>1, SettingsKeep
  <2>2. CASE \E from, to \in 0..(mix.ledgers + 1) : QueueBackfill(from, to)
    <3>1. 0..(mix.ledgers + 1) \subseteq Nat BY MixAssumption DEF Inv, Typed
    <3> QED BY <1>1, <2>2, <3>1, QueueBackfillKeeps
  <2>3. CASE Stop BY <1>1, <2>3, EnvironmentKeeps
  <2> QED BY <1>5, <2>1, <2>2, <2>3 DEF Admin
<1>6. CASE Grow \/ Drain \/ ClosePool BY <1>1, <1>6, EnvironmentKeeps
<1>7. CASE UNCHANGED vars
  <2>1. UNCHANGED <<chain, db, mem, loop, job, mix>> BY <1>7 DEF vars
  <2>2. Remembers(chain, db, chain', db') BY <2>1, RemembersSame DEF Inv
  <2>3. /\ ToldApart' /\ InStep' /\ Replaying' /\ Ticking' /\ LoopFills' /\ JobFills'
        /\ NothingPassedOver'
    BY <2>1, <2>2, Bystander
  <2>4. Alone' /\ Marked' BY <2>1 DEF Inv, Alone, Marked, Control, View
  <2> QED BY <1>1, <2>3, <2>4 DEF Inv
<1> QED BY <1>2, <1>3, <1>4, <1>5, <1>6, <1>7 DEF Next

LEMMA StepOwn == Inv /\ Own /\ [Next]_vars => Own'
<1> SUFFICES ASSUME Inv, Own, [Next]_vars PROVE Own' OBVIOUS
<1>1. mem \in Memories BY DEF Inv, Typed
<1>2. ASSUME mix' = mix, mem'.reread = mem.reread \/ ~mem'.reread PROVE Own'
  BY <1>2 DEF Own
<1>3. CASE LoopStep
  <2>1. CASE Start \/ EnterLoop \/ LeaveLoop \/ Poll \/ LoadContractControls \/ FetchEvents
             \/ FinishTick \/ FetchBatch("loop")
    BY <1>1, <1>2, <2>1 DEF Start, EnterLoop, LeaveLoop, Poll, LoadContractControls, FetchEvents,
                            FinishTick, Fall, FetchBatch, Memories
  <2>2. CASE ClearMarker \/ CommitTick \/ Rollback \/ CommitBatch("loop")
             \/ \E c \in Contracts : ReplayContract(c)
    BY <1>1, <1>2, <2>2 DEF ClearMarker, CommitTick, Rollback, Noticed, CommitBatch, ReplayContract,
                            Memories
  <2> QED BY <1>3, <2>1, <2>2 DEF LoopStep
<1>4. CASE JobStep
  <2>1. CASE RunJob BY <2>1 DEF RunJob, Inv, Alone, Own
  <2>2. CASE FetchBatch("job") \/ CommitBatch("job")
    BY <1>1, <1>2, <2>2 DEF FetchBatch, CommitBatch, Memories
  <2> QED BY <1>4, <2>1, <2>2 DEF JobStep
<1>5. CASE Failures
  <2>1. CASE StartFails \/ ReplayFails \/ FetchFails \/ RetriesFail \/ Crash
    BY <1>1, <1>2, <2>1 DEF StartFails, ReplayFails, FetchFails, RetriesFail, Crash, Fall, NewProcess,
                            Memories
  <2>2. ASSUME NEW who \in {"loop", "job"}, BatchFails(who) PROVE Own'
    BY <1>1, <1>2, <2>2 DEF BatchFails, Noticed, Fall, Memories
  <2> QED BY <1>5, <2>1, <2>2 DEF Failures
<1>6. CASE Admin
  BY <1>1, <1>2, <1>6 DEF Admin, PauseContract, ResumeContract, SetEventFilter, Configure,
                          QueueBackfill, Stop, Memories
<1>7. CASE Grow \/ Drain \/ ClosePool \/ UNCHANGED vars
  BY <1>2, <1>7 DEF Grow, Drain, ClosePool, vars
<1> QED BY <1>3, <1>4, <1>5, <1>6, <1>7 DEF Next

\* What may happen together is fixed from the start.
LEMMA MixStays == [Next]_vars => mix' = mix
<1>1. LoopStep => mix' = mix
  BY DEF LoopStep, Start, EnterLoop, LeaveLoop, Poll, LoadContractControls, ReplayContract,
         ClearMarker, FetchEvents, CommitTick, Rollback, FinishTick, FetchBatch, CommitBatch
<1>2. JobStep \/ Failures => mix' = mix
  BY DEF JobStep, RunJob, FetchBatch, CommitBatch, Failures, StartFails, ReplayFails, FetchFails,
         RetriesFail, Crash, BatchFails
<1>3. Admin => mix' = mix
  BY DEF Admin, PauseContract, ResumeContract, SetEventFilter, Configure, QueueBackfill, Stop
<1> QED BY <1>1, <1>2, <1>3 DEF Next, Grow, Drain, ClosePool, vars

\* The mixes that keep to it have the invariant, whatever the others do.
LEMMA Invariant == Spec => [](Typed /\ (ToldApart => Inv /\ Own))
<1>1. Init => Typed /\ (ToldApart => Inv /\ Own)
  BY InitInv, InitTyped DEF Init, NewProcess, Own
<1>2. Typed /\ (ToldApart => Inv /\ Own) /\ [Next]_vars => (Typed /\ (ToldApart => Inv /\ Own))'
  BY StepTyped, StepInv, StepOwn, MixStays DEF ToldApart
<1> QED BY <1>1, <1>2, PTL DEF Spec

LEMMA OrderlyInvariant == ASSUME Orderly PROVE Spec => []Inv
<1>1. Typed => ToldApart BY DEF Typed, Orderly, ToldApart
<1> QED BY <1>1, Invariant, PTL

\* No event of the factory is passed over, whatever the chain, the batches and
\* the bounds, across rollbacks, crashes, replays, backfills and pauses.
THEOREM FactoryNeverPassedOver == ASSUME Orderly PROVE Spec => []FactoryComplete
<1>1. Inv => FactoryComplete
  <2> SUFFICES ASSUME Inv, NEW l \in Missed, Of(l) = Factory PROVE FALSE
    BY DEF FactoryComplete
  <2>1. l \in FactoryEvents(chain, db.cursor) BY DEF Missed, Of, FactoryEvents
  <2>2. HandledIn(l, db) BY <2>1 DEF Inv, NothingPassedOver, HandledTo
  <2>3. Settled(l) \/ Owed(l) BY <2>2 DEF HandledIn, SettledIn, OwedIn, Settled, Owed
  <2> QED BY <2>3 DEF Missed
<1> QED BY <1>1, OrderlyInvariant, PTL

\* Nothing recorded of an event is taken back: what a step does to the tables
\* is to add to them, to move the cursor and to change the settings.
LEMMA Recorded ==
  ASSUME Inv, [Next]_vars
  PROVE  /\ db.applied \subseteq db'.applied /\ db.dead \subseteq db'.dead
         /\ db.waived \subseteq db'.waived
         /\ \/ chain' = chain
            \/ \E ev \in [of : Contracts, kind : STRING] : chain' = Append(chain, ev) /\ db' = db
<1>1. db \in Databases /\ mem.view \in [Contracts -> Controls] /\ loop \in Workers /\ job \in Workers
  BY DEF Inv, Typed, Memories
<1>2. CASE Grow
  <2>1. PICK ev \in mix.events : chain' = Append(chain, ev) /\ db' = db BY <1>2 DEF Grow
  <2>2. ev \in [of : Contracts, kind : STRING] BY MixAssumption DEF Inv, Typed, Contracts
  <2> QED BY <2>1, <2>2
<1>3. CASE db' = db /\ chain' = chain BY <1>3
<1>4. ASSUME NEW c \in Contracts, ReplayContract(c)
      PROVE  /\ db.applied \subseteq db'.applied /\ db.dead \subseteq db'.dead
             /\ db.waived \subseteq db'.waived /\ chain' = chain
  <2> DEFINE batch == {l \in GetEvents(mem.view[c].pausedAt + 1, {c}) : l <= mem.last}
  <2>1. mem.view[c].pausedAt + 1 \in Nat BY <1>1 DEF Controls, None
  <2>2. batch \in SUBSET Nat BY <2>1, Fetched DEF Inv
  <2>3. db' = ProcessEvents(batch, {"bad", "poison"}) /\ chain' = chain
    BY <1>4 DEF ReplayContract
  <2> QED BY <2>2, <2>3, Processed DEF Inv
<1>5. ASSUME NEW c, NEW only, PauseContract(c) \/ ResumeContract(c) \/ SetEventFilter(c, only)
      PROVE  /\ db'.applied = db.applied /\ db'.dead = db.dead /\ db'.waived = db.waived
             /\ chain' = chain
  <2>1. PICK row : db' = [db EXCEPT !.control[c] = row]
    BY <1>5 DEF PauseContract, ResumeContract, SetEventFilter, Configure
  <2> QED BY <1>1, <1>5, <2>1
          DEF Databases, PauseContract, ResumeContract, SetEventFilter, Configure
<1>6. CASE ClearMarker
  <2>1. PICK c : db' = [db EXCEPT !.control[c].pausedAt = IF db.control[c].paused THEN @ ELSE None]
    BY <1>6 DEF ClearMarker
  <2> QED BY <1>1, <1>6, <2>1 DEF Databases, ClearMarker
<1>7. CASE CommitTick
  <2>1. loop.batch \in SUBSET Nat /\ loop.to \in Nat BY <1>1 DEF Workers
  <2> QED BY <1>7, <2>1, RemembersProcessed DEF Inv, Remembers, CommitTick
<1>8. ASSUME NEW who \in {"loop", "job"}, CommitBatch(who)
      PROVE  /\ db.applied \subseteq db'.applied /\ db.dead \subseteq db'.dead
             /\ db.waived \subseteq db'.waived /\ chain' = chain
  <2>1. FillOf(who) \in Workers BY <1>1 DEF FillOf
  <2>2. FillOf(who).batch \in SUBSET Nat /\ BatchTo(FillOf(who)) \in Nat
    BY <2>1, BatchToType DEF Workers
  <2> QED BY <1>8, <2>2, RemembersProcessed DEF Inv, Remembers, CommitBatch
<1>9. CASE LoopStep
  <2>1. CASE Start \/ EnterLoop \/ LeaveLoop \/ Poll \/ LoadContractControls \/ FetchEvents
             \/ Rollback \/ FinishTick \/ FetchBatch("loop")
    BY <1>3, <2>1 DEF Start, EnterLoop, LeaveLoop, Poll, LoadContractControls, FetchEvents,
                      Rollback, FinishTick, FetchBatch
  <2> QED BY <1>4, <1>6, <1>7, <1>8, <1>9, <2>1 DEF LoopStep
<1>10. CASE JobStep
  <2>1. CASE RunJob \/ FetchBatch("job") BY <1>3, <2>1 DEF RunJob, FetchBatch
  <2> QED BY <1>8, <1>10, <2>1 DEF JobStep
<1>11. CASE Failures
  BY <1>3, <1>11 DEF Failures, StartFails, ReplayFails, FetchFails, RetriesFail, Crash, BatchFails
<1>12. CASE Admin
  <2>1. CASE Stop \/ \E from, to \in 0..(mix.ledgers + 1) : QueueBackfill(from, to)
    BY <1>3, <2>1 DEF Stop, QueueBackfill
  <2>2. CASE \E c \in Contracts : PauseContract(c) \/ ResumeContract(c)
                \/ \E only \in {{}, {"vault_created"}} : SetEventFilter(c, only)
    BY <1>5, <2>2
  <2> QED BY <1>12, <2>1, <2>2 DEF Admin
<1>13. CASE Drain \/ ClosePool \/ UNCHANGED vars
  BY <1>3, <1>13 DEF Drain, ClosePool, vars
<1> QED BY <1>2, <1>9, <1>10, <1>11, <1>12, <1>13 DEF Next

\* The ledgers of the factory that need nothing more, and those below the
\* cursor that still do.
Done(log, d) == {l \in 1..Len(log) : log[l].of # Factory \/ SettledIn(l, d)}
Due(log, d) == (1..d.cursor) \ Done(log, d)

LogStands ==
  /\ Done(chain, db) = {l \in 1..Tip : Of(l) # Factory \/ Settled(l)}
  /\ Due(chain, db) = {l \in 1..db.cursor : Of(l) = Factory /\ ~Settled(l) /\ Owed(l)}
  /\ Tip \in Nat /\ db.cursor \in 0..Tip

LEMMA LogView == Inv => LogStands
<1> SUFFICES ASSUME Inv PROVE LogStands OBVIOUS
<1>1. Done(chain, db) = {l \in 1..Tip : Of(l) # Factory \/ Settled(l)}
  BY DEF Done, Tip, Of, Settled, SettledIn
<1>2. Tip \in Nat /\ db.cursor \in 0..Tip
  BY DEF Inv, Typed, NothingPassedOver, HandledTo, Tip
<1>3. ASSUME NEW l \in 1..db.cursor, Of(l) = Factory PROVE Settled(l) \/ Owed(l)
  <2>1. l \in FactoryEvents(chain, db.cursor) BY <1>3 DEF Of, FactoryEvents
  <2>2. HandledIn(l, db) BY <2>1 DEF Inv, NothingPassedOver, HandledTo
  <2> QED BY <1>3, <2>2 DEF HandledIn, SettledIn, OwedIn, Settled, Owed
<1>4. \A l \in 1..db.cursor : l \in 1..Tip BY <1>2
<1>5. Due(chain, db) = {l \in 1..db.cursor : Of(l) = Factory /\ ~Settled(l) /\ Owed(l)}
  BY <1>1, <1>3, <1>4 DEF Due
<1> QED BY <1>1, <1>2, <1>5 DEF LogStands

\* The engine is a consumer of the factory's ledgers that deals with them
\* early, late or again, and may be set back, but passes over none of them.
THEOREM IndexerImplementsLog == ASSUME Orderly PROVE Spec => LogSpec
<1> DEFINE done == {l \in 1..Tip : Of(l) # Factory \/ Settled(l)}
           owed == {l \in 1..db.cursor : Of(l) = Factory /\ ~Settled(l) /\ Owed(l)}
<1>1. Init => Log!Init
  <2> SUFFICES ASSUME Init PROVE Log!Init OBVIOUS
  <2>1. Tip = 0 /\ db.cursor = 0 BY DEF Init, Tip, Tables
  <2> QED BY <2>1 DEF Log!Init
<1>a. Inv' => LogStands' BY LogView, PTL
<1>2. Inv /\ Inv' /\ [Next]_vars => [Log!Next]_(Log!vars)
  <2> SUFFICES ASSUME Inv, Inv', [Next]_vars PROVE Log!Next \/ UNCHANGED Log!vars OBVIOUS
  <2>1. /\ done = Done(chain, db) /\ owed = Due(chain, db)
        /\ Tip \in Nat /\ db.cursor \in 0..Tip
    BY LogView DEF LogStands
  <2>2. /\ done' = Done(chain', db') /\ owed' = Due(chain', db')
        /\ Tip' \in Nat /\ db'.cursor \in 0..Tip'
    BY <1>a DEF LogStands
  <2>3. /\ done \subseteq 1..Tip /\ owed = (1..db.cursor) \ done
        /\ done' \subseteq 1..Tip' /\ owed' = (1..db'.cursor) \ done'
    BY <2>1, <2>2 DEF Due
  <2>4. CASE chain' = chain
    <3>1. Tip' = Tip BY <2>4 DEF Tip
    <3>2. done \subseteq done'
      <4>1. Done(chain, db) \subseteq Done(chain', db') BY <2>4, Recorded DEF Done, SettledIn
      <4> QED BY <2>1, <2>2, <4>1
    <3>3. done' \in SUBSET (1..Tip) /\ done' = done \cup done' BY <2>3, <3>1, <3>2
    <3> HIDE DEF done, owed
    <3>4. CASE db'.cursor >= db.cursor
      <4>1. db'.cursor \in db.cursor..Tip BY <2>1, <2>2, <3>1, <3>4
      <4>2. owed' = (owed \cup ((db.cursor + 1)..db'.cursor)) \ done'
        <5>1. 1..db'.cursor = (1..db.cursor) \cup ((db.cursor + 1)..db'.cursor)
          BY <2>1, <2>2, <3>4
        <5> QED BY <2>3, <3>2, <5>1
      <4> QED BY <3>1, <3>3, <4>1, <4>2 DEF Log!Next, Log!Deliver, done, owed
    <3>5. CASE db'.cursor < db.cursor
      <4>1. db'.cursor \in 0..(db.cursor - 1) BY <2>1, <2>2, <3>5
      <4>2. owed' = (owed \cap (1..db'.cursor)) \ done'
        <5>1. 1..db'.cursor \subseteq 1..db.cursor BY <2>1, <2>2, <3>5
        <5> QED BY <2>3, <3>2, <5>1
      <4> QED BY <3>1, <3>3, <4>1, <4>2 DEF Log!Next, Log!Retreat, done, owed
    <3> QED BY <2>1, <2>2, <3>4, <3>5
  <2>5. CASE \E ev \in [of : Contracts, kind : STRING] : chain' = Append(chain, ev) /\ db' = db
    <3>1. /\ Len(chain) \in Nat /\ Len(chain') = Len(chain) + 1
          /\ \A l \in 1..Len(chain) : chain'[l] = chain[l]
      BY <2>5 DEF Inv, Typed
    <3>2. db' = db BY <2>5
    <3>3. Done(chain', db') \in {Done(chain, db), Done(chain, db) \cup {Len(chain) + 1}}
      BY <3>1, <3>2 DEF Done
    <3>4. Tip' = Tip + 1 /\ done' \in {done, done \cup {Tip + 1}}
      BY <2>1, <2>2, <3>1, <3>3 DEF Tip
    <3>5. Due(chain', db') = Due(chain, db)
      <4>1. db.cursor \in 0..Len(chain) BY <2>1 DEF Tip
      <4> QED BY <3>1, <3>2, <3>3, <4>1 DEF Due
    <3>6. owed' = owed BY <2>1, <2>2, <3>5
    <3> QED BY <3>2, <3>4, <3>6 DEF Log!Next, Log!Append1
  <2> QED BY <2>4, <2>5, Recorded
<1>3. Spec => []Inv BY OrderlyInvariant
<1> HIDE DEF done, owed
<1> QED BY <1>1, <1>2, <1>3, PTL DEF Spec, LogSpec, Log!Spec

\* Only ClearMarker takes a marker away, of the contract replayed last.
LEMMA OnlyClearMarker ==
  ASSUME Inv, [Next]_vars, NEW c \in Contracts,
         db.control[c].pausedAt # None, db'.control[c].pausedAt = None
  PROVE  c \in loop.ids /\ loop.at = "replayed"
<1>1. /\ db \in Databases /\ db.control[c] \in Controls
      /\ mem.view \in [Contracts -> Controls] /\ loop \in Workers /\ job \in Workers
  BY DEF Inv, Typed, Memories, Databases
<1>2. ClearMarker
  <2> SUFFICES ASSUME ~ClearMarker PROVE db'.control[c].pausedAt = db.control[c].pausedAt
    OBVIOUS
  <2>1. CASE db' = db BY <2>1
  <2>2. ASSUME NEW k \in Contracts, ReplayContract(k) PROVE db'.control = db.control
    <3> DEFINE batch == {l \in GetEvents(mem.view[k].pausedAt + 1, {k}) : l <= mem.last}
    <3>1. mem.view[k].pausedAt + 1 \in Nat BY <1>1 DEF Controls, None
    <3>2. batch \in SUBSET Nat BY <3>1, Fetched DEF Inv
    <3>3. db' = ProcessEvents(batch, {"bad", "poison"}) BY <2>2 DEF ReplayContract
    <3> HIDE DEF batch
    <3>4. Typed BY DEF Inv
    <3> QED BY <3>2, <3>3, <3>4, Processed
  <2>3. CASE CommitTick
    <3>1. loop.batch \in SUBSET Nat /\ loop.to \in Nat BY <1>1 DEF Workers
    <3> QED BY <2>3, <3>1, RemembersProcessed DEF Inv, CommitTick
  <2>4. ASSUME NEW who \in {"loop", "job"}, CommitBatch(who) PROVE db'.control = db.control
    <3>1. FillOf(who) \in Workers BY <1>1 DEF FillOf
    <3>2. FillOf(who).batch \in SUBSET Nat /\ BatchTo(FillOf(who)) \in Nat
      BY <3>1, BatchToType DEF Workers
    <3> QED BY <2>4, <3>2, RemembersProcessed DEF Inv, CommitBatch
  <2>5. ASSUME NEW k \in Contracts, NEW only,
               PauseContract(k) \/ ResumeContract(k) \/ SetEventFilter(k, only)
        PROVE  db'.control[c].pausedAt = db.control[c].pausedAt
    <3>1. CASE k # c
      BY <1>1, <2>5, <3>1 DEF PauseContract, ResumeContract, SetEventFilter, Configure, Databases
    <3>2. CASE k = c
      <4>1. CASE PauseContract(c)
        BY <1>1, <4>1 DEF PauseContract, Configure, Databases, Controls
      <4>2. CASE ResumeContract(c)
        BY <1>1, <4>2 DEF ResumeContract, Configure, Databases, Controls
      <4>3. CASE SetEventFilter(c, only)
        BY <1>1, <4>3 DEF SetEventFilter, Configure, Databases, Controls
      <4> QED BY <2>5, <3>2, <4>1, <4>2, <4>3
    <3> QED BY <3>1, <3>2
  <2>6. CASE LoopStep
    <3>1. CASE Start \/ EnterLoop \/ LeaveLoop \/ Poll \/ LoadContractControls \/ FetchEvents
               \/ Rollback \/ FinishTick \/ FetchBatch("loop")
      BY <2>1, <3>1 DEF Start, EnterLoop, LeaveLoop, Poll, LoadContractControls, FetchEvents,
                        Rollback, FinishTick, FetchBatch
    <3> QED BY <2>2, <2>3, <2>4, <2>6, <3>1 DEF LoopStep
  <2>7. CASE JobStep
    <3>1. CASE RunJob \/ FetchBatch("job") BY <2>1, <3>1 DEF RunJob, FetchBatch
    <3> QED BY <2>4, <2>7, <3>1 DEF JobStep
  <2>8. CASE Failures
    BY <2>1, <2>8 DEF Failures, StartFails, ReplayFails, FetchFails, RetriesFail, Crash, BatchFails
  <2>9. CASE Admin
    <3>1. CASE Stop \/ \E from, to \in 0..(mix.ledgers + 1) : QueueBackfill(from, to)
      BY <2>1, <3>1 DEF Stop, QueueBackfill
    <3>2. CASE \E k \in Contracts : PauseContract(k) \/ ResumeContract(k)
                  \/ \E only \in {{}, {"vault_created"}} : SetEventFilter(k, only)
      BY <2>5, <3>2
    <3> QED BY <2>9, <3>1, <3>2 DEF Admin
  <2>10. CASE Grow \/ Drain \/ ClosePool \/ UNCHANGED vars
    BY <2>1, <2>10 DEF Grow, Drain, ClosePool, vars
  <2> QED BY <2>6, <2>7, <2>8, <2>9, <2>10 DEF Next
<1>3. PICK k \in loop.ids :
        /\ loop.at = "replayed"
        /\ db' = [db EXCEPT !.control[k].pausedAt = IF db.control[k].paused THEN @ ELSE None]
  BY <1>2 DEF ClearMarker
<1>4. k \in Contracts BY <1>1 DEF Workers
<1>5. k = c BY <1>1, <1>3, <1>4 DEF Databases
<1> QED BY <1>3, <1>5
-----------------------------------------------------------------------------
(* The vault, where there are no jobs *)

VaultControl == db.control[Vault]
VaultView == mem.view[Vault]

\* The ledgers of the vault from the one on at which it is known to be followed.
VaultEvents(log, from, n) == {l \in 1..n : log[l].of = Vault /\ from # None /\ from < l}
VaultOwed(l, d) == d.control[Vault].pausedAt # None /\ d.control[Vault].pausedAt < l
VaultTo(n, log, d, from) == \A l \in VaultEvents(log, from, n) : SettledIn(l, d) \/ VaultOwed(l, d)

\* It is followed once it is watched, which a backfill at startup, whose range
\* and contracts were fixed before, does up to its end only.
Noted ==
  /\ since \in Nat \cup {None}
  /\ since # None => Vault \in mem.watched /\ loop.at \notin {"new", "starting"}
  /\ (loop.at \in FillStages /\ since # None) => loop.to <= since
VaultMarked ==
  /\ VaultControl.paused => VaultControl.pausedAt # None
  /\ VaultControl.pausedAt # None => VaultControl.pausedAt <= db.cursor
  /\ VaultView.paused => VaultControl.pausedAt \in 0..mem.last
  /\ VaultView.pausedAt # None => VaultControl.pausedAt = VaultView.pausedAt
VaultReplaying ==
  /\ loop.at \in {"loaded", "replayed"} /\ Vault \in loop.replay
       => ~VaultView.paused /\ VaultView.pausedAt # None
  /\ loop.at = "replayed" => loop.ids \subseteq loop.replay
  /\ loop.at = "replayed" /\ Vault \in loop.ids =>
       \A l \in VaultEvents(chain, since, mem.last) : SettledIn(l, db)
VaultTicking ==
  loop.at = "fetched" =>
    \A l \in VaultEvents(chain, since, loop.to) :
      SettledIn(l, db) \/ VaultOwed(l, db) \/ (l \in loop.batch /\ ~VaultView.paused)
Tracked == /\ Noted /\ VaultMarked /\ VaultReplaying /\ VaultTicking
           /\ VaultTo(db.cursor, chain, db, since)

\* What the lemmas below assume of a step.
Tracking == mix.jobs = {} /\ Inv /\ Inv' /\ Tracked

LEMMA VaultTypes ==
  ASSUME Typed
  PROVE  /\ Vault \in Contracts /\ VaultControl \in Controls /\ VaultView \in Controls
         /\ db \in Databases /\ mem \in Memories /\ loop \in Workers
         /\ mem.last \in Nat /\ db.cursor \in Nat /\ loop.to \in Nat /\ Len(chain) \in Nat
BY DEF Typed, VaultControl, VaultView, Databases, Memories, Workers, Contracts

VaultRemembers ==
  /\ db.applied \subseteq db'.applied /\ db.dead \subseteq db'.dead /\ db.waived \subseteq db'.waived
  /\ VaultControl.pausedAt # None => VaultControl'.pausedAt = VaultControl.pausedAt
  /\ \A l \in 1..Len(chain) : chain'[l] = chain[l]

\* What is dealt with stays so; a ledger set as the first to follow excuses
\* those before it.
LEMMA VaultStays ==
  ASSUME VaultRemembers, NEW n \in Nat, n <= Len(chain), Len(chain) \in Nat,
         \/ since' = since
         \/ since = None /\ since' \in Nat /\ n <= since'
  PROVE  /\ VaultEvents(chain', since', n) \subseteq VaultEvents(chain, since, n)
         /\ \A l : SettledIn(l, db) => SettledIn(l, db')
         /\ \A l : VaultOwed(l, db) => VaultOwed(l, db')
         /\ VaultTo(n, chain, db, since) => VaultTo(n, chain', db', since')
<1>1. ASSUME NEW l \in VaultEvents(chain', since', n)
      PROVE  l \in VaultEvents(chain, since, n)
  <2>1. l \in 1..Len(chain) /\ l <= n BY DEF VaultEvents
  <2> QED BY <2>1 DEF VaultRemembers, VaultEvents, None
<1>2. \A l : SettledIn(l, db) => SettledIn(l, db') BY DEF VaultRemembers, SettledIn
<1>3. \A l : VaultOwed(l, db) => VaultOwed(l, db')
  BY DEF VaultRemembers, VaultOwed, VaultControl
<1>4. VaultTo(n, chain, db, since) => VaultTo(n, chain', db', since')
  BY <1>1, <1>2, <1>3 DEF VaultTo
<1> QED BY <1>1, <1>2, <1>3, <1>4

\* The tables stay, the loop goes on, the settings may be read again.
LEMMA QuietlyMarked ==
  ASSUME Tracking, UNCHANGED <<chain, db, since>>, mem.last <= mem'.last,
         VaultView' = VaultView \/ (VaultView' = VaultControl /\ mem.last = db.cursor)
  PROVE  VaultMarked' /\ VaultTo(db.cursor, chain, db, since)'
<1>1. VaultControl' = VaultControl BY DEF VaultControl
<1>2. VaultControl.pausedAt \in Nat \cup {None} /\ db.cursor \in Nat /\ mem.last \in Nat
  BY VaultTypes DEF Tracking, Inv, Controls
<1>3. mem'.last \in Nat
  BY DEF Tracking, Inv, Typed, Memories
<1>4. VaultMarked' BY <1>1, <1>2, <1>3 DEF Tracking, Tracked, VaultMarked
<1>5. VaultTo(db.cursor, chain, db, since) /\ db' = db /\ chain' = chain /\ since' = since
  BY DEF Tracking, Tracked
<1> QED BY <1>4, <1>5 DEF VaultTo, VaultEvents, SettledIn, VaultOwed

\* Nothing moves but the chain, or one row of the settings.
LEMMA VaultBystander ==
  ASSUME Tracking, VaultRemembers, UNCHANGED <<loop, since>>,
         mem'.last = mem.last, mem'.watched = mem.watched, mem'.view = mem.view,
         db'.cursor = db.cursor, VaultMarked'
  PROVE  Tracked'
<1>1. /\ mem.last \in Nat /\ db.cursor \in Nat /\ Len(chain) \in Nat /\ loop.to \in Nat
      /\ db.cursor <= Len(chain) /\ mem.last <= Len(chain)
  BY VaultTypes DEF Tracking, Inv, NothingPassedOver, HandledTo
<1>2. VaultView' = VaultView BY DEF VaultView
<1>3. Noted' BY DEF Tracking, Tracked, Noted
<1>4. VaultTo(db.cursor, chain, db, since)' BY <1>1, VaultStays DEF Tracking, Tracked
<1>5. VaultReplaying'
  <2>1. VaultEvents(chain', since', mem.last) \subseteq VaultEvents(chain, since, mem.last)
        /\ \A l : SettledIn(l, db) => SettledIn(l, db')
    BY <1>1, VaultStays
  <2> QED BY <1>2, <2>1 DEF Tracking, Tracked, VaultReplaying
<1>6. VaultTicking'
  <2>1. CASE loop.at = "fetched"
    <3>1. loop.to <= Len(chain) BY <2>1 DEF Tracking, Inv, Ticking, TickStages, Tip
    <3>2. /\ VaultEvents(chain', since', loop.to) \subseteq VaultEvents(chain, since, loop.to)
          /\ \A l : SettledIn(l, db) => SettledIn(l, db')
          /\ \A l : VaultOwed(l, db) => VaultOwed(l, db')
      BY <1>1, <3>1, VaultStays
    <3> QED BY <1>2, <2>1, <3>2 DEF Tracking, Tracked, VaultTicking
  <2>2. CASE loop.at # "fetched" BY <2>2 DEF VaultTicking
  <2> QED BY <2>1, <2>2
<1> QED BY <1>3, <1>4, <1>5, <1>6 DEF Tracking, Tracked

LEMMA VaultEnvironment ==
  ASSUME Tracking, Grow \/ Stop \/ Drain \/ ClosePool \/ UNCHANGED vars
  PROVE  Tracked'
<1>1. UNCHANGED <<db, loop, since>> /\ Len(chain) \in Nat
  BY DEF Tracking, Inv, Typed, Grow, Stop, Drain, ClosePool, vars
<1>2. mem'.last = mem.last /\ mem'.watched = mem.watched /\ mem'.view = mem.view
  BY DEF Tracking, Inv, Typed, Memories, Grow, Stop, Drain, ClosePool, vars
<1>3. \A l \in 1..Len(chain) : chain'[l] = chain[l]
  <2>1. CASE Grow
    <3>1. PICK ev \in mix.events : chain' = Append(chain, ev) BY <2>1 DEF Grow
    <3>2. ev \in [of : Contracts, kind : STRING]
      BY MixAssumption DEF Tracking, Inv, Typed, Contracts
    <3> QED BY <3>1, <3>2 DEF Tracking, Inv, Typed
  <2>2. CASE Stop \/ Drain \/ ClosePool \/ UNCHANGED vars
    BY <2>2 DEF Stop, Drain, ClosePool, vars
  <2> QED BY <2>1, <2>2
<1>4. VaultControl' = VaultControl /\ VaultView' = VaultView
  BY <1>1, <1>2 DEF VaultControl, VaultView
<1>5. VaultRemembers BY <1>1, <1>3, <1>4 DEF VaultRemembers
<1>6. VaultMarked' BY <1>1, <1>2, <1>4 DEF Tracking, Tracked, VaultMarked
<1> QED BY <1>1, <1>2, <1>5, <1>6, VaultBystander

LEMMA VaultSettings ==
  ASSUME Tracking, NEW c \in Contracts, NEW only,
         PauseContract(c) \/ ResumeContract(c) \/ SetEventFilter(c, only)
  PROVE  Tracked'
<1> DEFINE old == db.control[Vault]
           new == db'.control[Vault]
<1>1. Vault \in Contracts /\ old \in Controls /\ db \in Databases
  BY VaultTypes DEF Tracking, Inv, VaultControl
<1>2. UNCHANGED <<chain, mem, loop, since>>
  BY DEF PauseContract, ResumeContract, SetEventFilter, Configure
<1>3. PICK row : db' = [db EXCEPT !.control[c] = row]
  BY DEF PauseContract, ResumeContract, SetEventFilter, Configure
<1>4. /\ db'.cursor = db.cursor /\ db'.applied = db.applied /\ db'.dead = db.dead
      /\ db'.waived = db.waived
      /\ c # Vault => new = old
  BY <1>1, <1>3 DEF Databases
<1>5. /\ old.pausedAt # None => new.pausedAt = old.pausedAt
      /\ new.paused => old.paused \/ new.pausedAt # None
      /\ new.pausedAt # None => new.pausedAt = old.pausedAt \/ new.pausedAt = db.cursor
  <2>1. CASE c = Vault
    <3>1. CASE PauseContract(c)
      <4>1. new.pausedAt = IF old.pausedAt = None THEN db.cursor ELSE old.pausedAt
        BY <1>1, <2>1, <3>1 DEF PauseContract, Configure, Databases, Controls
      <4>2. db.cursor # None BY <1>1 DEF Databases, None
      <4> QED BY <4>1, <4>2
    <3>2. CASE ResumeContract(c)
      BY <1>1, <2>1, <3>2 DEF ResumeContract, Configure, Databases, Controls
    <3>3. CASE SetEventFilter(c, only)
      BY <1>1, <2>1, <3>3 DEF SetEventFilter, Configure, Databases, Controls
    <3> QED BY <3>1, <3>2, <3>3
  <2>2. CASE c # Vault BY <1>4, <2>2
  <2> QED BY <2>1, <2>2
<1>6. VaultControl = old /\ VaultControl' = new /\ VaultView' = VaultView
  BY <1>2 DEF VaultControl, VaultView
<1> HIDE DEF old, new
<1>7. VaultRemembers BY <1>2, <1>4, <1>5, <1>6 DEF VaultRemembers
<1>8. db.cursor \in Nat BY <1>1 DEF Databases
<1>9. VaultMarked'
  BY <1>2, <1>4, <1>5, <1>6, <1>8 DEF Tracking, Tracked, VaultMarked, None
<1> QED BY <1>2, <1>4, <1>7, <1>9, VaultBystander

\* After a crash the vault is not followed, until it is noticed again.
LEMMA VaultCrash ==
  ASSUME Tracking, Crash
  PROVE  Tracked'
<1>1. /\ mem' = NewProcess /\ loop'.at = "new" /\ UNCHANGED <<chain, db>> /\ since' = None
  BY DEF Crash, Worker
<1>2. VaultView' = NoControl /\ VaultControl' = VaultControl
  BY <1>1 DEF NewProcess, VaultView, VaultControl, Contracts
<1>3. Noted' /\ VaultReplaying' /\ VaultTicking' /\ VaultTo(db.cursor, chain, db, since)'
  BY <1>1 DEF Noted, FillStages, VaultReplaying, VaultTicking, VaultTo, VaultEvents
<1>4. VaultMarked' BY <1>1, <1>2 DEF Tracking, Tracked, VaultMarked, NoControl
<1> QED BY <1>3, <1>4 DEF Tracked

LEMMA VaultRest ==
  ASSUME Tracking, UNCHANGED <<chain, db, since>>,
         mem.last <= mem'.last, mem'.view = mem.view, mem.watched \subseteq mem'.watched,
         loop'.at \in {"down", "idle", "polled"}, loop.at \notin {"new", "starting"} \/ since = None
  PROVE  Tracked'
<1>1. VaultView' = VaultView BY DEF VaultView
<1>2. VaultMarked' /\ VaultTo(db.cursor, chain, db, since)' BY <1>1, QuietlyMarked
<1>3. Noted' /\ VaultReplaying' /\ VaultTicking'
  BY DEF Tracking, Tracked, Noted, VaultReplaying, VaultTicking, FillStages
<1> QED BY <1>2, <1>3 DEF Tracked

\* The steps of the loop that leave the tables alone.
LEMMA VaultLoop ==
  ASSUME Tracking,
         \/ Start \/ EnterLoop \/ LeaveLoop \/ Poll \/ LoadContractControls \/ FetchEvents
         \/ Rollback \/ FinishTick \/ FetchBatch("loop") \/ BatchFails("loop")
         \/ StartFails \/ ReplayFails \/ FetchFails \/ RetriesFail
  PROVE  Tracked'
<1>a. /\ Typed /\ Typed' /\ db \in Databases /\ mem \in Memories /\ loop \in Workers
      /\ mem.last \in Nat /\ db.cursor \in Nat /\ loop.to \in Nat /\ Len(chain) \in Nat
  BY VaultTypes DEF Tracking, Inv
<1>b. mix.jobs = {} /\ InStep /\ Tracked BY DEF Tracking, Inv
<1>1. CASE Start
  <2>1. /\ UNCHANGED <<chain, db, since>> /\ loop.at = "new" /\ loop'.at = "starting"
        /\ mem'.last = db.cursor /\ mem'.view = mem.view /\ mem'.watched = mem.watched
    BY <1>1, <1>a DEF Start, Worker, Memories
  <2>2. mem.last <= mem'.last BY <1>b, <2>1 DEF InStep
  <2>3. VaultView' = VaultView BY <2>1 DEF VaultView
  <2>4. VaultMarked' /\ VaultTo(db.cursor, chain, db, since)' BY <2>1, <2>2, <2>3, QuietlyMarked
  <2>5. Noted' /\ VaultReplaying' /\ VaultTicking'
    BY <1>b, <2>1 DEF Tracked, Noted, VaultReplaying, VaultTicking, FillStages
  <2> QED BY <2>4, <2>5 DEF Tracked
<1>2. CASE EnterLoop
  <2> DEFINE w == BeginFill(loop, mem.last, Tip)
  <2>1. /\ UNCHANGED <<chain, db, since>> /\ loop.at = "starting"
        /\ mem'.last = mem.last /\ mem'.watched = mem.watched
        /\ mem'.view = mem.view \/ mem'.view = db.control
        /\ loop' = Worker("idle") \/ loop' = w
    BY <1>2, <1>a DEF EnterLoop, Memories
  <2>2. w.at = FirstStage
    <3>1. Typed /\ loop \in Workers BY <1>a
    <3>2. mem.last \in Nat /\ Tip \in Nat BY <1>a DEF Tip
    <3> QED BY <3>1, <3>2, BeginFillType
  <2> HIDE DEF w
  <2>3. loop'.at \in {"idle", "fill", "skipped"} BY <2>1, <2>2 DEF Worker, FirstStage
  <2>4. since = None BY <1>b, <2>1 DEF Tracked, Noted
  <2>5. mem.last = db.cursor BY <1>b, <2>1 DEF InStep, Following
  <2>6. VaultView' = VaultView \/ VaultView' = VaultControl
    BY <2>1 DEF VaultView, VaultControl
  <2>7. VaultMarked' /\ VaultTo(db.cursor, chain, db, since)'
    BY <1>a, <2>1, <2>5, <2>6, QuietlyMarked
  <2>8. Noted' /\ VaultReplaying' /\ VaultTicking'
    BY <1>b, <2>1, <2>3, <2>4 DEF Tracked, Noted, VaultReplaying, VaultTicking
  <2> QED BY <2>7, <2>8 DEF Tracked
<1>3. CASE LeaveLoop \/ Poll \/ StartFails \/ FetchFails \/ RetriesFail
  <2>1. /\ UNCHANGED <<chain, db, since>> /\ mem'.last = mem.last /\ mem'.view = mem.view
        /\ mem'.watched = mem.watched /\ loop'.at \in {"down", "idle", "polled"}
        /\ loop.at # "new"
    BY <1>3, <1>a DEF LeaveLoop, Poll, StartFails, FetchFails, RetriesFail, Fall, Worker, Memories
  <2>2. loop.at \notin {"new", "starting"} \/ since = None
    BY <1>b, <2>1 DEF Tracked, Noted
  <2> QED BY <1>a, <2>1, <2>2, VaultRest
<1>4. CASE Rollback \/ BatchFails("loop")
  <2>1. /\ UNCHANGED <<chain, db, since>> /\ loop'.at \in {"down", "idle"}
        /\ loop.at \in {"fetched"} \cup FillStages
        /\ \/ \E before : mem' = [mem EXCEPT !.watched = Watched(before)]
           \/ mem' = [mem EXCEPT !.running = FALSE]
    BY <1>4 DEF Rollback, BatchFails, FillOf, SetFill, FillDone, Noticed, Fall, Worker
  <2>2. mem'.last = mem.last /\ mem'.view = mem.view /\ mem.watched \subseteq mem'.watched
    <3>1. CASE mem' = [mem EXCEPT !.running = FALSE] BY <1>a, <3>1 DEF Memories
    <3>2. CASE \E before : mem' = [mem EXCEPT !.watched = Watched(before)]
      BY <1>a, <3>2, WatchedType DEF Memories
    <3> QED BY <2>1, <3>1, <3>2
  <2>3. loop.at \notin {"new", "starting"} BY <2>1 DEF FillStages
  <2> QED BY <1>a, <2>1, <2>2, <2>3, VaultRest
<1>5. CASE FinishTick
  <2>1. /\ UNCHANGED <<chain, db, since>> /\ loop.at = "committed"
        /\ loop'.at \in {"down", "idle"} /\ mem'.view = mem.view /\ mem'.watched = mem.watched
        /\ mem'.last \in {mem.last, loop.to}
    BY <1>5, <1>a DEF FinishTick, Fall, Worker, Memories
  <2>2. mem.last <= loop.to BY <1>b, <2>1 DEF InStep, TickStages
  <2> QED BY <1>a, <2>1, <2>2, VaultRest
<1>6. CASE LoadContractControls
  <2>1. /\ UNCHANGED <<chain, db, since>> /\ loop.at = "polled"
        /\ mem'.last = mem.last /\ mem'.watched = mem.watched
        /\ mem'.view = mem.view \/ mem'.view = db.control
        /\ loop'.at = "loaded"
        /\ loop'.replay = {c \in Contracts : ~mem'.view[c].paused /\ mem'.view[c].pausedAt # None}
    BY <1>6, <1>a DEF LoadContractControls, Memories, Workers
  <2>2. mem.last = db.cursor BY <1>b, <2>1 DEF InStep, Following
  <2>3. VaultView' = VaultView \/ VaultView' = VaultControl
    BY <2>1 DEF VaultView, VaultControl
  <2>4. VaultMarked' /\ VaultTo(db.cursor, chain, db, since)'
    BY <1>a, <2>1, <2>2, <2>3, QuietlyMarked
  <2>5. Noted' /\ VaultReplaying' /\ VaultTicking'
    BY <1>b, <2>1 DEF Tracked, Noted, VaultReplaying, VaultTicking, VaultView, FillStages
  <2> QED BY <2>4, <2>5 DEF Tracked
<1>7. CASE ReplayFails
  <2>1. /\ UNCHANGED <<chain, db, since, mem>> /\ loop.at = "loaded" /\ loop'.at = "loaded"
        /\ loop'.replay \subseteq loop.replay
    BY <1>7, <1>a DEF ReplayFails, Workers
  <2>2. VaultView' = VaultView BY <2>1 DEF VaultView
  <2>3. VaultMarked' /\ VaultTo(db.cursor, chain, db, since)'
    BY <1>a, <2>1, <2>2, QuietlyMarked
  <2>4. Noted' /\ VaultReplaying' /\ VaultTicking'
    BY <1>b, <2>1, <2>2 DEF Tracked, Noted, VaultReplaying, VaultTicking, FillStages
  <2> QED BY <2>3, <2>4 DEF Tracked
<1>8. CASE FetchEvents
  <2> DEFINE ids == ActiveContractIds(mem.view)
             batch == GetEvents(mem.last + 1, ids)
  <2>1. /\ UNCHANGED <<chain, db, since, mem>> /\ loop.at = "loaded" /\ loop'.at = "fetched"
        /\ loop'.to = loop.to /\ loop'.batch = batch
    BY <1>8, <1>a DEF FetchEvents, Workers
  <2>2. VaultView' = VaultView BY <2>1 DEF VaultView
  <2>3. VaultMarked' /\ VaultTo(db.cursor, chain, db, since)'
    BY <1>a, <2>1, <2>2, QuietlyMarked
  <2>4. ASSUME NEW l \in VaultEvents(chain, since, loop.to)
        PROVE  SettledIn(l, db) \/ VaultOwed(l, db) \/ (l \in batch /\ ~VaultView.paused)
    <3>1. /\ l \in 1..loop.to /\ chain[l].of = Vault /\ since # None /\ since < l
          /\ loop.to <= Len(chain)
      BY <2>1 DEF VaultEvents, Tracking, Inv, Ticking, TickStages, Tip
    <3>2. mem.last = db.cursor BY <1>b, <2>1 DEF InStep, Following
    <3>3. CASE l <= mem.last
      <4>1. l \in VaultEvents(chain, since, db.cursor)
        BY <1>a, <3>1, <3>2, <3>3 DEF VaultEvents
      <4> QED BY <1>b, <4>1 DEF Tracked, VaultTo
    <3>4. CASE l > mem.last /\ ~VaultView.paused
      <4>1. Vault \in ids BY <1>b, <3>1, <3>4 DEF Tracked, Noted, ActiveContractIds, VaultView
      <4> QED BY <1>a, <3>1, <3>4, <4>1 DEF GetEvents, Of, Tip
    <3>5. CASE l > mem.last /\ VaultView.paused
      <4>1. VaultControl.pausedAt \in 0..mem.last BY <1>b, <3>5 DEF Tracked, VaultMarked
      <4> QED BY <1>a, <3>1, <3>5, <4>1 DEF VaultOwed, VaultControl, None
    <3> QED BY <1>a, <3>1, <3>3, <3>4, <3>5
  <2>5. VaultTicking'
    BY <2>1, <2>2, <2>4 DEF VaultTicking, VaultEvents, SettledIn, VaultOwed
  <2>6. Noted' /\ VaultReplaying'
    BY <1>b, <2>1 DEF Tracked, Noted, VaultReplaying, FillStages
  <2> QED BY <2>3, <2>5, <2>6 DEF Tracked
<1>9. CASE FetchBatch("loop")
  <2>1. /\ UNCHANGED <<chain, db, since, mem>> /\ loop.at = "fill" /\ loop'.at = "filled"
        /\ loop'.to = loop.to
    BY <1>9, <1>a DEF FetchBatch, FillOf, SetFill, Workers
  <2>2. VaultView' = VaultView BY <2>1 DEF VaultView
  <2>3. VaultMarked' /\ VaultTo(db.cursor, chain, db, since)'
    BY <1>a, <2>1, <2>2, QuietlyMarked
  <2>4. Noted' /\ VaultReplaying' /\ VaultTicking'
    BY <1>b, <2>1 DEF Tracked, Noted, VaultReplaying, VaultTicking, FillStages
  <2> QED BY <2>3, <2>4 DEF Tracked
<1> QED BY <1>1, <1>2, <1>3, <1>4, <1>5, <1>6, <1>7, <1>8, <1>9

\* A vault is noticed by the transaction, or the replay, that creates it.
LEMMA FollowedFrom ==
  ASSUME Noted, NEW watched, mem.watched \subseteq watched, NEW from \in Nat,
         since' = Followed(watched, from)
  PROVE  /\ since' = since \/ (since = None /\ since' = from)
         /\ since' \in Nat \cup {None}
         /\ since' # None => Vault \in watched
BY DEF Noted, Followed

LEMMA VaultReplay ==
  ASSUME Tracking, NEW c \in Contracts, ReplayContract(c)
  PROVE  Tracked'
<1> DEFINE batch == {l \in GetEvents(mem.view[c].pausedAt + 1, {c}) : l <= mem.last}
<1>1. /\ Typed /\ VaultControl \in Controls /\ VaultView \in Controls
      /\ mem \in Memories /\ loop \in Workers /\ mem.view[c] \in Controls
      /\ mem.last \in Nat /\ db.cursor \in Nat /\ Len(chain) \in Nat
  BY VaultTypes DEF Tracking, Inv, Memories
<1>2. /\ chain' = chain /\ loop.at = "loaded" /\ c \in loop.replay
      /\ loop'.at = "replayed" /\ loop'.ids = {c} /\ loop'.replay = loop.replay
      /\ db' = ProcessEvents(batch, {"bad", "poison"})
      /\ mem'.watched = Watched(batch) /\ mem'.last = mem.last /\ mem'.view = mem.view
      /\ since' = Followed(Watched(batch), mem.last)
  BY <1>1 DEF ReplayContract, Workers, Memories
<1>3. mem.view[c].pausedAt + 1 \in Nat BY <1>1 DEF Controls, None
<1>4. batch \in SUBSET Nat BY <1>1, <1>3, Fetched
<1>5. mem.last = db.cursor /\ db.cursor <= Len(chain)
  BY <1>2 DEF Tracking, Inv, InStep, Following, NothingPassedOver, HandledTo
<1>6. mem.watched \subseteq Watched(batch) BY <1>1, WatchedType
<1>7. /\ since' = since \/ (since = None /\ since' = mem.last)
      /\ since' \in Nat \cup {None}
      /\ since' # None => Vault \in Watched(batch)
  BY <1>1, <1>2, <1>6, FollowedFrom DEF Tracking, Tracked
<1>8. /\ db'.cursor = db.cursor /\ db'.control = db.control
      /\ db.applied \subseteq db'.applied /\ db.dead \subseteq db'.dead
      /\ db.waived \subseteq db'.waived
      /\ \A l \in batch : ~mem.view[chain[l].of].paused => SettledIn(l, db')
  <2>1. db' = ProcessEvents(batch, {"bad", "poison"}) BY <1>2
  <2>a. Typed BY <1>1
  <2> HIDE DEF batch
  <2>2. db'.cursor = db.cursor /\ db'.control = db.control
    BY <1>4, <2>1, <2>a, Processed
  <2>3. /\ db.applied \subseteq db'.applied /\ db.dead \subseteq db'.dead
        /\ db.waived \subseteq db'.waived
    BY <1>4, <2>1, <2>a, Processed
  <2>4. \A l \in batch : ~mem.view[chain[l].of].paused => SettledIn(l, db')
    BY <1>4, <2>1, <2>a, Processed DEF SettledIn
  <2> QED BY <2>2, <2>3, <2>4
<1>9. VaultControl' = VaultControl /\ VaultView' = VaultView
  BY <1>2, <1>8 DEF VaultControl, VaultView
<1>10. VaultRemembers BY <1>2, <1>8, <1>9 DEF VaultRemembers
<1>11. VaultTo(mem.last, chain, db, since) BY <1>5 DEF Tracking, Tracked
<1>12. /\ VaultEvents(chain', since', mem.last) \subseteq VaultEvents(chain, since, mem.last)
       /\ \A l : SettledIn(l, db) => SettledIn(l, db')
       /\ VaultTo(mem.last, chain', db', since')
  BY <1>1, <1>5, <1>7, <1>10, <1>11, VaultStays
<1>13. VaultTo(db.cursor, chain, db, since)' BY <1>5, <1>8, <1>12
<1>14. ASSUME c = Vault, NEW l \in VaultEvents(chain', since', mem.last)
       PROVE  SettledIn(l, db')
  <2>1. l \in VaultEvents(chain, since, mem.last) BY <1>12
  <2>2. l \in 1..mem.last /\ chain[l].of = Vault BY <2>1 DEF VaultEvents
  <2>3. CASE SettledIn(l, db) BY <1>12, <2>3
  <2>4. CASE VaultOwed(l, db)
    <3>1. ~VaultView.paused /\ VaultView.pausedAt # None
          /\ VaultControl.pausedAt = VaultView.pausedAt
      BY <1>2, <1>14 DEF Tracking, Tracked, VaultReplaying, VaultMarked
    <3>2. mem.view[c].pausedAt + 1 <= l
      BY <1>1, <1>3, <1>14, <2>2, <2>4, <3>1 DEF VaultOwed, VaultControl, VaultView, Controls, None
    <3>3. l \in batch BY <1>1, <1>3, <1>5, <1>14, <2>2, <3>2 DEF GetEvents, Of, Tip
    <3>4. ~mem.view[chain[l].of].paused BY <2>2, <3>1 DEF VaultView
    <3> HIDE DEF batch
    <3> QED BY <1>8, <3>3, <3>4
  <2> QED BY <1>11, <2>1, <2>3, <2>4 DEF VaultTo
<1>15. VaultReplaying' BY <1>2, <1>9, <1>14 DEF Tracking, Tracked, VaultReplaying
<1>16. VaultMarked' BY <1>2, <1>8, <1>9 DEF Tracking, Tracked, VaultMarked
<1>17. Noted' /\ VaultTicking' BY <1>2, <1>7 DEF Noted, VaultTicking, FillStages
<1> QED BY <1>13, <1>15, <1>16, <1>17 DEF Tracked

LEMMA VaultClearMarker ==
  ASSUME Tracking, Own, ClearMarker
  PROVE  Tracked'
<1>1. PICK c \in loop.ids :
        /\ db' = [db EXCEPT !.control[c].pausedAt = IF db.control[c].paused THEN @ ELSE None]
        /\ mem' = [mem EXCEPT !.view[c].pausedAt = None]
        /\ loop' = [loop EXCEPT !.at = "loaded", !.replay = @ \ {c}]
        /\ loop.at = "replayed" /\ UNCHANGED <<chain, since>>
  BY DEF ClearMarker, Tracking, Own
<1>2. /\ Vault \in Contracts /\ VaultControl \in Controls /\ VaultView \in Controls
      /\ db \in Databases /\ mem \in Memories /\ loop \in Workers /\ c \in Contracts
      /\ mem.last \in Nat /\ db.cursor \in Nat /\ Len(chain) \in Nat
  BY VaultTypes DEF Tracking, Inv, Workers
<1>3. /\ db'.cursor = db.cursor /\ db'.applied = db.applied /\ db'.dead = db.dead
      /\ db'.waived = db.waived
      /\ mem'.last = mem.last /\ mem'.watched = mem.watched
      /\ loop'.at = "loaded" /\ loop'.replay = loop.replay \ {c}
  BY <1>1, <1>2 DEF Databases, Memories, Workers
<1>4. mem.last = db.cursor /\ db.cursor <= Len(chain)
  BY <1>1 DEF Tracking, Inv, InStep, Following, NothingPassedOver, HandledTo
<1>5. Noted' /\ VaultTicking'
  BY <1>1, <1>3 DEF Tracking, Tracked, Noted, VaultTicking, FillStages
<1>6. CASE c = Vault
  <2>1. ~VaultView.paused /\ VaultView.pausedAt # None
    BY <1>1, <1>6 DEF Tracking, Tracked, VaultReplaying
  <2>2. /\ VaultControl'.paused = VaultControl.paused
        /\ VaultControl'.pausedAt = IF VaultControl.paused THEN VaultControl.pausedAt ELSE None
        /\ VaultView'.paused = VaultView.paused /\ VaultView'.pausedAt = None
    BY <1>1, <1>2, <1>6 DEF Databases, Memories, Controls, VaultControl, VaultView
  <2>3. VaultMarked' /\ VaultReplaying'
    BY <1>1, <1>2, <1>3, <1>6, <2>1, <2>2
       DEF Tracking, Tracked, VaultMarked, VaultReplaying
  <2>4. ASSUME NEW l \in VaultEvents(chain, since, db.cursor) PROVE SettledIn(l, db')
    <3>1. SettledIn(l, db) BY <1>1, <1>4, <1>6 DEF Tracking, Tracked, VaultReplaying
    <3> QED BY <1>3, <3>1 DEF SettledIn
  <2>5. VaultTo(db.cursor, chain, db, since)' BY <1>1, <1>3, <2>4 DEF VaultTo, VaultEvents
  <2> QED BY <1>5, <2>3, <2>5 DEF Tracked
<1>7. CASE c # Vault
  <2>1. VaultControl' = VaultControl /\ VaultView' = VaultView
    BY <1>1, <1>2, <1>7 DEF Databases, Memories, VaultControl, VaultView
  <2>2. VaultRemembers BY <1>1, <1>3, <2>1 DEF VaultRemembers
  <2>3. VaultMarked' /\ VaultReplaying'
    BY <1>1, <1>3, <2>1 DEF Tracking, Tracked, VaultMarked, VaultReplaying
  <2>4. VaultTo(db.cursor, chain, db, since)'
    BY <1>1, <1>2, <1>3, <1>4, <2>2, VaultStays DEF Tracking, Tracked
  <2> QED BY <1>5, <2>3, <2>4 DEF Tracked
<1> QED BY <1>6, <1>7

\* A transaction settles what was fetched of the vault.
LEMMA VaultCommitTick ==
  ASSUME Tracking, CommitTick
  PROVE  Tracked'
<1>1. /\ Typed /\ VaultControl \in Controls /\ mem \in Memories /\ loop \in Workers
      /\ mem.last \in Nat /\ db.cursor \in Nat /\ loop.to \in Nat /\ Len(chain) \in Nat
      /\ loop.batch \in SUBSET Nat
  BY VaultTypes DEF Tracking, Inv, Workers
<1>2. /\ chain' = chain /\ loop.at = "fetched" /\ loop'.at = "committed"
      /\ db' = [ProcessEvents(loop.batch, {"bad"}) EXCEPT !.cursor = loop.to]
      /\ mem'.watched = Watched(loop.batch) /\ mem'.last = mem.last /\ mem'.view = mem.view
      /\ since' = Followed(Watched(loop.batch), loop.to)
  BY <1>1 DEF CommitTick, Workers, Memories
<1>3. /\ Remembers(chain, db, chain', db')
      /\ db'.cursor = loop.to /\ db'.control = db.control
      /\ \A l \in loop.batch : ~mem.view[chain[l].of].paused => SettledIn(l, db')
  BY <1>1, <1>2, RemembersProcessed
<1>4. VaultControl' = VaultControl /\ VaultView' = VaultView
  BY <1>2, <1>3 DEF VaultControl, VaultView
<1>5. VaultRemembers BY <1>2, <1>3, <1>4 DEF VaultRemembers, Remembers
<1>6. mem.watched \subseteq Watched(loop.batch) BY <1>1, WatchedType
<1>7. /\ since' = since \/ (since = None /\ since' = loop.to)
      /\ since' \in Nat \cup {None}
      /\ since' # None => Vault \in Watched(loop.batch)
  BY <1>1, <1>2, <1>6, FollowedFrom DEF Tracking, Tracked
<1>8. loop.to <= Len(chain) /\ mem.last = db.cursor /\ mem.last <= loop.to
  BY <1>2 DEF Tracking, Inv, Ticking, InStep, Following, TickStages, Tip
<1>9. ASSUME NEW l \in VaultEvents(chain', since', loop.to)
      PROVE  SettledIn(l, db') \/ VaultOwed(l, db')
  <2>1. /\ l \in VaultEvents(chain, since, loop.to)
        /\ SettledIn(l, db) => SettledIn(l, db')
        /\ VaultOwed(l, db) => VaultOwed(l, db')
    BY <1>1, <1>5, <1>7, <1>8, VaultStays
  <2>2. chain[l].of = Vault BY <2>1 DEF VaultEvents
  <2> QED BY <1>2, <1>3, <2>1, <2>2 DEF Tracking, Tracked, VaultTicking, VaultView
<1>10. VaultTo(db.cursor, chain, db, since)' BY <1>3, <1>9 DEF VaultTo
<1>11. VaultMarked'
  BY <1>1, <1>2, <1>3, <1>4, <1>8 DEF Tracking, Tracked, VaultMarked, Controls, None
<1>12. Noted' /\ VaultReplaying' /\ VaultTicking'
  BY <1>2, <1>7 DEF Noted, VaultReplaying, VaultTicking, FillStages
<1> QED BY <1>10, <1>11, <1>12 DEF Tracked

\* The vault is followed from the end of the range of a backfill at startup.
LEMMA VaultCommitBatch ==
  ASSUME Tracking, CommitBatch("loop")
  PROVE  Tracked'
<1> DEFINE to == BatchTo(loop)
<1>1. /\ Typed /\ VaultControl \in Controls /\ mem \in Memories /\ loop \in Workers
      /\ mem.last \in Nat /\ db.cursor \in Nat /\ loop.to \in Nat /\ Len(chain) \in Nat
      /\ loop.batch \in SUBSET Nat /\ loop.from \in Nat
  BY VaultTypes DEF Tracking, Inv, Workers
<1>2. to \in Nat /\ to <= loop.to /\ (loop.from <= loop.to => loop.from <= to)
  BY <1>1, BatchAssumption DEF BatchTo
<1>3. /\ chain' = chain /\ loop.at = "filled"
      /\ db' = [ProcessEvents(loop.batch, {"bad"}) EXCEPT !.cursor = to]
      /\ mem' = [mem EXCEPT !.watched = Watched(loop.batch), !.last = to]
      /\ loop' = IF to = loop.to THEN Worker("idle") ELSE [loop EXCEPT !.at = "fill", !.from = to]
      /\ since' = Followed(Watched(loop.batch), loop.to)
  BY DEF CommitBatch, FillOf, SetFill, FillDone
<1> HIDE DEF to
<1>4. /\ Remembers(chain, db, chain', db')
      /\ db'.cursor = to /\ db'.control = db.control
  BY <1>1, <1>2, <1>3, RemembersProcessed
<1>5. mem'.last = to /\ mem'.watched = Watched(loop.batch) /\ mem'.view = mem.view
  BY <1>1, <1>3 DEF Memories
<1>6. VaultControl' = VaultControl /\ VaultView' = VaultView
  BY <1>4, <1>5 DEF VaultControl, VaultView
<1>7. loop'.at = "idle" \/ (loop'.at = "fill" /\ loop'.to = loop.to)
  BY <1>1, <1>3 DEF Worker, Workers
<1>8. mem.watched \subseteq Watched(loop.batch) BY <1>1, WatchedType
<1>9. /\ since' = since \/ (since = None /\ since' = loop.to)
      /\ since' \in Nat \cup {None}
      /\ since' # None => Vault \in Watched(loop.batch)
  BY <1>1, <1>3, <1>8, FollowedFrom DEF Tracking, Tracked
<1>10. since' # None => loop.to <= since'
  BY <1>1, <1>3, <1>9 DEF Tracking, Tracked, Noted, FillStages
<1>11. Noted' /\ VaultReplaying' /\ VaultTicking'
  BY <1>5, <1>7, <1>9, <1>10 DEF Noted, VaultReplaying, VaultTicking, FillStages
<1>12. VaultTo(db.cursor, chain, db, since)'
  BY <1>1, <1>2, <1>4, <1>9, <1>10 DEF VaultTo, VaultEvents, None
<1>13. mem.last = db.cursor /\ loop.from = mem.last /\ loop.from <= loop.to
  BY <1>3 DEF Tracking, Inv, InStep, Following, FillStages
<1>14. VaultMarked'
  BY <1>1, <1>2, <1>4, <1>5, <1>6, <1>13 DEF Tracking, Tracked, VaultMarked, Controls, None
<1> QED BY <1>11, <1>12, <1>14 DEF Tracked

LEMMA StepTracked ==
  ASSUME mix.jobs = {}, Inv, Inv', Own, Tracked, [Next]_vars
  PROVE  Tracked'
<1>1. Tracking /\ job.at = "none" BY DEF Tracking, Inv, Alone
<1>2. CASE LoopStep
  <2>1. CASE Start \/ EnterLoop \/ LeaveLoop \/ Poll \/ LoadContractControls \/ FetchEvents
             \/ Rollback \/ FinishTick \/ FetchBatch("loop")
    BY <1>1, <2>1, VaultLoop
  <2>2. CASE \E c \in Contracts : ReplayContract(c) BY <1>1, <2>2, VaultReplay
  <2>3. CASE ClearMarker BY <1>1, <2>3, VaultClearMarker
  <2>4. CASE CommitTick BY <1>1, <2>4, VaultCommitTick
  <2>5. CASE CommitBatch("loop") BY <1>1, <2>5, VaultCommitBatch
  <2> QED BY <1>2, <2>1, <2>2, <2>3, <2>4, <2>5 DEF LoopStep
<1>3. CASE JobStep
  BY <1>1, <1>3 DEF JobStep, RunJob, FetchBatch, CommitBatch, FillOf
<1>4. CASE Failures
  <2>1. CASE BatchFails("job") BY <1>1, <2>1 DEF BatchFails, FillOf, FillStages
  <2>2. CASE Crash BY <1>1, <2>2, VaultCrash
  <2>3. CASE StartFails \/ ReplayFails \/ FetchFails \/ RetriesFail \/ BatchFails("loop")
    BY <1>1, <2>3, VaultLoop
  <2> QED BY <1>4, <2>1, <2>2, <2>3 DEF Failures
<1>5. CASE Admin
  <2>1. CASE \E c \in Contracts : PauseContract(c) \/ ResumeContract(c)
                \/ \E only \in {{}, {"vault_created"}} : SetEventFilter(c, only)
    BY <1>1, <2>1, VaultSettings
  <2>2. CASE \E from, to \in 0..(mix.ledgers + 1) : QueueBackfill(from, to)
    BY <2>2 DEF QueueBackfill
  <2>3. CASE Stop BY <1>1, <2>3, VaultEnvironment
  <2> QED BY <1>5, <2>1, <2>2, <2>3 DEF Admin
<1>6. CASE Grow \/ Drain \/ ClosePool \/ UNCHANGED vars BY <1>1, <1>6, VaultEnvironment
<1> QED BY <1>2, <1>3, <1>4, <1>5, <1>6 DEF Next

LEMMA VaultInvariant == Spec => [](mix.jobs = {} => Inv /\ Tracked)
<1> DEFINE All == mix.jobs = {} => Inv /\ Own /\ Tracked
<1>1. Init => (mix.jobs = {} => Tracked)
  <2> SUFFICES ASSUME Init PROVE Tracked OBVIOUS
  <2>1. VaultControl = NoControl /\ VaultView = NoControl /\ since = None /\ loop.at = "new"
    BY DEF Init, Tables, NewProcess, VaultControl, VaultView, Contracts, Worker
  <2> QED BY <2>1 DEF Tracked, Noted, VaultMarked, VaultReplaying, VaultTicking, VaultTo, VaultEvents,
                      NoControl, FillStages
<1>2. (Typed /\ (ToldApart => Inv /\ Own)) /\ (ToldApart => Inv /\ Own)' /\ (mix.jobs = {} => Tracked)
        /\ [Next]_vars => (mix.jobs = {} => Tracked)'
  BY StepTracked, MixStays DEF ToldApart
<1>3. (ToldApart => Inv /\ Own) /\ (mix.jobs = {} => Tracked) => (mix.jobs = {} => Inv /\ Tracked)
  BY DEF ToldApart
<1> QED BY <1>1, <1>2, <1>3, Invariant, PTL DEF Spec

\* No event of a vault is passed over from the ledger on at which the process
\* follows it, where no job sets the loop back: whatever the chain, batches and
\* bounds, across rollbacks, crashes, backfills at startup, replays and pauses.
THEOREM VaultNeverPassedOver == Spec => []VaultFollowed
<1>1. (mix.jobs = {} => Inv /\ Tracked) => VaultFollowed
  <2> SUFFICES ASSUME mix.jobs = {}, Tracked, Typed,
                      NEW l \in Missed, Of(l) = Vault, since # None, ~(l <= since)
               PROVE  FALSE
    BY DEF VaultFollowed, Inv
  <2>1. since \in Nat /\ l \in Nat /\ since < l
    BY VaultTypes DEF Tracked, Noted, Missed
  <2>2. l \in VaultEvents(chain, since, db.cursor) BY <2>1 DEF VaultEvents, Missed, Of
  <2>3. SettledIn(l, db) \/ VaultOwed(l, db) BY <2>2 DEF Tracked, VaultTo
  <2> QED BY <2>3 DEF Missed, Settled, Owed, SettledIn, VaultOwed
<1> QED BY <1>1, VaultInvariant, PTL

\* The marker of a pause goes only when its contract owes nothing any more: a
\* resume or a second pause at any moment of a replay loses no ledger, of the
\* factory or of a vault that is followed.
THEOREM PausesArePaidBack == ASSUME Orderly PROVE Spec => PausesPaidBack
<1> DEFINE Paid(c) ==
      /\ db.control[c].pausedAt # None /\ db'.control[c].pausedAt = None
      /\ c = Factory \/ (mix.jobs = {} /\ since # None /\ since <= db.control[c].pausedAt)
      => \A l \in (db.control[c].pausedAt + 1)..mem.last :
           Of(l) = c => l \in db'.applied \cup db'.dead \cup db'.waived
<1>1. Inv /\ (mix.jobs = {} => Inv /\ Tracked) /\ [Next]_vars => [\A c \in Contracts : Paid(c)]_vars
  <2> SUFFICES ASSUME Inv, mix.jobs = {} => Tracked, [Next]_vars, NEW c \in Contracts,
                      db.control[c].pausedAt # None, db'.control[c].pausedAt = None,
                      \/ c = Factory
                      \/ mix.jobs = {} /\ since # None /\ since <= db.control[c].pausedAt,
                      NEW l \in (db.control[c].pausedAt + 1)..mem.last, Of(l) = c
               PROVE  SettledIn(l, db')
    BY DEF SettledIn
  <2>1. c \in loop.ids /\ loop.at = "replayed" BY OnlyClearMarker
  <2>2. db.control[c].pausedAt \in Nat /\ mem.last \in Nat
    BY DEF Inv, Typed, Databases, Controls, Memories
  <2>3. CASE c = Factory
    <3>1. l \in FactoryEvents(chain, mem.last) BY <2>2, <2>3 DEF FactoryEvents, Of
    <3>2. SettledIn(l, db) BY <2>1, <2>3, <3>1 DEF Inv, Replaying
    <3> QED BY <3>2, Recorded DEF SettledIn
  <2>4. CASE c # Factory
    <3>1. c = Vault /\ Tracked BY <2>4 DEF Contracts
    <3>2. l \in VaultEvents(chain, since, mem.last)
      BY <2>2, <2>4, <3>1 DEF VaultEvents, Of, Tracked, Noted
    <3>3. SettledIn(l, db) BY <2>1, <3>1, <3>2 DEF Tracked, VaultReplaying
    <3> QED BY <3>3, Recorded DEF SettledIn
  <2> QED BY <2>3, <2>4
<1> QED BY <1>1, OrderlyInvariant, VaultInvariant, PTL DEF Spec, PausesPaidBack

\* shutdown() has stopped the loop by the time it waits for it.
Stopped == closing # "open" => ~mem.running

\* A drained indexer stays quiet: no tick is in flight and none begins.
THEOREM DrainedStaysQuiet == Spec => []DrainedMeansQuiet
<1>1. Init => Stopped /\ DrainedMeansQuiet BY DEF Init, Stopped, DrainedMeansQuiet
<1>2. Typed /\ Stopped /\ DrainedMeansQuiet /\ [Next]_vars => Stopped' /\ DrainedMeansQuiet'
  <2> SUFFICES ASSUME Typed, Stopped, DrainedMeansQuiet, [Next]_vars
               PROVE  Stopped' /\ DrainedMeansQuiet'
    OBVIOUS
  <2>1. mem \in Memories /\ loop \in Workers BY DEF Typed
  <2>2. CASE Start \/ Crash
    BY <2>2 DEF Start, Crash, NewProcess, Worker, Stopped, DrainedMeansQuiet, TickStages
  <2>3. ASSUME closing' = closing, mem'.running = mem.running \/ ~mem'.running,
               loop'.at \in TickStages => loop.at \in TickStages \/ mem.running
        PROVE  Stopped' /\ DrainedMeansQuiet'
    BY <2>3 DEF Stopped, DrainedMeansQuiet
  <2>4. CASE LoopStep
    <3>1. CASE EnterLoop
      <4> DEFINE w == BeginFill(loop, mem.last, Tip)
      <4>1. /\ closing' = closing /\ mem'.running = mem.running
            /\ loop' = Worker("idle") \/ loop' = w
        BY <2>1, <3>1 DEF EnterLoop, Memories
      <4>2. w.at = FirstStage
        <5>1. mem.last \in Nat /\ Tip \in Nat BY <2>1 DEF Memories, Typed, Tip
        <5> QED BY <2>1, <5>1, BeginFillType
      <4> HIDE DEF w
      <4>3. loop'.at \in {"idle", "skipped", "fill"} BY <4>1, <4>2 DEF Worker, FirstStage
      <4> QED BY <2>3, <4>1, <4>3 DEF TickStages
    <3>2. CASE LeaveLoop \/ Poll \/ FetchEvents
      BY <2>1, <2>3, <3>2 DEF LeaveLoop, Poll, FetchEvents, Worker, TickStages, Workers
    <3>3. CASE LoadContractControls
      <4>1. mem'.running = mem.running /\ closing' = closing /\ loop.at \in TickStages
        BY <2>1, <3>3 DEF LoadContractControls, Memories, TickStages
      <4> QED BY <2>3, <4>1
    <3>4. CASE CommitTick \/ Rollback
      BY <2>1, <2>3, <3>4 DEF CommitTick, Rollback, Noticed, Worker, TickStages, Memories, Workers
    <3>5. CASE FinishTick
      BY <2>1, <2>3, <3>5 DEF FinishTick, Fall, Worker, TickStages, Memories, Workers
    <3>6. ASSUME ClearMarker \/ \E c \in Contracts : ReplayContract(c)
          PROVE  Stopped' /\ DrainedMeansQuiet'
      <4>1. mem'.running = mem.running /\ closing' = closing /\ loop.at \in TickStages
        BY <2>1, <3>6 DEF ClearMarker, ReplayContract, TickStages, Memories
      <4> QED BY <2>3, <4>1
    <3>7. CASE FetchBatch("loop")
      BY <2>1, <2>3, <3>7 DEF FetchBatch, FillOf, SetFill, TickStages, Workers
    <3>8. CASE CommitBatch("loop")
      <4>1. /\ mem' = [mem EXCEPT !.watched = Watched(loop.batch), !.last = BatchTo(loop)]
            /\ closing' = closing
            /\ loop' = Worker("idle") \/ loop' = [loop EXCEPT !.at = "fill", !.from = BatchTo(loop)]
        BY <3>8 DEF CommitBatch, FillOf, SetFill, FillDone
      <4>2. loop'.at \notin TickStages
        <5>1. CASE loop' = Worker("idle") BY <5>1 DEF Worker, TickStages
        <5>2. CASE loop' = [loop EXCEPT !.at = "fill", !.from = BatchTo(loop)]
          <6>1. loop'.at = "fill" BY <2>1, <5>2 DEF Workers
          <6> QED BY <6>1 DEF TickStages
        <5> QED BY <4>1, <5>1, <5>2
      <4>3. mem'.running = mem.running BY <2>1, <4>1 DEF Memories
      <4> QED BY <2>3, <4>1, <4>2, <4>3
    <3> QED BY <2>2, <2>4, <3>1, <3>2, <3>3, <3>4, <3>5, <3>6, <3>7, <3>8 DEF LoopStep
  <2>5. CASE JobStep
    BY <2>1, <2>3, <2>5
       DEF JobStep, RunJob, FetchBatch, CommitBatch, FillOf, SetFill, Memories
  <2>6. CASE Failures
    <3>1. CASE StartFails \/ ReplayFails \/ FetchFails \/ RetriesFail
      BY <2>1, <2>3, <3>1 DEF StartFails, ReplayFails, FetchFails, RetriesFail, Fall, Worker,
                              TickStages, Memories, Workers
    <3>2. CASE BatchFails("loop") \/ BatchFails("job")
      BY <2>1, <2>3, <3>2 DEF BatchFails, FillOf, SetFill, FillDone, Noticed, Fall, Worker, TickStages,
                              Memories, Workers
    <3> QED BY <2>2, <2>6, <3>1, <3>2 DEF Failures
  <2>7. CASE Admin
    <3>1. CASE Stop BY <2>1, <3>1 DEF Stop, Stopped, DrainedMeansQuiet, Memories
    <3>2. CASE \E from, to \in 0..(mix.ledgers + 1) : QueueBackfill(from, to)
      BY <2>3, <3>2 DEF QueueBackfill
    <3>3. ASSUME NEW c, NEW only, PauseContract(c) \/ ResumeContract(c) \/ SetEventFilter(c, only)
          PROVE  Stopped' /\ DrainedMeansQuiet'
      BY <2>3, <3>3 DEF PauseContract, ResumeContract, SetEventFilter, Configure
    <3> QED BY <2>7, <3>1, <3>2, <3>3 DEF Admin
  <2>8. CASE Grow \/ Drain \/ ClosePool \/ UNCHANGED vars
    BY <2>8 DEF Grow, Drain, ClosePool, vars, Stopped, DrainedMeansQuiet
  <2> QED BY <2>4, <2>5, <2>6, <2>7, <2>8 DEF Next
<1> QED BY <1>1, <1>2, InitTyped, StepTyped, PTL DEF Spec
=============================================================================
