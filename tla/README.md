# TLA+ verification of StellarYield

StellarYield sells shares of real-world assets: a Soroban contract, the vault,
takes a stablecoin and issues shares, pays yield by epochs and returns the
assets at maturity; a factory contract deploys vaults; a Node backend indexes
the events of the chain and serves them; an SDK and a web page sit on top.
This directory holds the model of that system, the TLC runs that check it on
small instances and the TLAPS proofs of the results that hold for every one.

## Inventory

| Component | Source | State | Operations | What makes it correct |
|---|---|---|---|---|
| Vault, shares and price | `single_rwa_vault/src/lib.rs`, `math.rs` | supply, balances, escrow, total deposited | deposit, mint, withdraw, redeem | shares are conserved, whatever the sign of an amount; every rounding favours the vault; the price never falls while amounts are positive |
| Vault, yield | `lib.rs`, `storage.rs` | epochs, snapshots, claim flags, cursor, amounts taken, shortfalls | distribute, claim, claim one epoch, resolve a shortfall | an epoch is paid on the shares held at its distribution, once, in full, and no more |
| Vault, redemption | `lib.rs` | request queue, escrow, locked values | request, process, cancel, reject, redeem at maturity | escrow is the queue; the locked value is never above the price |
| Vault, lifecycle | `lib.rs` | Funding, Active, Matured, Closed, Cancelled, Emergency; limits and terms | activate, cancel, mature, close, refund, setters | refunds are covered; Closed is final |
| Vault, emergency | `lib.rs` | pause, freeze flags, frozen balance and supply, who claimed | pause, unpause, freeze, drain, enable pro-rata, claim; multi-signature proposals | claims stay within the frozen balance in any order; approvals are of current signers |
| Vault, token and compliance | `lib.rs` | allowances, blacklist, KYC, exemptions | approve, transfer, burn, setters | transfers conserve shares and take snapshots first |
| Vault, roles and timelock | `lib.rs` | admin, pending admin, roles, actions | grant, revoke, transfer, propose, execute, cancel | nothing is executed early or after a cancel |
| Vault factory | `vault_factory/src/` | registry, active flags, roles, defaults | create (one or a batch), set status, admin transfer | registry and indexes agree |
| Indexer, engine | `backend/src/services/indexer.ts` | cursor in the database and in memory, watched contracts, switches per contract, dead letters | tick, backfill at startup and as a job, replay, pause, resume, filter, drain | the cursor never passes an event that was not dealt with; pauses are paid back |
| Indexer, handlers | `indexer.ts`, `db/migrations` | vaults, positions, epochs, snapshots, requests, log, histories | one parser and one handler per event type, about sixty | the tables follow the contract, also when events come twice |
| Read services, controllers | `vault.ts`, `yield.ts`, `user.ts`, `api/controllers/` | cached reports | lists, details, statistics, exports, switches of an administrator | endpoints that answer the same question agree; pages are complete |
| Notifications | `notifications.ts`, `webhookWorker.ts`, `webhookThrottle.ts` | endpoints, deliveries, jobs, throttle counters | notify, escalate, deliver, retry, replay, rotate, switch | no delivery vanishes; an open circuit holds; no job goes round for ever |
| Gateway | `api/middleware/`, `cache/redis.ts` | keys, sessions, counters, idempotency rows, cached answers | the chain of middleware around a handler | every request is answered, with an answer of its own and of its time; a good key is not refused |
| Job queue, shutdown | `jobQueue.ts`, `shutdown.ts` | queues, workers | add, process, retry, close | what runs is waited for before the pool closes |
| RPC limiter, SSE, GraphQL, workers, SDK, frontend, scripts | the rest | | | left out or in part, see below |

The contract calls two others: the asset token, whose balances move with every
deposit, payment and refund, and the zkMe verifier, asked for KYC approval. The
factory deploys vaults and sets their status. The backend learns everything
from events and keeps copies; it sends no state back to the contracts.

What is hard: the vault is sequential inside a call, yet any account may call
any operation next, so the hazard is the long sequence of legal calls in an
order no test has. Snapshots are lazy, three operations pay the same yield,
values are fixed at one moment and paid at another, and emergencies cut across
everything. The backend adds real concurrency: a polling loop and a backfill in
one process, administrators who write the rows both read, a worker and a
retrier on the same endpoint, requests that overlap on one key, timers that
answer before the handler does, and redelivery, crashes and shutdown between
any two awaits. `PROJECT.json` lists each hazard at its line, with the
properties that cover it or the reason why none does.

## Modules

| Module | Models | Content |
|---|---|---|
| `ShareMath` | `math.rs`, conversions of `lib.rs` | pure arithmetic over supply and total assets |
| `VaultBase` | `storage.rs`, helpers of `lib.rs` | constants and assumptions, variables, guards, snapshots, allowances, `_burn` |
| `VaultInvest` | deposit, mint, withdraw, redeem | `Invest` and `Exit`, the parts the pairs share |
| `VaultYield` | epochs and claims | `PendingYieldForEpoch`, `PayYield` and the four operations |
| `VaultRedemption` | early redemption, redemption at maturity | extends the two above, since redeeming at maturity also claims |
| `VaultLifecycle` | states, refunds, settings | |
| `VaultEmergency` | pause, freeze, drain, pro-rata claims | |
| `VaultToken` | SEP-41 operations, compliance lists | |
| `SingleRwaVault` | the contract | `Init` (the constructor), `Next`, `Spec` and all the properties |
| `YieldLedger` | | the abstract ledger of yield: owed from the distribution on, paid in parts |
| `MCVault` | instances | scenes: the operations of a question and their bounds |
| `Totals` | | sums over finite sets, of the vault and of the tables |
| `TotalProofs` | proofs | sums: split, changed, bounded by another |
| `SingleRwaVaultProofs` | proofs | type correctness; conservation, escrow |
| `VaultPriceProofs` | proofs | backing, locked values, the price, Closed; cash, emergency claims, refunds |
| `VaultYieldProofs` | proofs | snapshots, claim flags, entitlements, credits; the refinement of the ledger |
| `ContractEvents` | `indexer.ts` parsers, `indexerEventTypes.ts` | what is read in a raw event of each shape |
| `IndexedTables` | `indexer.ts` handlers, the schema | the tables as one record and a handler per event |
| `VaultReads`, `YieldReads` | `vault.ts`, `yield.ts`, `user.ts` | a query per operator |
| `VaultEndpoints`, `AccountEndpoints`, `PlatformEndpoints` | `api/controllers/` | a handler per operator: guards, status, body |
| `VaultProjection` | chain, delivery and tables composed | emitting actions, `Deliver`, `Rewind`, `Resync`, properties |
| `EndpointAgreement`, `MCProjection` | | what the endpoints must say alike; the mixes of events |
| `ProjectionProofs` | proofs | state and staff, the queue, snapshots, epochs closed and reports, all under redelivery |
| `AtLeastOnceLog` | | the abstract consumer: no ledger is passed over |
| `Indexer`, `MCIndexer` | the engine of `indexer.ts`, its backfill job, `shutdown.ts` | one action per stretch between two awaits; refines `AtLeastOnceLog` |
| `IndexerProofs` | proofs | completeness for the factory and for a vault, pauses, the refinement, drain |
| `Webhooks`, `MCWebhooks` | `notifications.ts`, `webhookWorker.ts`, throttle, signatures | notifier, worker, retrier and administrator |
| `WebhooksProofs` | proofs | jobs that are never lost, circuits, rotations |
| `ReadCaches`, `Gateway`, `MCGateway` | `api/middleware/`, `cache/redis.ts`, two services | up to four requests through the chain |
| `GatewayProofs` | proofs | answers of one's own, their age, refusals |

### The vault

A Soroban call is a transaction that ends or leaves no trace, and the
reentrancy lock lives inside it: an action is one whole successful call, and a
panic is a false guard. Storage entries are variables of the same name.
`depositTimestamp`, `lastClaimed`, `hasClaimed`, `epochYieldClaimed` and the
others are functions of the user. Operators placed before the one they mirror
and marked "Mutant" are plausible bugs, used to show that each property reacts.

Abstractions, all of them deliberate:

* amounts are integers of either sign and stay below the range of `i128`;
* one clock serves as timestamp and as ledger sequence, which allowances use;
* the caller of a restricted operation holds the role, the other case panics;
* the asset token transfers what it is asked to, without fees, refuses a negative
  amount, and nobody sends assets to the vault outside its operations;
* the vault is on the current storage schema and no entry is archived;
* the signers of emergencies are not configured, so `emergency_withdraw` works;
* counters nothing reads are dropped (deposit and redemption statistics,
  `request_time`, `totalYieldDistributed`, the activation time), as are
  descriptive RWA fields, URIs and events.

`holdersAt`, `credited`, `outflow` and `emergencyPaid` are history variables:
balances at each distribution, yield credited by user and epoch, assets paid
outside the vault's accounts, and claims since the last enabling.
`negativeCalls` says whether a call has moved, burned or minted a negative
number of shares. No guard reads them.

Negative amounts. Deposits, withdrawals and redemptions fail on them in one way
or another; a mint does unless its cost rounds to nothing; and `transfer`,
`transfer_from`, `burn` and `burn_from` take an `i128` whose sign nothing looks at
(`assert_nonnegative` of `math.rs` has no caller). `ShareAmounts` is therefore any set of integers, balances and supply
are integers, and the arithmetic is that of `i128`, which rounds towards zero
and divides by anything but zero. A run refutes what the comment of
`close_vault` says (`doc_closed`); two statements of the tests fail at the first
such call (`BalancesWithinSupply`, `AssetsCoverSupply`). The other properties fall into two groups. Sums and traces hold whatever the sign:
`ShareConservation`, `EscrowMatchesQueue`, `SnapshotIntegrity`, `ClaimedIsFinal`,
`CashReconciles`, `UnvestedClaimsComplete`, and that a closed vault's accounts
stay. What needs shares that were paid for holds until the first such call
(`~negativeCalls`): `SharesBacked`, `SharePriceNeverFalls`,
`LockedValueWithinPrice`, `YieldNotOverAllocated`, `RefundsCovered`,
`EmergencyClaimsProRata`, `LedgerSpec`, and that a closed vault's shares and
state stay.

### The backend

Code between two awaits runs alone, so an action of `Indexer`, `Webhooks` or
`Gateway` is the stretch up to the next await, and a value read before it is
kept in the worker's record until it is used after it. A transaction is one
action; a statement without one stands alone. A failure is an action or a
disjunct that the mix of the behaviour allows, and `MaxFaults` bounds.

The tables are a record of functions by primary key; `Upsert` replaces a row or
adds it, `Joined` is `ON CONFLICT DO NOTHING`. Rows of tables that are only appended are in `rows`. A text that does not parse is `Malformed`, a
number that does not is negative. One ledger stands for one day, so the clock
of the database is the newest ledger it has seen. Ratios are integers in parts
of `Scale`. `Undeclared` holds the identifiers that some code refers to and
declares nowhere: the decoders of deposits, withdrawals and distributions. The
repository as it stands is `Undeclared = {"decoders"}`: no deposit, withdrawal or
distribution reaches the tables, and `HoldersFollowChain` and
`SnapshotsMatchEpochs` fail with the first of them. `projection` and `doc_claims`
set it to `{}` and ask what the handlers and endpoints do once the decoders are
declared: what they check compares answers with one another, or rests on parsers
that work today. The theorems about the projection hold for both values.
`declared` in a mix of the indexer is the same switch for
`batchDurationMs`; both values are among the mixes of `indexer`.

`GetEvents` is taken to answer whole, whatever the range and the number of
filters. The code (`indexer.ts:489`, `572`, `724`) follows no cursor of an answer
and sends no end of a range, and saves the latest ledger as its cursor; a node
that limits an answer to a page would make it pass over the rest, which no
property here speaks of. `processRetries` is called at `indexer.ts:530` alone,
behind the statement that throws; the steps of the retrier are modelled as what
it does whenever it is called, and nothing relies on its being called.
`controllers/admin.ts` imports `readFileSync` and `resolve` twice each (lines 2-7)
and does not load as written; its handlers are modelled as they read.

`VaultProjection` lets the contract move only when the indexer has caught up: no
handler reads the chain, so nothing is lost. Its chain is a small account of
what the contract holds, not `SingleRwaVault` itself, whose states would swamp
the instance. Decoding of XDR and the databases behind the code are external:
definitions mapped without a source are modelled from how the code uses them.

## Runs

Every run stops where its bounds end or where nothing is left to do, so
deadlock is not checked. Bounds live in mixes or scenes: a record that says
which operations, faults and amounts may meet in one behaviour. The initial
state chooses one, so a run asks several small questions instead of one that
would be too large.

| Run | Bounds | Shows |
|---|---|---|
| `accounts` | scenes: yield (8 calls), vesting (11), emergency (8), every operation (4), signed (7, shares of either sign); two users, two epochs | snapshots are right, every epoch is credited in full, once and no more, cash reconciles through shortfalls and emergencies; `YieldLedger` is implemented |
| `shares` | scenes: price (7 calls, two requests, fees, amounts that round), funding (7 calls, limits, refunds, emergencies), signed (7 calls) | conservation, escrow is the queue, backing, locked values, a price that never falls, refunds, Closed is final |
| `projection` | eight mixes of 4 to 7 events, one redelivery from any earlier event, two users; one mix beside two other vaults | settings and queue follow the contract, epochs close no earlier than they are claimed; the log, the reports, the pages and some 150 endpoints agree with each other |
| `indexer` | ten mixes, 3 or 4 ledgers, batches of 2, one failure, one crash, up to three settings, one backfill job, a pause beside a job | nothing of the factory is passed over, pauses are paid back, every start catches up, a resumed contract is caught up, drained means quiet, `AtLeastOnceLog` is implemented |
| `webhooks` | ten mixes, up to three events, two endpoints, circuit at 2 failures, 3 attempts, 1 job retry | what was queued stays accounted for, an open circuit holds, only a further rotation pushes a retired secret out, no job goes round for ever |
| `gateway` | thirteen mixes, up to four requests, one key, plain or salted, caches of 1 or 2 units of time | answers are of one's own and of their time, plain keys are refused for a reason, all requests are answered |

Why they are enough. Two users let a holder gain at another's expense, and
suffice for a transfer, a third-party caller and a transfer to oneself; they
are interchangeable, hence the symmetry. The longest story of the vault is two
deposits, an activation, two distributions with a movement between them and
three claims; vesting and emergencies need more calls and fewer kinds of them.
Seven events hold a deposit, an activation, two distributions and three claims.
Four ledgers with batches of two hold a startup backfill of two batches and a
tick behind it. Two concurrent requests show every race of the idempotency
rows; the third and fourth come to reach limits. `VirtualOffset` is 1 and
`VestingPrecision` 100, which makes rounding more frequent than the 10^6 and
10^9 of the code. Every property is broken by a plausible bug, an operator
marked "Mutant" before the one it replaces, within the bounds of its run.

### Fairness

* `Indexer`: weak fairness of a step of the loop and of a step of the job. Both
  are promise chains of one process that no step of another disables; nothing
  is assumed of the chain, of failures, of administrators or of a restart. So
  `StartsCatchUp` promises what a start of the process does, also when its loop
  ends at the first tick that advances, as it does today: the backfill or that
  tick brings the saved cursor to where the chain was. It holds where no failure
  is left to come (`Quiet`) and no event is refused by the database
  (`Digestible`), which every later tick would meet again. `ResumedCatchesUp`
  says that a loop that has found a new ledger pays a resumed contract back, or
  the process dies first; it is stated where no job reads the settings anew.
  What the loop itself promises is `KeepsPolling`, which fails.
* `Webhooks`: weak fairness of the worker, which BullMQ keeps handing its jobs,
  and of a notification that has begun. None of the retrier: its only caller is
  the tick of the indexer, behind the statement that throws. `DeliveriesEnd`
  says that each job leaves the queue: its tries are counted.
* `Gateway`: of the timer of each request alone. A query may hang for ever, and
  the promise is that the request is answered nevertheless.
* The vault and the projection: none. Nothing obliges anybody to call.

### Refinement

`Indexer` implements `AtLeastOnceLog` for the events of the factory (`LogSpec`):
`tip` is the length of the chain, `cursor` the saved one, `done` the ledgers of
other contracts and those applied, dead or filtered, and `owed` those up to the
cursor that a paused or resumed contract is still to be caught up with. A vault
is not refined: events before the process knows of it are passed over
(`doc_gap`), and `VaultFollowed` says what remains.

`SingleRwaVault` implements `YieldLedger` (`LedgerSpec`): `owed` is what
`EpochEntitlement` works out of snapshots and balances at the moment, `paid` and
`settled` are `credited` and `hasClaimed`. The ledger fixes `owed` when an epoch
is distributed. The code fixes nothing then; it takes snapshots later, where
balances are about to change. The refinement says that nobody can tell the
difference: a call that touches shares is no step of the ledger at all.

### Where the code and its documents differ

Each of these runs ends in a counterexample, described under `findings`.

| Run | The document says | The code does |
|---|---|---|
| `doc_vesting_reset` | the second claim gets the remaining half | with the period reset to 0, all is paid again |
| `doc_replay` | the first tick after a resume replays the contract from `paused_at_ledger + 1` up to the cursor, then clears the marker (`docs/indexer.md:88-90`) | each event is looked up in settings a backfill job may have read again: paused anew meanwhile, the replay skips what it fetches, and resumed before its end, the marker is cleared all the same |
| `doc_gap` | every vault discovered is asked for | events of a vault in the range that creates it are never fetched |
| `doc_claims` | a replayed claim is not added twice | the guard compares the wrong type, it is |
| `doc_idempotency` | a repeated key replays the stored answer | two at once both run |
| `doc_closed` | "Closed is a terminal state; no further operations are possible" (`lib.rs:2100`) | `burn` asks for no state and accepts a negative amount, which gives a closed vault shares again |

`CreditWithinEntitlement` holds as long as the vesting period is not set back to
zero: `CreditsStayWithin` proves it, and on `accounts` it is part of `LedgerSpec`,
whose payments stay within what is owed. Seventeen further statements of
documents are in the modules without a run, because their counterexamples take
no search:

| Statement | Source | Why it fails |
|---|---|---|
| `BalancesWithinSupply` | vault `fuzz_tests.rs:390`: "balances never go negative, never exceed total supply" | `transfer(from, to, -x)` takes shares the receiver may not have |
| `AssetsCoverSupply` | `math.rs:14-17`, amounts are validated for "transfer, burn" too; `fuzz_tests.rs:624` | the check has no caller; `burn(from, -x)` adds shares without assets |
| `ClaimedMeansCredited` | `soroban-contracts/README.md:490`: vested yield is claimable "as it becomes available" | `claim_yield` marks the epoch as claimed and drops what has not vested; without vesting it holds (`UnvestedClaimsComplete` on the run, `UnvestedClaimsAreFull` for every instance) |
| `KeepsPolling` | `docs/indexer.md:32` | the first tick that advances throws on `batchDurationMs`, which nothing declares, and ends the loop |
| `HoldersFollowChain` | `docs/events.md:10-11` | the parsers of deposits and withdrawals call decoders nothing declares and answer null; with them declared it holds on the mixes of `projection` |
| `SnapshotsMatchEpochs` | `docs/events.md:12` | the same of the parser of distributions |
| `OutgoingStaysValid` | `controllers/admin.ts:884-886`: the outgoing secret stays valid for the window | a second rotation within it overwrites `previous_secret`; `RetiredSecretsHonoured` says what remains |
| `SaltedKeysVerified` | `middleware/auth.ts:221-223` | rows are selected by the plain hash alone: a key as `generate-api-key.ts` stores it is never found, and remembered as revoked |
| `CashMatchesTotalAssets` | vault `lib.rs:1500` | paid yield stays in total assets |
| `InvestorCountExact` | `lib.rs:2675` | the queue, transfers and burns leave the count |
| `LockUpNotRetroactive` | `lib.rs:2874` | the lock-up is checked against the current period |
| `PausedSharesStill` | `lib.rs:3863` | burns, transfers and the queue ask for no pause |
| `ReportComplete` | `controllers/vaults.ts` | a report asked for before the year ends is kept for ever |
| `FullyClaimedIsClosed` | `indexer.ts` | the check runs before the claim is in the log |
| `ResyncKeepsState` | `scripts/resync-vault.ts` | fields it leaves out fall back, the state to Funding |
| `AppliedOnce` | `indexer.ts` | no handler notices a repeated event |
| `OnlyFailuresLockOut` | `middleware/auth.ts` | some successful calls count as attempts |

Other things the models had to follow, none of them an interleaving:

* Events. The contracts never emit `paused` or `unpaused`, which the handlers of
  the pause wait for. `v_remove` and `v_rem` name one event in two places.
  Deposit distribution, daily flows, operator fees and a user's first deposit
  read payload fields that stored rows lack, so they answer nothing.
  `total_supply` of a vault is set by a resynchronisation only. Redemption rows
  are keyed by the place in the queue, read as a time. A claim without a
  position in its ledger shares its key with another one. Two handlers write to
  tables no migration creates; two migrations create `vault_operators` with
  different columns. A backfill checks its range against neither cursor nor
  tip, and is reported as complete when it broke off. A backfill at startup goes
  on after a stop. The end of a batch never reaches `getEvents`.
* Reads. A page by number never names the next cursor, and in the default order,
  where featured vaults lead, the cursor of a featured one skips newer vaults;
  `ListingsAgree` therefore walks the list by creation. Two endpoints value a
  portfolio differently: one divides first. A portfolio's history values one
  vault. Two fields may be asked for that no row has. `toggleVaultUnlisted` and
  `setVaultFeaturedRank` write and then fail on a function that is not
  imported. A user's compliance summary counts full claims only.
* Webhooks. The worker never asks whether an endpoint is active; the throttle does not see
  retries; an exception of `fetch` in the retrier is not counted; an escalation
  in flight is lost with the process.
* Gateway. A timer's 503 and a guard's 403 or 429 pass through the idempotency
  wrapper and are replayed for a day. A write of an administrator counts as two
  attempts. An outage during the look-up of a key answers 401. A counter whose
  EXPIRE is lost never expires. The limiter of RPC calls loses a permit when a
  waiter is handed one, yet nothing imports it.
* Scripts and start. `rotate-api-key.ts` stores the plain hash, `generate-api-key.ts` a
  salted one. `rebuild-positions.ts` and `exportVaultsCsv` use columns no migration creates.
  `VACUUM` runs inside a transaction. `reindex` queues a job type that no worker
  declares. `index.ts` calls `validateNetworkPassphrase` without importing it.

## Proofs

`tlapm` checks the eight proof modules to the last leaf. The results hold for all
values of the constants that the assumptions of the models allow, and TLC
evaluates these in every run:

* `ShareMath`, `VaultBase`: a positive offset and precision, finitely many users
  distinct from the vault and the operator, natural amounts of assets, yield and
  time, and numbers of shares of either sign.
* `Indexer`: batches are not empty, events are of the factory or of a vault, and
  a behaviour has a last ledger.
* `Webhooks`: a positive threshold, number of attempts and window, finitely many
  endpoints, and answers of the kinds a call may have.
* `ReadCaches`, `Gateway`: positive times to live, requests with keys of the key
  table, and keys that, not being live at the start, are dead from then on.
* `VaultProjection`: the vault is none of the two neighbours, deposits are
  positive, the users are finitely many and a yield is a natural number.

Some theorems hold on part of the behaviours, and each condition is needed:

* The theorems of the vault marked so below ask that no call has named a negative
  number of shares (`~negativeCalls`, part of the properties they state), or
  shares appear that nobody paid for: `doc_closed`.

* `CreditsStayWithin`, and with it `VaultKeepsLedger` and `EpochsStaySolvent`, asks
  that vesting is not switched off again (`VestingStays`), or all is paid twice:
  `doc_vesting_reset`.
* `UnvestedClaimsAreFull` asks that the vesting period is zero, or a claim of
  all epochs drops what has not vested. It states
  `ClaimedMeansCredited`, which `accounts` checks as `UnvestedClaimsComplete`.
* `FactoryNeverPassedOver`, `IndexerImplementsLog` and `PausesArePaidBack` ask of
  the mixes that, where there are backfill jobs, they recover ranges already
  passed and no contract is paused beside them (`Orderly`). A job that runs
  ahead of the loop moves the cursor past ledgers nobody reads, and a pause
  beside a job loses events: `doc_replay`.
* `RefusalsPass` is of keys stored by their plain hash; a salted key is refused
  for good.

Each proof has one lemma or step per action. The arguments:

* `TypeInvariant`: `Spec => []TypeOK`. Balances, snapshots and entitlements are
  integers, cash and accounts naturals. Two clauses are more than types and
  carry the rest: snapshots exist exactly for the epochs up to the last
  interaction, and a vault in Emergency has a positive base, or the claim of a
  user would divide by zero.
* `SharesConserved`: every action gives or takes the shares of one holder, or
  moves them between two. `TotalSplit` takes a holder out of a sum over users;
  the lemmas on one holder and on a move between two follow from it. `Net` is
  the same sum with values of either sign.
* `EscrowIsQueue`: a request adds to the sum of its owner, processing, cancelling
  or rejecting removes one pending entry, and no other action touches either.
* `SharesAlwaysBacked`, `LockedValueCovered`, `NobodyDiluted` (no negative amounts):
  none is inductive alone. Paying a locked value keeps the backing only if the
  value is within the price, and it stays there only if the price does not fall,
  which needs the backing. `PriceInv` is their conjunction with conservation,
  escrow and `Natural` (balances and supply below zero come from negative amounts
  alone); `Fair` is the relation between two states in which the price does not
  fall, and each operation is shown to keep it from the rounding direction of
  `ShareMath`, whose divisors are positive there.
* `ClosedIsTerminal`: a transfer needs no state, so finality holds because a closed
  vault has no shares left; `ClosedIsEmpty` is the inductive strengthening, which
  needs `PriceInv`, since shares that sum to zero are none only if none is negative.
* `SnapshotsFaithful`: `SnapshotIntegrity` is inductive with the types. A step
  either leaves a user's balance alone or takes the user's snapshot first, and
  an epoch without snapshot is one whose holders have not moved since.
* `ClaimedNeverCreditedAgain`: every credit is of epochs outside `hasClaimed`
  or of a pending amount that is zero for the epochs inside it.
* `YieldNeverOverAllocated` (no negative amounts): the holders of an epoch have
  natural holdings that fit in its total (`HoldersWithinEpoch`), and rounded-down parts of a yield add up to at most the
  yield (`TotalOfParts`).
* `CashAlwaysReconciles`: every action moves cash, total deposited, claim volume
  and outflow by amounts that cancel; a claim paid in part is booked as paid.
* `EmergencyClaimsBounded` (no negative amounts): inductive once stated against the shares burned since
  the enabling. One claim adds a rounded-down part of the frozen balance and
  burns the shares it stands for; other burns only help, and no operation makes
  shares in Emergency.
* `EveryoneRefunded` (no negative amounts): before activation no epoch exists (`NoYieldYet`), so cash
  reconciles to total deposited; the refunds are parts of it (`TotalOfParts`).
* `CreditsStayWithin` (no negative amounts): `ClaimsTraced` says where credits come
  from, whatever the sign. The cursor has passed claimed epochs only; what an
  unclaimed epoch has been credited came from claims of that epoch alone, which
  `epochYieldClaimed` counts; every epoch has a timestamp that is not zero, the
  value the code takes for an absent one. `CreditsBounded` adds the bound.
  `NextByClaims` sorts the actions: a distribution, a claim, and all the others,
  which touch neither flags nor credits. The vested part of a natural amount is
  at most the amount, so each way of claiming stays within.
* `UnvestedClaimsAreFull`: with `ClaimsTraced`, the invariant that what is marked
  has been credited in full (`ClaimedInFull`), since a pending amount without
  vesting is the whole entitlement.
* `VaultKeepsLedger`: by `NextByClaims` again. A distribution adds what its epoch
  owes and changes nothing owed before (`DistributionBooked`), a claim is a
  payment within what is owed of epochs not settled (`ClaimBooked`), and any
  other call leaves the ledger's figures where they are (`LedgerStays`), because
  the shares of past epochs stay those recorded in `holdersAt`.
* `EpochsStaySolvent` (no negative amounts): credits are within entitlements user by user, and those
  add up to at most the yield.

* `FactoryNeverPassedOver`: `Inv` says stage by stage what a worker carries from
  one await to the next. Up to the cursor every ledger of the factory is settled
  (applied, dead or filtered) or owed to a pause. A tick and a fill have handled
  what they have not fetched (`Ticking`, `LoopFills`, `JobFills`); a replay is of
  a contract paused in the settings read, and has settled what was owed when it
  ends (`Replaying`); a marker is where the cursor was and stays until paid back
  (`Marked`). Without jobs memory and table agree on the cursor (`InStep`), and
  with jobs nothing is paused (`Alone`). `Own`: only a job reads the settings
  again while a tick goes by them.
* `VaultNeverPassedOver`: the same of a vault, from the ledger `since` at which the
  process follows it (`Tracked`). It is set by the transaction that creates the
  vault, except that a backfill at startup follows a new vault only from its end
  on. It asks nothing of the mixes, because `VaultFollowed` speaks of behaviours
  without jobs.
* `PausesArePaidBack`: only `ClearMarker` takes a marker away, of a contract just
  replayed (`OnlyClearMarker`), and there `Replaying` says that all is settled.
* `IndexerImplementsLog`: an event published is a step of the abstract chain; any
  other step adds to what is done and moves the cursor ahead, a delivery, or
  back, a retreat, because nothing recorded is taken back (`Recorded`) and what
  is not done up to the cursor is owed (`LogView`).
* `DrainedStaysQuiet`: drain returns only after `stop()`, and nothing starts the
  loop of a stopped process.
* `QueuedNeverLost`: what was queued has a job, or was received, dropped or logged
  (`QueuedTraced`). It stays so because a worker and a retrier that hold a
  success have had it received (`WorkerHonest`, `RetrierHonest`), as has a row
  that says delivered, and because a job is given up after its retries only once
  its delivery is in the log: the process dies at most `RetryLimit` times, the
  bound in `Fault` (`JobsOwned`).
* `OpenCircuitHolds`: the calls since the opening, with those that a worker and a
  retrier who have read the endpoint may still make, are two at most (`TwoAtMost`).
* `OnlyRotationsPushOut`: `Kept` says of the row, and of every copy of it in hand,
  that the last secret retired before it is its previous one, while that is
  within the window; a secret it lacks was pushed out by a later one.
* `ReplaysStayOwn`, `AnswersStayRecent`: `OwnAnswers` extends the claim to the rows
  stored and to those whose insert is still on its way; `Young` bounds the age
  of the two caches, each of which holds what the other never feeds.
* `RefusalsPass`: a key that is not there or not active is dead now, and a negative
  result is no older than the last moment its key was dead plus `RevokedTtl`
  (`Dead`). Only two actions blame a key (`WhoBlames`).

* `SnapshotsNeverRetaken`: a frame for every handler of the indexer, a set of tables
  it leaves alone (`Framed`); those that write snapshots only add rows or change
  what is claimed of one (`Kept`).
* `LastWordWins`: each event of the contracts tells what it changed (`Spoken`), the
  first of 35 parsers to read it is the one meant (`OnlyParser`) and yields its
  topics and data, and its handler leaves the tables showing what it says
  (`WordTaken`). `WordInv` then holds through deliveries, resynchronisations and
  rewinds: for state, operators and roles alike there is a last event that
  speaks of it, it says what the contract holds, and once delivered the tables
  show it (`Tells`). Going back behind that event makes no promise until it is
  delivered again.
* `DoneRequestsStayGone`: a request shown is in the queue of the contract or is
  taken out by an event not delivered yet (`Waits`). Events of the past keep
  this too: a request asked for at one place of the history is in the queue or
  is taken out at a later place (`AskedWait`), so delivering it again is harmless.

* `NoEpochClosedEarly`: each event tells what it pays of which epoch (`Booked`), so
  the claims of the history add up to at most what the contract has paid
  (`Accounted`). The log is keyed by ledger, a ledger holds one event, and a
  delivery adds a row of its own event or none: every claim in the log is one of
  the history, and no two are the same one (`Logged`). Hence the sum over the
  log, which decides whether an epoch is closed, is at most the sum over the
  history (`LogBounded`), whatever is delivered again. `ClosedInv` carries this
  with the rows closed until now (`Closing`).
* `NoReportAhead`: each epoch row is one distribution of the history, with its
  ledger and yield (`RowsTold`). That needs the clock: a row is dated by the
  newest ledger seen, so a row must be opened by the first delivery of its
  distribution, and `Frontier` says it is. Deliveries have reached some event,
  the clock is not past that one, and each distribution up to there has its
  row; one delivered again finds it. A report adds up rows of its year, at
  most what the history distributed in that year (`YieldIn`), which only grows
  (`YieldGrows`), so a report kept from earlier stays within it too.

`Total` counts the units of a sum, the cardinality of a union, so that taking a
summand out (`TotalSplit`), changing one (`TotalChange`) and comparing two sums
along an injection of their indices (`TotalInjected`) follow from the theorems
on finite sets. Only `TotalOfParts`, where summands are scaled, needs an
induction. The library's induction rules take an operator, so it is proved by
descent: strict inclusion between finite sets is well founded, a set that
violates the claim has a smallest violating subset, and removing one of its
members contradicts that. `LeastNatural` uses the same rule on naturals.

Model-checked only:

* liveness, which needs fairness and ENABLED: `StartsCatchUp`, `ResumedCatchesUp`,
  `DeliveriesEnd`, `EveryRequestAnswered`;
* `StatementsAgree`, `EpochPagesComplete` and `AnswersAgree`, which compare sorted
  pages and folds over tables of any size: induction over data.

`UnvestedClaimsComplete` is the form in which a run asks what
`UnvestedClaimsAreFull` proves. `AnswersRecent`, run and theorem, bounds the age of
an answer; an answer made stale by an invalidation that falls between the read
of the row and the write of its entry stays within that bound.

## Plan

1. `VaultAdmin` (roles, admin transfer, timelock) and `EmergencyMultisig`
   (proposals, approvals, a signer set that changes), composed with the vault.
2. `VaultViews`: that `max_*`, `preview_*` and `can_redeem` agree with the
   handlers they announce.
3. `VaultFactory`: registry, status, batch creation, admin transfer.
4. Fee tiers, deletion of users, the RPC limiter and SSE, once the program uses
   them.

## Not modelled

* Vault: roles, timelock, multi-signature proposals, views, statistics per
  epoch other than claims, storage migrations, the budget of a transaction.
* Factory: planned.
* Backend: `tickStateOnly` and the adaptive batch size; mail and in-app channels;
  the address check of an endpoint; the vault scope of a key, address lists, the
  internal token, feature flags, content checks, usage statistics and audit
  rows; tables that no event fills (notes, tags, announcements, documents, fee
  tiers); answers read from the chain alone; SSE, whose broadcast has no caller;
  GraphQL, which resolves through the same services. The branch for `kycUpdate`
  in the cascade of events is unreachable: its topic is taken by an earlier one.
* The SDK encodes calls; the frontend and the deployment scripts hold no logic
  of the protocol.
