---------------------------- MODULE IndexedTables ----------------------------
(***************************************************************************)
(* The tables the indexer keeps and what each handler of                   *)
(* services/indexer.ts writes to them.  A database is a record: tables     *)
(* with a key are functions from it, tables that only grow are the         *)
(* sequence rows.  A handler is an operator from a database, the contract  *)
(* of the event and its parsed form to the next database.                  *)
(***************************************************************************)
EXTENDS ContractEvents, Totals, Integers, FiniteSets, Folds, SequencesExt, TLC

CONSTANTS LargeTransfer,    \* config.largeTransferThreshold
          Fees              \* basis points are counted in parts of this (10000)
ASSUME FeesAssumption == Fees \in Nat \ {0} /\ LargeTransfer \in Nat

\* id counts the rows in the order they were inserted, as created_at does;
\* maturity and the three after it are set by administrators only.
NewVault(id, factory, state, target, category) ==
  [id |-> id, factory |-> factory, state |-> state, totalAssets |-> 0, totalSupply |-> 0,
   minted |-> 0, burned |-> 0, target |-> target, category |-> category, paused |-> FALSE,
   reason |-> "", feeBps |-> 0, status |-> "active", settlement |-> "",
   supplyAtMaturity |-> 0, archived |-> FALSE, manager |-> "", verifier |-> "", name |-> "",
   details |-> <<>>, maturity |-> 0, unlisted |-> FALSE, featured |-> 0, tags |-> {}]

EmptyDatabase ==
  [vaults |-> <<>>, positions |-> <<>>, epochs |-> <<>>, snapshots |-> <<>>,
   requests |-> <<>>, operators |-> <<>>, roles |-> <<>>, kyc |-> <<>>,
   whitelist |-> {}, statuses |-> <<>>, log |-> <<>>, dead |-> {}, rows |-> <<>>,
   reports |-> <<>>, now |-> 0]

Known(db, c) == c \in DOMAIN db.vaults
Upsert(table, key, row) ==
  [k \in DOMAIN table \cup {key} |-> IF k = key THEN row ELSE table[k]]
\* ON CONFLICT DO NOTHING: a row that is there stays.
Joined(table, rows) ==
  [k \in DOMAIN table \cup DOMAIN rows |-> IF k \in DOMAIN table THEN table[k] ELSE rows[k]]
\* UPDATE vaults ... WHERE contract_id: no row, no effect.
UpdateVault(db, c, Change(_)) ==
  IF Known(db, c) THEN [db EXCEPT !.vaults[c] = Change(@)] ELSE db
Append1(db, table, row) == [db EXCEPT !.rows = Append(@, <<table, row>>)]
Lower(amount, by) == IF by > amount THEN 0 ELSE amount - by

RecordTvlSnapshot(db, c) ==
  IF Known(db, c)
  THEN Append1(db, "vault_tvl_snapshots",
               <<c, db.vaults[c].totalAssets, db.now, db.vaults[c].totalSupply>>)
  ELSE db

\* Inserting resets the state and sets the totals of a vault that exists;
\* target and category stay unless new ones are given.
UpsertVault(db, c, new) ==
  LET row == IF Known(db, c) THEN db.vaults[c]
             ELSE NewVault(Cardinality(DOMAIN db.vaults) + 1, new.factory, "", 0, "")
  IN  [db EXCEPT !.vaults = Upsert(@, c,
         [row EXCEPT !.state = new.state,
                     !.totalAssets = new.totalAssets, !.totalSupply = new.totalSupply,
                     !.target = IF new.target = 0 THEN @ ELSE new.target,
                     !.category = IF new.category = "" THEN @ ELSE new.category])]

\* The clock of the database is as late as the newest ledger it has seen.
NotBefore(db, ledger) == [db EXCEPT !.now = IF @ > ledger THEN @ ELSE ledger]

\* What upsertVault takes for the fields a caller leaves out.
Defaults == [factory |-> "", state |-> "Funding", totalAssets |-> 0, totalSupply |-> 0,
             target |-> 0, category |-> ""]
-----------------------------------------------------------------------------
\* first_entry_at and last_exit_at are moments, zero for none.
HandleDeposit(db, c, p) ==
  IF ~Known(db, c) THEN db
  ELSE LET key == <<p.receiver, c>>
           old == IF key \in DOMAIN db.positions THEN db.positions[key]
                  ELSE [shares |-> 0, deposited |-> 0, lastClaimed |-> 0,
                        entered |-> 0, exited |-> 0]
           new == [old EXCEPT !.shares = @ + p.shares, !.deposited = @ + p.assets,
                              !.entered = IF @ = 0 THEN db.now ELSE @, !.exited = 0]
           vault(v) == [v EXCEPT !.totalAssets = @ + p.assets, !.minted = @ + p.shares]
       IN  RecordTvlSnapshot(UpdateVault([db EXCEPT !.positions = Upsert(@, key, new)],
                                         c, vault), c)

\* After maturity: complete once no supply is left in the table.
RefreshSettlementStatus(db, c) ==
  UpdateVault(db, c, LAMBDA v :
    IF v.state \in {"Matured", "Closed"}
    THEN [v EXCEPT !.settlement = IF v.totalSupply = 0 THEN "complete" ELSE "in_progress"]
    ELSE v)

HandleWithdraw(db, c, p) ==
  IF ~Known(db, c) THEN db
  ELSE LET key == <<p.owner, c>>
           old == IF key \in DOMAIN db.positions THEN db.positions[key]
                  ELSE [shares |-> 0, deposited |-> 0, lastClaimed |-> 0,
                        entered |-> 0, exited |-> 0]
           new == [old EXCEPT !.shares = Lower(@, p.shares), !.deposited = Lower(@, p.assets),
                              !.exited = IF old.shares <= p.shares THEN db.now ELSE 0]
           vault(v) == [v EXCEPT !.burned = @ + p.shares]
       IN  RefreshSettlementStatus(
             RecordTvlSnapshot(UpdateVault([db EXCEPT !.positions = Upsert(@, key, new)],
                                           c, vault), c), c)

\* Mutant: a snapshot is overwritten.
SnapshotsTakenAgain(db, c, p) ==
  IF ~Known(db, c) THEN db
  ELSE LET holders == {k \in DOMAIN db.positions : k[2] = c /\ db.positions[k].shares > 0}
           taken == [s \in {<<c, k[1], p.epoch>> : k \in holders} |->
                       [shares |-> db.positions[<<s[2], c>>].shares, claimed |-> 0]]
           epoch == [k \in {<<c, p.epoch>>} |-> [yield |-> p.amount, closed |-> FALSE, closedAt |-> 0,
                                              at |-> db.now, shares |-> db.vaults[c].totalSupply]]
       IN  [RecordTvlSnapshot(db, c) EXCEPT !.epochs = Joined(@, epoch), !.snapshots = Joined(taken, @)]

\* Writes the epoch and the shares of every holder unless they are there.
HandleYieldDistributed(db, c, p) ==
  IF ~Known(db, c) THEN db
  ELSE LET holders == {k \in DOMAIN db.positions : k[2] = c /\ db.positions[k].shares > 0}
           taken == [s \in {<<c, k[1], p.epoch>> : k \in holders} |->
                       [shares |-> db.positions[<<s[2], c>>].shares, claimed |-> 0]]
           epoch == [k \in {<<c, p.epoch>>} |-> [yield |-> p.amount, closed |-> FALSE, closedAt |-> 0,
                                              at |-> db.now, shares |-> db.vaults[c].totalSupply]]
       IN  [RecordTvlSnapshot(db, c) EXCEPT !.epochs = Joined(@, epoch), !.snapshots = Joined(@, taken)]

OperatorFee(db, c, p) == IF Known(db, c) THEN (p.amount * db.vaults[c].feeBps) \div Fees ELSE 0

HandleVaultCreated(db, factory, p) ==
  UpsertVault(db, p.vault,
    [Defaults EXCEPT !.factory = factory, !.target = p.target, !.category = p.category])

HandleCancelFunding(db, c) == UpsertVault(db, c, [Defaults EXCEPT !.state = "Cancelled"])

HandleVaultStateChanged(db, c, p) ==
  IF p.newState = "" THEN db
  ELSE UpdateVault(db, c, LAMBDA v :
    IF p.newState = "Matured"
    THEN [v EXCEPT !.state = p.newState, !.settlement = "not_started",
                   !.supplyAtMaturity = v.totalSupply]
    ELSE [v EXCEPT !.state = p.newState,
                   !.settlement = IF p.newState = "Closed" THEN "complete" ELSE @])

HandleVaultRemoved(db, c) == UpdateVault(db, c, LAMBDA v : [v EXCEPT !.archived = TRUE])

\* What the log holds of the claims of an epoch.
IsClaim(type) == type \in {"yield_claimed", "yield_claimed_partial"}
ClaimedInLog(db, c, epoch) ==
  LET claims == {i \in DOMAIN db.log : /\ IsClaim(db.log[i].type) /\ db.log[i].contract = c
                                       /\ db.log[i].data.epoch = epoch}
  IN  Total([i \in claims |-> db.log[i].data.amount], claims)

\* Closes an epoch whose logged claims cover its yield.
CloseEpochIfFullyClaimed(db, c, epoch) ==
  IF /\ <<c, epoch>> \in DOMAIN db.epochs
     /\ ~db.epochs[<<c, epoch>>].closed
     /\ ClaimedInLog(db, c, epoch) >= db.epochs[<<c, epoch>>].yield
  THEN [db EXCEPT !.epochs[<<c, epoch>>].closed = TRUE, !.epochs[<<c, epoch>>].closedAt = db.now]
  ELSE db

\* The check for a closed epoch comes before the claim is written to the log.
HandleYieldClaimed(db, c, p) ==
  IF ~Known(db, c) THEN db
  ELSE LET snap == <<c, p.user, p.epoch>>
           key == <<p.user, c>>
           row == IF snap \in DOMAIN db.snapshots THEN db.snapshots[snap]
                  ELSE [shares |-> 0, claimed |-> 0]
           snaps == Upsert(db.snapshots, snap, [row EXCEPT !.claimed = @ + p.amount])
           poss == IF key \in DOMAIN db.positions
                   THEN [db.positions EXCEPT ![key].lastClaimed =
                           IF @ > p.epoch THEN @ ELSE p.epoch]
                   ELSE db.positions
       IN  CloseEpochIfFullyClaimed([db EXCEPT !.snapshots = snaps, !.positions = poss],
                                    c, p.epoch)

\* Rows are keyed by vault, user and time of the request; a second request
\* with the key of an earlier one only renames it.
HandleRequestEarlyRedemption(db, c, p) ==
  IF ~Known(db, c) THEN db
  ELSE LET key == <<c, p.user, p.timestamp>>
       IN  [db EXCEPT !.requests = Upsert(@, key,
              IF key \in DOMAIN @ THEN [@[key] EXCEPT !.id = p.requestId]
              ELSE [id |-> p.requestId, shares |-> p.shares, processed |-> FALSE,
                    gross |-> 0, fee |-> 0, cancelled |-> FALSE,
                    processedAt |-> 0])]

OpenRequests(db, c, id) ==
  {k \in DOMAIN db.requests : k[1] = c /\ db.requests[k].id = id /\ ~db.requests[k].processed}

\* The gross value is worked out at the totals of the table, the fee is what
\* is above the net value of the event.
HandleEarlyRedemptionProcessed(db, c, p) ==
  IF ~Known(db, c) THEN db
  ELSE LET v == db.vaults[c]
           gross(r) == IF v.totalSupply > 0 THEN (r.shares * v.totalAssets) \div v.totalSupply
                       ELSE r.shares
           open == OpenRequests(db, c, p.requestId)
       IN  [db EXCEPT !.requests = [k \in DOMAIN @ |->
              IF k \in open
              THEN [@[k] EXCEPT !.processed = TRUE, !.gross = gross(db.requests[k]),
                                !.fee = Lower(gross(db.requests[k]), p.netAssets)]
              ELSE @[k]]]

\* Mutant: the cancelled request stays open.
CancelledStaysOpen(db, c, p) == db
HandleEarlyRedemptionCancelled(db, c, p) ==
  [db EXCEPT !.requests = [k \in DOMAIN @ |->
     IF k \in OpenRequests(db, c, p.requestId) THEN [@[k] EXCEPT !.processed = TRUE]
     ELSE @[k]]]

HandlePauseState(db, c, paused) == UpdateVault(db, c, LAMBDA v : [v EXCEPT !.paused = paused])

\* Mutant: an operator that has a row keeps it as it is.
OperatorAddedOnce(db, c, p) ==
  IF Known(db, c)
  THEN [db EXCEPT !.operators = @ @@ (<<c, p.operator>> :> [active |-> TRUE, by |-> p.caller])]
  ELSE db
HandleOperatorAdded(db, c, p) ==
  IF Known(db, c)
  THEN [db EXCEPT !.operators = Upsert(@, <<c, p.operator>>, [active |-> TRUE, by |-> p.caller])]
  ELSE db

HandleOperatorRemoved(db, c, p) ==
  IF Known(db, c)
  THEN [db EXCEPT !.operators = Upsert(@, <<c, p.operator>>, [active |-> FALSE, by |-> p.caller])]
  ELSE db

HandleRoleGranted(db, c, p) ==
  IF Known(db, c) THEN [db EXCEPT !.roles = Upsert(@, <<c, p.user, p.role>>, TRUE)] ELSE db

\* A role that was never granted has no row to revoke.
HandleRoleRevoked(db, c, p) ==
  IF <<c, p.user, p.role>> \in DOMAIN db.roles
  THEN [db EXCEPT !.roles[<<c, p.user, p.role>>] = FALSE] ELSE db

HandleOperatorFeeUpdated(db, c, p) ==
  IF Known(db, c)
  THEN Append1(UpdateVault(db, c, LAMBDA v : [v EXCEPT !.feeBps = p.newFeeBps]),
               "vault_fee_history", <<c, p.oldFeeBps, p.newFeeBps>>)
  ELSE db

HandlePauseReasonSet(db, c, p) == UpdateVault(db, c, LAMBDA v : [v EXCEPT !.reason = p.reason])

HandleWhitelistUpdated(db, c, p, at) ==
  IF c = "" THEN db ELSE [db EXCEPT !.whitelist = @ \cup {<<c, p.address, p.action, at>>}]

\* One row of status history by contract, kind and transaction.
InHistory(db, key, row) == [db EXCEPT !.statuses = @ @@ (key :> row)]

HandleVaultStatusChanged(db, p, at) ==
  LET previous == IF Known(db, p.vault) THEN db.vaults[p.vault].status ELSE ""
  IN  InHistory(UpdateVault(db, p.vault, LAMBDA v : [v EXCEPT !.status = p.status]),
                <<p.vault, "status_changed", at>>, <<previous, p.status>>)

HandleVaultManagerChanged(db, p, at) ==
  LET previous == IF p.oldManager # "" THEN p.oldManager
                  ELSE IF Known(db, p.vault) THEN db.vaults[p.vault].manager ELSE ""
  IN  InHistory(UpdateVault(db, p.vault, LAMBDA v : [v EXCEPT !.manager = p.newManager]),
                <<p.vault, "manager_changed", at>>, <<previous, p.newManager>>)

HandleZkmeVerifierUpdated(db, c, p) ==
  UpdateVault(db, c, LAMBDA v : [v EXCEPT !.verifier = p.newVerifier])

HandleAdminTransferred(db, p) ==
  Append1(db, "factory_admin_history", <<p.oldAdmin, p.newAdmin>>)

HandleWasmHashUpdated(db, p) == Append1(db, "factory_wasm_history", <<p.oldHash, p.newHash>>)

HandleKycSet(db, p) == [db EXCEPT !.kyc = Upsert(@, p.user, p.verified)]

\* Only a name that changed goes to the history of the details.
HandleMetadataUpdated(db, c, p) ==
  IF ~Known(db, c) THEN db
  ELSE LET new == UpdateVault(db, c, LAMBDA v : [v EXCEPT !.details = p.details])
       IN  IF db.vaults[c].details = p.details THEN new
           ELSE Append1(new, "vault_metadata_history", <<c, db.vaults[c].details, p.details>>)

HandleVaultNameUpdated(db, c, p) ==
  IF ~Known(db, c) THEN db
  ELSE Append1(UpdateVault(db, c, LAMBDA v : [v EXCEPT !.name = p.newName]),
               "vault_metadata_history",
               <<c, IF p.oldName # "" THEN p.oldName ELSE db.vaults[c].name, p.newName>>)

\* Transfers are listed, positions stay; a large one raises an alert.
HandleTransfer(db, c, p) ==
  LET listed == Append1(db, "transfers", <<c, p.from, p.to, p.amount, db.now>>)
  IN  IF p.amount > LargeTransfer
      THEN Append1(listed, "transfer_alerts", <<c, p.from, p.to, p.amount>>) ELSE listed

HandleTransferFeeCollected(db, c, p) == Append1(db, "transfer_fees", <<c, p.feeAmount, db.now>>)
-----------------------------------------------------------------------------
\* The row of the log: its key is contract, ledger and position; the rows of
\* three types are written without their position, which defaults to zero.
Unpositioned == {"yield_claimed", "yield_claimed_partial", "kyc_set"}
LogRow(db, ev, p) ==
  [contract |-> ev.contract, ledger |-> ev.ledger, type |-> p.type, at |-> db.now,
   tx |-> IF p.type \in Unpositioned THEN 0 ELSE ev.tx,
   index |-> IF p.type \in Unpositioned THEN 0 ELSE ev.index,
   data |-> IF p.type = "yield_distributed"
            THEN p @@ ("fee" :> OperatorFee(db, ev.contract, p)) ELSE p]

\* The handlers of these types keep their own fields as the payload; of every
\* other type it is the raw event, in which a query by field finds nothing.
KeptByField == Unpositioned \cup {"yield_distributed"}
PayloadField(row, field) ==
  IF row.type \in KeptByField /\ field \in DOMAIN row.data THEN row.data[field] ELSE ""

\* Mutant: a log without a key.
RecordAgain(db, ev, p) == [db EXCEPT !.log = Append(@, LogRow(db, ev, p))]
\* ON CONFLICT DO NOTHING on the key.
RecordEvent(db, ev, p) ==
  LET row == LogRow(db, ev, p)
      clash == \E i \in DOMAIN db.log : /\ db.log[i].contract = row.contract
                                        /\ db.log[i].ledger = row.ledger
                                        /\ db.log[i].tx = row.tx
                                        /\ db.log[i].index = row.index
  IN  IF clash THEN db ELSE [db EXCEPT !.log = Append(@, row)]

StoreDeadLetter(db, ev) == [db EXCEPT !.dead = @ \cup {ev}]

\* The cascade of _processEventInner in its order, in four stretches.
HandledMoney(db, ev, p) ==
  LET c == ev.contract
  IN  CASE p.type = "deposit" -> HandleDeposit(db, c, p)
        [] p.type = "withdraw" -> HandleWithdraw(db, c, p)
        [] p.type = "yield_distributed" ->
             HandleYieldDistributed(
               RecordEvent(HandleYieldDistributed(db, c, p), ev, p), c, p)
        [] p.type = "cancel_funding" -> HandleCancelFunding(db, c)
        [] OTHER -> db

HandledVault(db, ev, p) ==
  LET c == ev.contract
  IN  CASE p.type = "vault_state_changed" -> HandleVaultStateChanged(db, c, p)
        [] p.type = "vault_created" -> HandleVaultCreated(db, c, p)
        [] p.type = "vault_removed" -> HandleVaultRemoved(db, c)
        [] p.type = "operator_added" -> HandleOperatorAdded(db, c, p)
        [] p.type = "operator_removed" -> HandleOperatorRemoved(db, c, p)
        [] p.type = "role_granted" -> HandleRoleGranted(db, c, p)
        [] p.type = "role_revoked" -> HandleRoleRevoked(db, c, p)
        [] p.type = "request_early_redemption" -> HandleRequestEarlyRedemption(db, c, p)
        [] p.type \in {"yield_claimed", "yield_claimed_partial"} -> HandleYieldClaimed(db, c, p)
        [] OTHER -> HandledMoney(db, ev, p)

HandledSettings(db, ev, p) ==
  LET c == ev.contract
  IN  CASE p.type = "early_redemption_processed" -> HandleEarlyRedemptionProcessed(db, c, p)
        [] p.type = "early_redemption_cancelled" -> HandleEarlyRedemptionCancelled(db, c, p)
        [] p.type = "operator_fee_updated" -> HandleOperatorFeeUpdated(db, c, p)
        [] p.type = "pause_reason_set" -> HandlePauseReasonSet(db, c, p)
        [] p.type = "zkme_upd" -> HandleZkmeVerifierUpdated(db, c, p)
        [] p.type = "adm_xfr" -> HandleAdminTransferred(db, p)
        [] p.type = "wasm_upd" -> HandleWasmHashUpdated(db, p)
        [] p.type = "kyc_set" -> HandleKycSet(db, p)
        [] p.type \in {"paused", "unpaused"} -> HandlePauseState(db, c, p.type = "paused")
        [] OTHER -> HandledVault(db, ev, p)

Handled(db, ev, p) ==
  LET c == ev.contract
      at == <<ev.ledger, ev.tx>>
  IN  CASE p.type = "rwa_details_updated" -> HandleMetadataUpdated(db, c, p)
        [] p.type = "vault_name_updated" -> HandleVaultNameUpdated(db, c, p)
        [] p.type = "whitelist_updated" -> HandleWhitelistUpdated(db, c, p, at)
        [] p.type = "vault_status_changed" -> HandleVaultStatusChanged(db, p, at)
        [] p.type = "vault_manager_changed" -> HandleVaultManagerChanged(db, p, at)
        [] p.type = "transfer" -> HandleTransfer(db, c, p)
        [] p.type = "transfer_fee_collected" -> HandleTransferFeeCollected(db, c, p)
        [] OTHER -> HandledSettings(db, ev, p)

\* One event that no statement fails on: handled and logged, kept as a dead
\* letter, or counted and dropped.
Indexed(db, ev) ==
  LET p == Parsed(ev)
      here == NotBefore(db, ev.ledger)
  IN  IF p # None THEN RecordEvent(Handled(here, ev, p), ev, p)
      ELSE IF BecomesDeadLetter(ev) THEN StoreDeadLetter(here, ev) ELSE here
=============================================================================
