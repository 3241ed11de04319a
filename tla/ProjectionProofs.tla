-------------------------- MODULE ProjectionProofs --------------------------
(***************************************************************************)
(* However often parts of a history are delivered again: a snapshot keeps  *)
(* its shares, the state and the staff shown are those of the contract,    *)
(* and the queue shows open requests.  No epoch is closed before its yield *)
(* was paid, and no report tells more than its year.  All of it holds      *)
(* whether or not the decoders some parsers refer to are declared.         *)
(***************************************************************************)
EXTENDS VaultProjection, TotalProofs, SequenceTheorems

-----------------------------------------------------------------------------
(* Tables *)

Tables == {"vaults", "positions", "epochs", "snapshots", "requests", "operators", "roles", "kyc",
           "whitelist", "statuses", "log", "dead", "rows", "reports", "now"}
Shaped(d) ==
  /\ DOMAIN d = Tables
  /\ \A c \in DOMAIN d.vaults : "state" \in DOMAIN d.vaults[c]
  /\ \A s \in DOMAIN d.snapshots : DOMAIN d.snapshots[s] = {"shares", "claimed"}

\* What the handlers of the other tables leave alone, and what an event leaves
\* alone around its handler.
Followed == {"positions", "snapshots", "requests", "operators", "roles", "epochs", "log",
             "reports", "now"}
Still == Followed \ {"now", "log"}
Keeps(tables, d, e) == \A t \in tables : e[t] = d[t]
SameStates(d, e) ==
  /\ DOMAIN e.vaults = DOMAIN d.vaults
  /\ \A c \in DOMAIN d.vaults : e.vaults[c].state = d.vaults[c].state
Framed(tables, d, e) == Shaped(e) /\ Keeps(tables, d, e) /\ SameStates(d, e)

LEMMA Transitive ==
  ASSUME NEW tables, NEW d, NEW e, NEW f, Framed(tables, d, e), Framed(tables, e, f)
  PROVE  Framed(tables, d, f)
BY DEF Framed, Keeps, SameStates

LEMMA Narrower ==
  ASSUME NEW tables, NEW fewer \in SUBSET tables, NEW d, NEW e, Framed(tables, d, e)
  PROVE  Framed(fewer, d, e)
BY DEF Framed, Keeps

LEMMA NothingWritten ==
  ASSUME NEW d, Shaped(d)
  PROVE  Framed(Followed, d, d)
BY DEF Framed, Keeps, SameStates

\* A column of a vault is written, where the vault is known.
Column(d, c, column, value) ==
  IF c \in DOMAIN d.vaults THEN [d EXCEPT !.vaults[c] = [@ EXCEPT ![column] = value]] ELSE d
LEMMA ColumnWritten ==
  ASSUME NEW d, Shaped(d), NEW c, NEW column, column # "state", NEW value
  PROVE  Framed(Followed, d, Column(d, c, column, value))
BY DEF Framed, Keeps, SameStates, Shaped, Tables, Followed, Column

\* Another table is written.
LEMMA OtherWritten ==
  ASSUME NEW d, Shaped(d), NEW t \in Tables \ (Followed \cup {"vaults"}), NEW table
  PROVE  Framed(Followed, d, [d EXCEPT ![t] = table])
BY DEF Framed, Keeps, SameStates, Shaped, Tables, Followed

LEMMA LedgerNoted ==
  ASSUME NEW d, Shaped(d), NEW ledger
  PROVE  Framed(Followed \ {"now"}, d, NotBefore(d, ledger))
BY DEF NotBefore, Framed, Keeps, SameStates, Shaped, Tables, Followed

LEMMA EventRecorded ==
  ASSUME NEW d, Shaped(d), NEW ev, NEW p
  PROVE  Framed(Followed \ {"log"}, d, RecordEvent(d, ev, p))
<1>1. ASSUME NEW log
      PROVE  Framed(Followed \ {"log"}, d, [d EXCEPT !.log = log])
  BY DEF Framed, Keeps, SameStates, Shaped, Tables, Followed
<1>2. Framed(Followed \ {"log"}, d, d) BY DEF Framed, Keeps, SameStates
<1>3. RecordEvent(d, ev, p) = d \/ \E log : RecordEvent(d, ev, p) = [d EXCEPT !.log = log]
  BY DEF RecordEvent
<1> QED BY <1>1, <1>2, <1>3

LEMMA RowAppended ==
  ASSUME NEW d, Shaped(d), NEW table, NEW row
  PROVE  Framed(Followed, d, Append1(d, table, row))
BY OtherWritten DEF Append1, Tables, Followed

LEMMA TvlRecorded ==
  ASSUME NEW d, Shaped(d), NEW c
  PROVE  Framed(Followed, d, RecordTvlSnapshot(d, c))
BY RowAppended, NothingWritten DEF RecordTvlSnapshot

\* Handlers that write none of the tables followed here, and no state.
Loud == {"deposit", "withdraw", "yield_distributed", "cancel_funding", "vault_state_changed",
         "vault_created", "operator_added", "operator_removed", "role_granted", "role_revoked",
         "request_early_redemption", "yield_claimed", "yield_claimed_partial",
         "early_redemption_processed", "early_redemption_cancelled"}

LEMMA SettingsQuiet ==
  ASSUME NEW d, Shaped(d), NEW c, NEW p, NEW paused
  PROVE  /\ Framed(Followed, d, HandleVaultRemoved(d, c))
         /\ Framed(Followed, d, HandlePauseReasonSet(d, c, p))
         /\ Framed(Followed, d, HandleZkmeVerifierUpdated(d, c, p))
         /\ Framed(Followed, d, HandlePauseState(d, c, paused))
<1>1. /\ HandleVaultRemoved(d, c) = Column(d, c, "archived", TRUE)
      /\ HandlePauseReasonSet(d, c, p) = Column(d, c, "reason", p.reason)
      /\ HandleZkmeVerifierUpdated(d, c, p) = Column(d, c, "verifier", p.newVerifier)
      /\ HandlePauseState(d, c, paused) = Column(d, c, "paused", paused)
  BY DEF HandleVaultRemoved, HandlePauseReasonSet, HandleZkmeVerifierUpdated, HandlePauseState,
         UpdateVault, Known, Column
<1> QED BY <1>1, ColumnWritten

LEMMA HistoriesQuiet ==
  ASSUME NEW d, Shaped(d), NEW c, NEW p, NEW place
  PROVE  /\ Framed(Followed, d, HandleAdminTransferred(d, p))
         /\ Framed(Followed, d, HandleWasmHashUpdated(d, p))
         /\ Framed(Followed, d, HandleKycSet(d, p))
         /\ Framed(Followed, d, HandleWhitelistUpdated(d, c, p, place))
         /\ Framed(Followed, d, HandleTransferFeeCollected(d, c, p))
         /\ Framed(Followed, d, HandleTransfer(d, c, p))
<1>1. /\ Framed(Followed, d, HandleAdminTransferred(d, p))
      /\ Framed(Followed, d, HandleWasmHashUpdated(d, p))
      /\ Framed(Followed, d, HandleTransferFeeCollected(d, c, p))
  BY RowAppended DEF HandleAdminTransferred, HandleWasmHashUpdated, HandleTransferFeeCollected
<1>2. /\ Framed(Followed, d, HandleKycSet(d, p))
      /\ Framed(Followed, d, HandleWhitelistUpdated(d, c, p, place))
  BY OtherWritten, NothingWritten DEF HandleKycSet, HandleWhitelistUpdated, Tables, Followed
<1>3. Framed(Followed, d, HandleTransfer(d, c, p))
  <2> DEFINE listed == Append1(d, "transfers", <<c, p.from, p.to, p.amount, d.now>>)
             alert == Append1(listed, "transfer_alerts", <<c, p.from, p.to, p.amount>>)
  <2>1. Framed(Followed, d, listed) BY RowAppended
  <2>2. Framed(Followed, listed, alert)
    <3>1. Shaped(listed) BY <2>1 DEF Framed
    <3> HIDE DEF listed
    <3> QED BY <3>1, RowAppended
  <2>3. HandleTransfer(d, c, p) \in {listed, alert} BY DEF HandleTransfer
  <2> HIDE DEF listed, alert
  <2> QED BY <2>1, <2>2, <2>3, Transitive
<1> QED BY <1>1, <1>2, <1>3

\* A column is written and a row of a history, in either order.
LEMMA DetailsQuiet ==
  ASSUME NEW d, Shaped(d), NEW c, NEW p, NEW place
  PROVE  /\ Framed(Followed, d, HandleOperatorFeeUpdated(d, c, p))
         /\ Framed(Followed, d, HandleMetadataUpdated(d, c, p))
         /\ Framed(Followed, d, HandleVaultNameUpdated(d, c, p))
         /\ Framed(Followed, d, HandleVaultStatusChanged(d, p, place))
         /\ Framed(Followed, d, HandleVaultManagerChanged(d, p, place))
<1> DEFINE fees == Column(d, c, "feeBps", p.newFeeBps)
           details == Column(d, c, "details", p.details)
           named == Column(d, c, "name", p.newName)
           status == Column(d, p.vault, "status", p.status)
           managed == Column(d, p.vault, "manager", p.newManager)
<1>1. /\ Framed(Followed, d, fees) /\ Framed(Followed, d, details) /\ Framed(Followed, d, named)
      /\ Framed(Followed, d, status) /\ Framed(Followed, d, managed)
  BY ColumnWritten
<1>2. /\ HandleOperatorFeeUpdated(d, c, p) = d
         \/ \E row : HandleOperatorFeeUpdated(d, c, p) = Append1(fees, "vault_fee_history", row)
      /\ \/ HandleMetadataUpdated(d, c, p) \in {d, details}
         \/ \E row : HandleMetadataUpdated(d, c, p) = Append1(details, "vault_metadata_history", row)
      /\ HandleVaultNameUpdated(d, c, p) = d
         \/ \E row : HandleVaultNameUpdated(d, c, p) = Append1(named, "vault_metadata_history", row)
      /\ \E key, row : HandleVaultStatusChanged(d, p, place) = InHistory(status, key, row)
      /\ \E key, row : HandleVaultManagerChanged(d, p, place) = InHistory(managed, key, row)
  BY DEF HandleOperatorFeeUpdated, HandleMetadataUpdated, HandleVaultNameUpdated,
         HandleVaultStatusChanged, HandleVaultManagerChanged, UpdateVault, Known, Column
<1> HIDE DEF fees, details, named, status, managed
<1>3. ASSUME NEW e, Framed(Followed, d, e), NEW table, NEW row
      PROVE  Framed(Followed, d, Append1(e, table, row))
  <2>1. Shaped(e) BY <1>3 DEF Framed
  <2> QED BY <1>3, <2>1, RowAppended, Transitive
<1>4. ASSUME NEW e, Framed(Followed, d, e), NEW key, NEW row
      PROVE  Framed(Followed, d, InHistory(e, key, row))
  <2>1. Shaped(e) BY <1>4 DEF Framed
  <2>2. Framed(Followed, e, InHistory(e, key, row))
    BY <2>1, OtherWritten DEF InHistory, Tables, Followed
  <2> QED BY <1>4, <2>2, Transitive
<1> QED BY <1>1, <1>2, <1>3, <1>4, NothingWritten

LEMMA Quiet ==
  ASSUME NEW d, Shaped(d), NEW ev, NEW p, p.type \notin Loud
  PROVE  Framed(Followed, d, Handled(d, ev, p))
<1> DEFINE c == ev.contract
           place == <<ev.ledger, ev.tx>>
<1>1. Framed(Followed, d, HandledMoney(d, ev, p))
  BY NothingWritten DEF HandledMoney, Loud
<1>2. Framed(Followed, d, HandledVault(d, ev, p))
  BY <1>1, SettingsQuiet DEF HandledVault, Loud
<1>3. Framed(Followed, d, HandledSettings(d, ev, p))
  <2> USE DEF Loud
  <2>1. CASE p.type = "operator_fee_updated" BY <2>1, DetailsQuiet DEF HandledSettings
  <2>2. CASE p.type \in {"pause_reason_set", "zkme_upd"} BY <2>2, SettingsQuiet DEF HandledSettings
  <2>3. CASE p.type \in {"paused", "unpaused"} BY <2>3, SettingsQuiet DEF HandledSettings
  <2>4. CASE p.type \in {"adm_xfr", "wasm_upd", "kyc_set"} BY <2>4, HistoriesQuiet DEF HandledSettings
  <2>5. CASE p.type \notin {"operator_fee_updated", "pause_reason_set", "zkme_upd", "paused",
                            "unpaused", "adm_xfr", "wasm_upd", "kyc_set"}
    BY <2>5, <1>2 DEF HandledSettings
  <2> QED BY <2>1, <2>2, <2>3, <2>4, <2>5
<1>4. CASE p.type \in {"rwa_details_updated", "vault_name_updated", "vault_status_changed",
                       "vault_manager_changed"}
  BY <1>4, DetailsQuiet DEF Handled
<1>5. CASE p.type \in {"whitelist_updated", "transfer", "transfer_fee_collected"}
  BY <1>5, HistoriesQuiet DEF Handled
<1>6. CASE p.type \notin {"rwa_details_updated", "vault_name_updated", "vault_status_changed",
                          "vault_manager_changed", "whitelist_updated", "transfer",
                          "transfer_fee_collected"}
  BY <1>3, <1>6 DEF Handled
<1> QED BY <1>4, <1>5, <1>6

-----------------------------------------------------------------------------
(* Handlers that write what is followed *)

\* The state of one vault is written.
StateWritten(d, e, c, word) ==
  /\ Shaped(e) /\ Keeps(Followed, d, e)
  /\ DOMAIN e.vaults = DOMAIN d.vaults \cup {c}
  /\ e.vaults[c].state = word
  /\ \A x \in DOMAIN d.vaults \ {c} : e.vaults[x].state = d.vaults[x].state

LEMMA VaultUpserted ==
  ASSUME NEW d, Shaped(d), NEW c, NEW new
  PROVE  StateWritten(d, UpsertVault(d, c, new), c, new.state)
<1> DEFINE old == IF Known(d, c) THEN d.vaults[c]
                  ELSE NewVault(Cardinality(DOMAIN d.vaults) + 1, new.factory, "", 0, "")
           row == [old EXCEPT !.state = new.state, !.totalAssets = new.totalAssets,
                              !.totalSupply = new.totalSupply,
                              !.target = IF new.target = 0 THEN @ ELSE new.target,
                              !.category = IF new.category = "" THEN @ ELSE new.category]
<1>1. "state" \in DOMAIN old BY DEF Shaped, Known, NewVault
<1>2. "state" \in DOMAIN row /\ row.state = new.state BY <1>1
<1>3. UpsertVault(d, c, new) = [d EXCEPT !.vaults = Upsert(@, c, row)] BY DEF UpsertVault
<1> HIDE DEF old, row
<1> QED BY <1>2, <1>3 DEF StateWritten, Keeps, Shaped, Tables, Followed, Upsert

LEMMA FundingCancelled ==
  ASSUME NEW d, Shaped(d), NEW c
  PROVE  StateWritten(d, HandleCancelFunding(d, c), c, "Cancelled")
<1>1. [Defaults EXCEPT !.state = "Cancelled"].state = "Cancelled" BY DEF Defaults
<1> QED BY <1>1, VaultUpserted DEF HandleCancelFunding

LEMMA VaultCreated ==
  ASSUME NEW d, Shaped(d), NEW factory, NEW p
  PROVE  StateWritten(d, HandleVaultCreated(d, factory, p), p.vault, "Funding")
<1> DEFINE new == [Defaults EXCEPT !.factory = factory, !.target = p.target, !.category = p.category]
<1>1. new.state = "Funding" BY DEF Defaults
<1>2. HandleVaultCreated(d, factory, p) = UpsertVault(d, p.vault, new) BY DEF HandleVaultCreated
<1> HIDE DEF new
<1> QED BY <1>1, <1>2, VaultUpserted

NoWord == ""
LEMMA StateChanged ==
  ASSUME NEW d, Shaped(d), NEW c, NEW p
  PROVE  /\ Known(d, c) /\ p.newState # NoWord => StateWritten(d, HandleVaultStateChanged(d, c, p), c, p.newState)
         /\ ~Known(d, c) \/ p.newState = NoWord => HandleVaultStateChanged(d, c, p) = d
<1> DEFINE v == d.vaults[c]
           row == IF p.newState = "Matured"
                  THEN [v EXCEPT !.state = p.newState, !.settlement = "not_started",
                                 !.supplyAtMaturity = v.totalSupply]
                  ELSE [v EXCEPT !.state = p.newState,
                                 !.settlement = IF p.newState = "Closed" THEN "complete" ELSE @]
<1>1. ~Known(d, c) \/ p.newState = NoWord => HandleVaultStateChanged(d, c, p) = d
  BY ZenonT(30) DEF HandleVaultStateChanged, UpdateVault, NoWord
<1>2. ASSUME Known(d, c), p.newState # NoWord
      PROVE  StateWritten(d, HandleVaultStateChanged(d, c, p), c, p.newState)
  <2>1. HandleVaultStateChanged(d, c, p) = [d EXCEPT !.vaults[c] = row]
    BY <1>2, ZenonT(30) DEF HandleVaultStateChanged, UpdateVault, NoWord
  <2>2. "state" \in DOMAIN row /\ row.state = p.newState BY <1>2 DEF Shaped, Known
  <2> HIDE DEF row
  <2> QED BY <1>2, <2>1, <2>2 DEF StateWritten, Keeps, Shaped, Tables, Followed, Known
<1> QED BY <1>1, <1>2

\* Staff.
LEMMA StaffWritten ==
  ASSUME NEW d, Shaped(d), NEW c, NEW p
  PROVE  /\ Framed(Followed \ {"operators"}, d, HandleOperatorAdded(d, c, p))
         /\ Framed(Followed \ {"operators"}, d, HandleOperatorRemoved(d, c, p))
         /\ Framed(Followed \ {"roles"}, d, HandleRoleGranted(d, c, p))
         /\ Framed(Followed \ {"roles"}, d, HandleRoleRevoked(d, c, p))
<1>1. ASSUME NEW table
      PROVE  /\ Framed(Followed \ {"operators"}, d, [d EXCEPT !.operators = table])
             /\ Framed(Followed \ {"roles"}, d, [d EXCEPT !.roles = table])
  BY DEF Framed, Keeps, SameStates, Shaped, Tables, Followed
<1>2. Framed(Followed \ {"operators"}, d, d) /\ Framed(Followed \ {"roles"}, d, d)
  BY DEF Framed, Keeps, SameStates
<1>3. Framed(Followed \ {"roles"}, d, HandleRoleRevoked(d, c, p))
  <2> DEFINE key == <<c, p.user, p.role>>
  <2>1. [d EXCEPT !.roles[key] = FALSE] = [d EXCEPT !.roles = [@ EXCEPT ![key] = FALSE]] OBVIOUS
  <2>2. HandleRoleRevoked(d, c, p) \in {d, [d EXCEPT !.roles[key] = FALSE]} BY DEF HandleRoleRevoked
  <2> HIDE DEF key
  <2> QED BY <1>1, <1>2, <2>1, <2>2
<1> QED BY <1>1, <1>2, <1>3 DEF HandleOperatorAdded, HandleOperatorRemoved, HandleRoleGranted

\* Redemption requests.
LEMMA RequestsWritten ==
  ASSUME NEW d, Shaped(d), NEW c, NEW p
  PROVE  /\ Framed(Followed \ {"requests"}, d, HandleRequestEarlyRedemption(d, c, p))
         /\ Framed(Followed \ {"requests"}, d, HandleEarlyRedemptionProcessed(d, c, p))
         /\ Framed(Followed \ {"requests"}, d, HandleEarlyRedemptionCancelled(d, c, p))
<1>1. ASSUME NEW table
      PROVE  Framed(Followed \ {"requests"}, d, [d EXCEPT !.requests = table])
  BY DEF Framed, Keeps, SameStates, Shaped, Tables, Followed
<1>2. Framed(Followed \ {"requests"}, d, d)
  BY DEF Framed, Keeps, SameStates
<1>3. /\ HandleRequestEarlyRedemption(d, c, p) = d
         \/ \E table : HandleRequestEarlyRedemption(d, c, p) = [d EXCEPT !.requests = table]
      /\ HandleEarlyRedemptionProcessed(d, c, p) = d
         \/ \E table : HandleEarlyRedemptionProcessed(d, c, p) = [d EXCEPT !.requests = table]
      /\ \E table : HandleEarlyRedemptionCancelled(d, c, p) = [d EXCEPT !.requests = table]
  BY DEF HandleRequestEarlyRedemption, HandleEarlyRedemptionProcessed, HandleEarlyRedemptionCancelled
<1> QED BY <1>1, <1>2, <1>3

\* A row of a vault is replaced by one with the same state.
LEMMA RowWritten ==
  ASSUME NEW d, Shaped(d), NEW c \in DOMAIN d.vaults, NEW row, "state" \in DOMAIN row,
         row.state = d.vaults[c].state
  PROVE  Framed(Followed, d, [d EXCEPT !.vaults[c] = row])
BY DEF Framed, Keeps, SameStates, Shaped, Tables, Followed

\* Deposits and withdrawals write a position and the row of the vault.
BothWritten(d, c, table, row) == [[d EXCEPT !.positions = table] EXCEPT !.vaults[c] = row]
LEMMA PositionsWritten ==
  ASSUME NEW d, Shaped(d), NEW c, NEW p
  PROVE  /\ Framed(Followed \ {"positions"}, d, HandleDeposit(d, c, p))
         /\ Framed(Followed \ {"positions"}, d, HandleWithdraw(d, c, p))
<1> DEFINE Rest == Followed \ {"positions"}
<1>1. ASSUME NEW e, NEW f, Framed(Rest, d, e), Framed(Followed, e, f)
      PROVE  Framed(Rest, d, f)
  <2>1. Framed(Rest, e, f) BY <1>1, Narrower
  <2> QED BY <1>1, <2>1, Transitive
<1>2. ASSUME NEW table
      PROVE  Framed(Rest, d, [d EXCEPT !.positions = table])
  BY DEF Framed, Keeps, SameStates, Shaped, Tables, Followed
<1>3. Framed(Rest, d, d)
  BY DEF Framed, Keeps, SameStates
<1>4. ASSUME c \in DOMAIN d.vaults, NEW table, NEW row, "state" \in DOMAIN row,
             row.state = d.vaults[c].state
      PROVE  Framed(Rest, d, RecordTvlSnapshot(BothWritten(d, c, table, row), c))
  <2> DEFINE held == [d EXCEPT !.positions = table]
             moved == [held EXCEPT !.vaults[c] = row]
  <2>1. Framed(Rest, d, held) BY <1>2
  <2>2. Shaped(held) /\ c \in DOMAIN held.vaults /\ row.state = held.vaults[c].state
    BY <1>4, <2>1 DEF Framed, Shaped, Tables
  <2> HIDE DEF held
  <2>3. Framed(Followed, held, moved) BY <1>4, <2>2, RowWritten
  <2>4. Framed(Rest, d, moved) BY <1>1, <2>1, <2>3
  <2>5. Shaped(moved) BY <2>4 DEF Framed
  <2> HIDE DEF moved
  <2>6. Framed(Followed, moved, RecordTvlSnapshot(moved, c)) BY <2>5, TvlRecorded
  <2>7. Framed(Rest, d, RecordTvlSnapshot(moved, c)) BY <1>1, <2>4, <2>6
  <2> QED BY <2>7 DEF moved, held, BothWritten
<1>5. Framed(Rest, d, HandleDeposit(d, c, p))
  <2> DEFINE key == <<p.receiver, c>>
             old == IF key \in DOMAIN d.positions THEN d.positions[key]
                    ELSE [shares |-> 0, deposited |-> 0, lastClaimed |-> 0, entered |-> 0, exited |-> 0]
             new == [old EXCEPT !.shares = @ + p.shares, !.deposited = @ + p.assets,
                                !.entered = IF @ = 0 THEN d.now ELSE @, !.exited = 0]
             table == Upsert(d.positions, key, new)
             grown == [d.vaults[c] EXCEPT !.totalAssets = @ + p.assets, !.minted = @ + p.shares]
             both == BothWritten(d, c, table, grown)
  <2>1. CASE c \notin DOMAIN d.vaults BY <1>3, <2>1 DEF HandleDeposit, Known
  <2>2. CASE c \in DOMAIN d.vaults
    <3>1. HandleDeposit(d, c, p) = RecordTvlSnapshot(both, c)
      BY <2>2 DEF HandleDeposit, UpdateVault, Known, Shaped, Tables, BothWritten
    <3>2. "state" \in DOMAIN grown /\ grown.state = d.vaults[c].state BY <2>2 DEF Shaped
    <3> HIDE DEF grown, table
    <3>3. Framed(Rest, d, RecordTvlSnapshot(both, c)) BY <1>4, <2>2, <3>2
    <3> QED BY <3>1, <3>3
  <2> QED BY <2>1, <2>2
<1>6. Framed(Rest, d, HandleWithdraw(d, c, p))
  <2> DEFINE key == <<p.owner, c>>
             old == IF key \in DOMAIN d.positions THEN d.positions[key]
                    ELSE [shares |-> 0, deposited |-> 0, lastClaimed |-> 0, entered |-> 0, exited |-> 0]
             new == [old EXCEPT !.shares = Lower(@, p.shares), !.deposited = Lower(@, p.assets),
                                !.exited = IF old.shares <= p.shares THEN d.now ELSE 0]
             table == Upsert(d.positions, key, new)
             shrunk == [d.vaults[c] EXCEPT !.burned = @ + p.shares]
             both == BothWritten(d, c, table, shrunk)
  <2>3. ASSUME NEW e, Shaped(e)
        PROVE  Framed(Followed, e, RefreshSettlementStatus(e, c))
    <3> DEFINE row == [e.vaults[c] EXCEPT !.settlement = IF e.vaults[c].totalSupply = 0 THEN "complete" ELSE "in_progress"]
    <3>1. \/ RefreshSettlementStatus(e, c) = e
          \/ c \in DOMAIN e.vaults /\ RefreshSettlementStatus(e, c) = [e EXCEPT !.vaults[c] = row]
          \/ c \in DOMAIN e.vaults /\ RefreshSettlementStatus(e, c) = [e EXCEPT !.vaults[c] = e.vaults[c]]
      BY DEF RefreshSettlementStatus, UpdateVault, Known
    <3>2. c \in DOMAIN e.vaults => "state" \in DOMAIN row /\ row.state = e.vaults[c].state
      BY <2>3 DEF Shaped
    <3>3. c \in DOMAIN e.vaults => "state" \in DOMAIN e.vaults[c] BY <2>3 DEF Shaped
    <3> HIDE DEF row
    <3> QED BY <2>3, <3>1, <3>2, <3>3, RowWritten, NothingWritten
  <2>4. ASSUME NEW e, Framed(Rest, d, e) PROVE Framed(Rest, d, RefreshSettlementStatus(e, c))
    <3>1. Shaped(e) BY <2>4 DEF Framed
    <3> QED BY <1>1, <2>3, <2>4, <3>1
  <2>1. CASE c \notin DOMAIN d.vaults BY <1>3, <2>1 DEF HandleWithdraw, Known
  <2>2. CASE c \in DOMAIN d.vaults
    <3>1. HandleWithdraw(d, c, p) = RefreshSettlementStatus(RecordTvlSnapshot(both, c), c)
      BY <2>2 DEF HandleWithdraw, UpdateVault, Known, Shaped, Tables, BothWritten
    <3>2. "state" \in DOMAIN shrunk /\ shrunk.state = d.vaults[c].state BY <2>2 DEF Shaped
    <3> HIDE DEF shrunk, table
    <3>3. Framed(Rest, d, RecordTvlSnapshot(both, c)) BY <1>4, <2>2, <3>2
    <3> QED BY <2>4, <3>1, <3>3
  <2> QED BY <2>1, <2>2
<1> QED BY <1>5, <1>6

\* A snapshot that is there keeps its shares.
Kept(d, e) ==
  \A s \in DOMAIN d.snapshots : /\ s \in DOMAIN e.snapshots
                                /\ e.snapshots[s].shares = d.snapshots[s].shares

LEMMA KeptOn ==
  ASSUME NEW d, NEW e, NEW f, Kept(d, e), Kept(e, f)
  PROVE  Kept(d, f)
BY DEF Kept

LEMMA YieldDistributed ==
  ASSUME NEW d, Shaped(d), NEW c, NEW p
  PROVE  /\ Framed(Followed \ {"snapshots", "epochs"}, d, HandleYieldDistributed(d, c, p))
         /\ Kept(d, HandleYieldDistributed(d, c, p))
<1> DEFINE Rest == Followed \ {"snapshots", "epochs"}
           e == RecordTvlSnapshot(d, c)
           taken == [s \in {<<c, k[1], p.epoch>> : k \in
                              {k \in DOMAIN d.positions : k[2] = c /\ d.positions[k].shares > 0}} |->
                       [shares |-> d.positions[<<s[2], c>>].shares, claimed |-> 0]]
           epoch == [k \in {<<c, p.epoch>>} |-> [yield |-> p.amount, closed |-> FALSE, closedAt |-> 0,
                                                  at |-> d.now, shares |-> d.vaults[c].totalSupply]]
           f == [e EXCEPT !.epochs = Joined(@, epoch), !.snapshots = Joined(@, taken)]
<1>1. CASE ~Known(d, c) BY <1>1 DEF HandleYieldDistributed, Framed, Keeps, SameStates, Kept
<1>2. CASE Known(d, c)
  <2>1. HandleYieldDistributed(d, c, p) = f BY <1>2 DEF HandleYieldDistributed
  <2>2. Framed(Followed, d, e) BY TvlRecorded
  <2>3. \A s \in DOMAIN taken : DOMAIN taken[s] = {"shares", "claimed"} OBVIOUS
  <2>4. Shaped(e) BY <2>2 DEF Framed
  <2>5. e.snapshots = d.snapshots BY <2>2 DEF Framed, Keeps, Followed
  <2> HIDE DEF taken, epoch, e
  <2>6. /\ f.snapshots = Joined(e.snapshots, taken) /\ f.vaults = e.vaults /\ DOMAIN f = Tables
        /\ \A t \in Rest : f[t] = e[t]
    BY <2>4 DEF Shaped, Tables, Followed
  <2> HIDE DEF f
  <2>7. /\ DOMAIN f.snapshots = DOMAIN e.snapshots \cup DOMAIN taken
        /\ \A s \in DOMAIN f.snapshots :
             f.snapshots[s] = IF s \in DOMAIN e.snapshots THEN e.snapshots[s] ELSE taken[s]
    BY <2>6 DEF Joined
  <2>8. Shaped(f) BY <2>3, <2>4, <2>6, <2>7 DEF Shaped
  <2>9. Framed(Rest, d, f)
    BY <2>2, <2>6, <2>8 DEF Framed, Keeps, SameStates
  <2>10. Kept(d, f) BY <2>5, <2>7 DEF Kept
  <2> QED BY <2>1, <2>9, <2>10
<1> QED BY <1>1, <1>2

LEMMA YieldClaimed ==
  ASSUME NEW d, Shaped(d), NEW c, NEW p
  PROVE  /\ Framed(Followed \ {"snapshots", "positions", "epochs"}, d, HandleYieldClaimed(d, c, p))
         /\ Kept(d, HandleYieldClaimed(d, c, p))
<1> DEFINE Rest == Followed \ {"snapshots", "positions", "epochs"}
           snap == <<c, p.user, p.epoch>>
           key == <<p.user, c>>
           row == IF snap \in DOMAIN d.snapshots THEN d.snapshots[snap]
                  ELSE [shares |-> 0, claimed |-> 0]
           new == [row EXCEPT !.claimed = @ + p.amount]
           snaps == Upsert(d.snapshots, snap, new)
           poss == IF key \in DOMAIN d.positions
                   THEN [d.positions EXCEPT ![key].lastClaimed = IF @ > p.epoch THEN @ ELSE p.epoch]
                   ELSE d.positions
           e == [d EXCEPT !.snapshots = snaps, !.positions = poss]
           f == CloseEpochIfFullyClaimed(e, c, p.epoch)
<1>1. CASE ~Known(d, c) BY <1>1 DEF HandleYieldClaimed, Framed, Keeps, SameStates, Kept
<1>2. CASE Known(d, c)
  <2>1. HandleYieldClaimed(d, c, p) = f BY <1>2 DEF HandleYieldClaimed
  <2>2. DOMAIN row = {"shares", "claimed"} BY DEF Shaped
  <2>3. DOMAIN new = {"shares", "claimed"} /\ new.shares = row.shares BY <2>2
  <2>4. row = IF snap \in DOMAIN d.snapshots THEN d.snapshots[snap] ELSE [shares |-> 0, claimed |-> 0]
    OBVIOUS
  <2> HIDE DEF row, new, snap, poss, key
  <2>5. /\ DOMAIN snaps = DOMAIN d.snapshots \cup {snap}
        /\ \A s \in DOMAIN snaps : snaps[s] = IF s = snap THEN new ELSE d.snapshots[s]
    BY DEF Upsert
  <2>6. e.snapshots = snaps /\ e.vaults = d.vaults /\ DOMAIN e = Tables /\ \A t \in Rest : e[t] = d[t]
    BY DEF Shaped, Tables, Followed
  <2> HIDE DEF e, snaps
  <2>7. \/ f = e
        \/ \E epochs : f = [e EXCEPT !.epochs = epochs]
    <3> DEFINE k == <<c, p.epoch>>
               epochs == [[e.epochs EXCEPT ![k].closed = TRUE] EXCEPT ![k].closedAt = e.now]
    <3>1. f \in {e, [[e EXCEPT !.epochs[k].closed = TRUE] EXCEPT !.epochs[k].closedAt = e.now]}
      BY DEF CloseEpochIfFullyClaimed
    <3>2. [[e EXCEPT !.epochs[k].closed = TRUE] EXCEPT !.epochs[k].closedAt = e.now]
            = [e EXCEPT !.epochs = epochs]
      BY <2>6 DEF Tables
    <3> HIDE DEF f, epochs
    <3> QED BY <3>1, <3>2
  <2>8. /\ f.snapshots = snaps /\ f.vaults = d.vaults /\ DOMAIN f = Tables
        /\ \A t \in Rest : f[t] = d[t]
    BY <2>6, <2>7 DEF Tables, Followed
  <2> HIDE DEF f
  <2>9. Shaped(f) BY <2>3, <2>5, <2>8 DEF Shaped
  <2>10. Framed(Rest, d, f) BY <2>8, <2>9 DEF Framed, Keeps, SameStates
  <2>11. Kept(d, f) BY <2>3, <2>4, <2>5, <2>8 DEF Kept
  <2> QED BY <2>1, <2>10, <2>11
<1> QED BY <1>1, <1>2

LEMMA FramedKept ==
  ASSUME NEW tables, "snapshots" \in tables, NEW d, NEW e, Framed(tables, d, e)
  PROVE  Shaped(e) /\ Kept(d, e)
<1>1. e["snapshots"] = d["snapshots"] BY DEF Framed, Keeps
<1> QED BY <1>1 DEF Framed, Kept

LEMMA StateKept ==
  ASSUME NEW d, NEW e, NEW c, NEW word, StateWritten(d, e, c, word)
  PROVE  Shaped(e) /\ Kept(d, e)
BY DEF StateWritten, Keeps, Followed, Kept

\* The handler of a distribution runs twice, around the log.
LEMMA DistributionLogged ==
  ASSUME NEW d, Shaped(d), NEW ev, NEW p, NEW c
  PROVE  LET e == HandleYieldDistributed(RecordEvent(HandleYieldDistributed(d, c, p), ev, p), c, p)
         IN  Framed(Followed \ {"snapshots", "epochs", "log"}, d, e) /\ Kept(d, e)
<1> DEFINE Rest == Followed \ {"snapshots", "epochs", "log"}
           e == HandleYieldDistributed(d, c, p)
           f == RecordEvent(e, ev, p)
           g == HandleYieldDistributed(f, c, p)
<1>1. Framed(Rest, d, e) /\ Kept(d, e) BY YieldDistributed, Narrower
<1>2. Shaped(e) BY <1>1 DEF Framed
<1> HIDE DEF e
<1>3. Framed(Followed \ {"log"}, e, f) BY <1>2, EventRecorded
<1>4. Framed(Rest, e, f) BY <1>3, Narrower
<1>5. Shaped(f) /\ Kept(e, f) BY <1>3, FramedKept DEF Followed
<1> HIDE DEF f
<1>6. Framed(Rest, f, g) /\ Kept(f, g) BY <1>5, YieldDistributed, Narrower
<1>7. Framed(Rest, d, g) BY <1>1, <1>4, <1>6, Transitive
<1>8. Kept(d, g) BY <1>1, <1>5, <1>6, KeptOn
<1> QED BY <1>7, <1>8 DEF e, f

\* Which handler a loud type goes to.
LEMMA LoudHandled ==
  ASSUME NEW d, NEW ev, NEW p
  PROVE  LET c == ev.contract
             e == Handled(d, ev, p)
         IN  /\ p.type = "deposit" => e = HandleDeposit(d, c, p)
             /\ p.type = "withdraw" => e = HandleWithdraw(d, c, p)
             /\ p.type = "yield_distributed" =>
                  e = HandleYieldDistributed(RecordEvent(HandleYieldDistributed(d, c, p), ev, p), c, p)
             /\ p.type = "cancel_funding" => e = HandleCancelFunding(d, c)
             /\ p.type = "vault_state_changed" => e = HandleVaultStateChanged(d, c, p)
             /\ p.type = "vault_created" => e = HandleVaultCreated(d, c, p)
             /\ p.type = "operator_added" => e = HandleOperatorAdded(d, c, p)
             /\ p.type = "operator_removed" => e = HandleOperatorRemoved(d, c, p)
             /\ p.type = "role_granted" => e = HandleRoleGranted(d, c, p)
             /\ p.type = "role_revoked" => e = HandleRoleRevoked(d, c, p)
             /\ p.type = "request_early_redemption" => e = HandleRequestEarlyRedemption(d, c, p)
             /\ p.type \in {"yield_claimed", "yield_claimed_partial"} => e = HandleYieldClaimed(d, c, p)
             /\ p.type = "early_redemption_processed" => e = HandleEarlyRedemptionProcessed(d, c, p)
             /\ p.type = "early_redemption_cancelled" => e = HandleEarlyRedemptionCancelled(d, c, p)
BY DEF Handled, HandledSettings, HandledVault, HandledMoney

LEMMA HandledKept ==
  ASSUME NEW d, Shaped(d), NEW ev, NEW p
  PROVE  Shaped(Handled(d, ev, p)) /\ Kept(d, Handled(d, ev, p))
<1> DEFINE c == ev.contract
           e == Handled(d, ev, p)
           Goal == Shaped(e) /\ Kept(d, e)
<1>1. CASE p.type \notin Loud
  <2>1. Framed(Followed, d, e) BY <1>1, Quiet
  <2> QED BY <2>1, FramedKept DEF Followed
<1>2. CASE p.type \in {"deposit", "withdraw"}
  <2>1. Framed(Followed \ {"positions"}, d, e) BY <1>2, LoudHandled, PositionsWritten
  <2> QED BY <2>1, FramedKept DEF Followed
<1>3. CASE p.type = "yield_distributed"
  <2>1. Framed(Followed \ {"snapshots", "epochs", "log"}, d, e) /\ Kept(d, e) BY <1>3, LoudHandled, DistributionLogged
  <2> QED BY <2>1 DEF Framed
<1>4. CASE p.type \in {"yield_claimed", "yield_claimed_partial"}
  <2>1. Framed(Followed \ {"snapshots", "positions", "epochs"}, d, e) /\ Kept(d, e)
    BY <1>4, LoudHandled, YieldClaimed
  <2> QED BY <2>1 DEF Framed
<1>5. CASE p.type = "cancel_funding"
  <2>1. StateWritten(d, e, c, "Cancelled") BY <1>5, LoudHandled, FundingCancelled
  <2> QED BY <2>1, StateKept
<1>6. CASE p.type = "vault_created"
  <2>1. StateWritten(d, e, p.vault, "Funding") BY <1>6, LoudHandled, VaultCreated
  <2> QED BY <2>1, StateKept
<1>7. CASE p.type = "vault_state_changed"
  <2>1. e = HandleVaultStateChanged(d, c, p) BY <1>7, LoudHandled
  <2>2. CASE Known(d, c) /\ p.newState # NoWord
    <3>1. StateWritten(d, e, c, p.newState) BY <2>1, <2>2, StateChanged DEF Known
    <3> QED BY <3>1, StateKept
  <2>3. CASE ~Known(d, c) \/ p.newState = NoWord
    <3>1. e = d BY <2>1, <2>3, StateChanged DEF Known
    <3> QED BY <3>1 DEF Kept
  <2> QED BY <2>2, <2>3 DEF Known
<1>8. CASE p.type \in {"operator_added", "operator_removed"}
  <2>1. Framed(Followed \ {"operators"}, d, e) BY <1>8, LoudHandled, StaffWritten
  <2> QED BY <2>1, FramedKept DEF Followed
<1>9. CASE p.type \in {"role_granted", "role_revoked"}
  <2>1. Framed(Followed \ {"roles"}, d, e) BY <1>9, LoudHandled, StaffWritten
  <2> QED BY <2>1, FramedKept DEF Followed
<1>10. CASE p.type \in {"request_early_redemption", "early_redemption_processed",
                        "early_redemption_cancelled"}
  <2>1. Framed(Followed \ {"requests"}, d, e) BY <1>10, LoudHandled, RequestsWritten
  <2> QED BY <2>1, FramedKept DEF Followed
<1> HIDE DEF Goal
<1>11. Goal BY <1>1, <1>2, <1>3, <1>4, <1>5, <1>6, <1>7, <1>8, <1>9, <1>10 DEF Loud, Goal
<1> QED BY <1>11 DEF Goal

\* What a handler leaves alone: the clock and the reports, the log unless it
\* tells of a distribution, the epochs unless it tells of one or of a claim.
LEMMA HandledAside ==
  ASSUME NEW d, Shaped(d), NEW ev, NEW p
  PROVE  LET e == Handled(d, ev, p)
         IN  /\ Shaped(e) /\ e.now = d.now /\ e.reports = d.reports
             /\ p.type # "yield_distributed" => e.log = d.log
             /\ p.type # "yield_distributed" /\ ~IsClaim(p.type) => e.epochs = d.epochs
<1> DEFINE c == ev.contract
           e == Handled(d, ev, p)
           Calm(a) == a["now"] = d["now"] /\ a["reports"] = d["reports"]
           Unlogged(a) == a["log"] = d["log"]
           Unopened(a) == a["epochs"] = d["epochs"]
           Goal == /\ Calm(e) /\ (p.type # "yield_distributed" => Unlogged(e))
                   /\ (p.type # "yield_distributed" /\ ~IsClaim(p.type) => Unopened(e))
<1> SUFFICES Goal
  <2>1. Shaped(e) BY HandledKept
  <2> QED BY <2>1
<1>1. ASSUME NEW tables, NEW a, {"now", "reports"} \subseteq tables, Framed(tables, d, a)
      PROVE  /\ Calm(a) /\ ("log" \in tables => Unlogged(a)) /\ ("epochs" \in tables => Unopened(a))
  BY <1>1 DEF Framed, Keeps
<1>2. ASSUME NEW a, NEW x, NEW word, StateWritten(d, a, x, word)
      PROVE  Calm(a) /\ Unlogged(a) /\ Unopened(a)
  BY <1>2 DEF StateWritten, Keeps, Followed
<1>3. CASE p.type \notin Loud
  <2>1. Framed(Followed, d, e) BY <1>3, Quiet
  <2> QED BY <1>1, <2>1 DEF Followed
<1>4. CASE p.type \in {"deposit", "withdraw"}
  <2>1. Framed(Followed \ {"positions"}, d, e) BY <1>4, LoudHandled, PositionsWritten
  <2> QED BY <1>1, <2>1 DEF Followed
<1>5. CASE p.type = "yield_distributed"
  <2>1. Framed(Followed \ {"snapshots", "epochs", "log"}, d, e) BY <1>5, LoudHandled, DistributionLogged
  <2> QED BY <1>1, <1>5, <2>1 DEF Followed
<1>6. CASE p.type \in {"yield_claimed", "yield_claimed_partial"}
  <2>1. Framed(Followed \ {"snapshots", "positions", "epochs"}, d, e) BY <1>6, LoudHandled, YieldClaimed
  <2> QED BY <1>1, <1>6, <2>1 DEF Followed, IsClaim
<1>7. CASE p.type = "cancel_funding"
  <2>1. StateWritten(d, e, c, "Cancelled") BY <1>7, LoudHandled, FundingCancelled
  <2> QED BY <1>2, <2>1
<1>8. CASE p.type = "vault_created"
  <2>1. StateWritten(d, e, p.vault, "Funding") BY <1>8, LoudHandled, VaultCreated
  <2> QED BY <1>2, <2>1
<1>9. CASE p.type = "vault_state_changed"
  <2>1. e = HandleVaultStateChanged(d, c, p) BY <1>9, LoudHandled
  <2>2. CASE Known(d, c) /\ p.newState # NoWord
    <3>1. StateWritten(d, e, c, p.newState) BY <2>1, <2>2, StateChanged DEF Known
    <3> QED BY <1>2, <3>1
  <2>3. CASE ~Known(d, c) \/ p.newState = NoWord
    <3>1. e = d BY <2>1, <2>3, StateChanged DEF Known
    <3> QED BY <3>1
  <2> QED BY <2>2, <2>3 DEF Known
<1>10. CASE p.type \in {"operator_added", "operator_removed"}
  <2>1. Framed(Followed \ {"operators"}, d, e) BY <1>10, LoudHandled, StaffWritten
  <2> QED BY <1>1, <2>1 DEF Followed
<1>11. CASE p.type \in {"role_granted", "role_revoked"}
  <2>1. Framed(Followed \ {"roles"}, d, e) BY <1>11, LoudHandled, StaffWritten
  <2> QED BY <1>1, <2>1 DEF Followed
<1>12. CASE p.type \in {"request_early_redemption", "early_redemption_processed",
                        "early_redemption_cancelled"}
  <2>1. Framed(Followed \ {"requests"}, d, e) BY <1>12, LoudHandled, RequestsWritten
  <2> QED BY <1>1, <2>1 DEF Followed
<1> HIDE DEF Goal
<1> QED BY <1>3, <1>4, <1>5, <1>6, <1>7, <1>8, <1>9, <1>10, <1>11, <1>12 DEF Loud

\* What happens to an event around its handler.
LEMMA IndexedAround ==
  ASSUME NEW d, Shaped(d), NEW ev
  PROVE  LET here == NotBefore(d, ev.ledger)
         IN  /\ Framed(Still, d, here)
             /\ Parsed(ev) = None => Framed(Still, d, Indexed(d, ev))
             /\ Parsed(ev) # None /\ Shaped(Handled(here, ev, Parsed(ev))) =>
                  Framed(Still, Handled(here, ev, Parsed(ev)), Indexed(d, ev))
<1> DEFINE here == NotBefore(d, ev.ledger)
           p == Parsed(ev)
<1>1. Framed(Still, d, here) BY LedgerNoted, Narrower DEF Still
<1>2. Shaped(here) BY <1>1 DEF Framed
<1>3. CASE p = None
  <2>1. Indexed(d, ev) \in {here, StoreDeadLetter(here, ev)} BY <1>3 DEF Indexed
  <2> HIDE DEF here
  <2>2. Framed(Still, here, StoreDeadLetter(here, ev))
    BY <1>2, OtherWritten, Narrower DEF StoreDeadLetter, Tables, Followed, Still
  <2>3. Framed(Still, here, here) BY <1>2, NothingWritten, Narrower DEF Still
  <2>4. Framed(Still, d, Indexed(d, ev)) BY <1>1, <2>1, <2>2, <2>3, Transitive
  <2> QED BY <1>1, <1>3, <2>4 DEF here
<1>4. CASE p # None
  <2>1. Indexed(d, ev) = RecordEvent(Handled(here, ev, p), ev, p) BY <1>4 DEF Indexed
  <2> HIDE DEF here, p
  <2>2. Shaped(Handled(here, ev, p)) => Framed(Still, Handled(here, ev, p), Indexed(d, ev))
    BY <2>1, EventRecorded, Narrower DEF Still
  <2> QED BY <1>1, <1>4, <2>2 DEF here, p
<1> QED BY <1>3, <1>4

LEMMA IndexedKept ==
  ASSUME NEW d, Shaped(d), NEW ev
  PROVE  Shaped(Indexed(d, ev)) /\ Kept(d, Indexed(d, ev))
<1> DEFINE here == NotBefore(d, ev.ledger)
           p == Parsed(ev)
           e == Handled(here, ev, p)
           f == Indexed(d, ev)
<1>1. Framed(Still, d, here) BY IndexedAround
<1>2. Shaped(here) /\ Kept(d, here) BY <1>1, FramedKept DEF Followed, Still
<1>3. CASE p = None
  <2>1. Framed(Still, d, f) BY <1>3, IndexedAround
  <2> QED BY <2>1, FramedKept DEF Followed, Still
<1>4. CASE p # None
  <2>1. Shaped(e) /\ Kept(here, e) BY <1>2, HandledKept
  <2>2. Framed(Still, e, f) BY <1>4, <2>1, IndexedAround
  <2>3. Shaped(f) /\ Kept(e, f) BY <2>2, FramedKept DEF Followed, Still
  <2> QED BY <1>2, <2>1, <2>3, KeptOn
<1> QED BY <1>3, <1>4

-----------------------------------------------------------------------------
(* Steps that write tables without an event *)

LEMMA ReportsQuiet ==
  ASSUME NEW d, Shaped(d), NEW c, NEW year
  PROVE  /\ Framed(Followed \ {"reports"}, d, CacheAnnualReport(d, c, year))
         /\ Framed(Followed \ {"reports"}, d, GenerateVaultReports(d))
<1>1. ASSUME NEW table
      PROVE  Framed(Followed \ {"reports"}, d, [d EXCEPT !.reports = table])
  BY DEF Framed, Keeps, SameStates, Shaped, Tables, Followed
<1>2. Framed(Followed \ {"reports"}, d, CacheAnnualReport(d, c, year))
  BY <1>1, NothingWritten, Narrower DEF CacheAnnualReport
<1>3. Framed(Followed \ {"reports"}, d, GenerateVaultReports(d))
  BY <1>1 DEF GenerateVaultReports
<1> QED BY <1>2, <1>3

LEMMA ListingQuiet ==
  ASSUME NEW d, Shaped(d), NEW c, NEW flag, NEW rank
  PROVE  /\ Framed(Followed, d, ToggleVaultUnlisted(d, c, flag).db)
         /\ Framed(Followed, d, SetVaultFeaturedRank(d, c, rank).db)
<1> DEFINE unlisted == Column(d, c, "unlisted", flag)
           featured == Column(d, c, "featured", rank)
<1>1. Framed(Followed, d, unlisted) /\ Framed(Followed, d, featured) /\ Framed(Followed, d, d)
  BY ColumnWritten, NothingWritten
<1>2. ToggleVaultUnlisted(d, c, flag).db \in {d, unlisted}
  BY DEF ToggleVaultUnlisted, Switched, UpdateVault, Known, Column
<1>3. SetVaultFeaturedRank(d, c, rank).db \in {d, featured}
  BY DEF SetVaultFeaturedRank, Switched, UpdateVault, Known, Column
<1> HIDE DEF unlisted, featured
<1> QED BY <1>1, <1>2, <1>3

\* The steps, by what they do to the tables.
Emits ==
  \/ Create \/ Distribute \/ ProcessRedemption \/ CancelRedemption
  \/ \E u \in Users : Deposit(u) \/ Withdraw(u) \/ Claim(u) \/ RequestRedemption(u)
  \/ \E u, w \in Users : Transfer(u, w)
  \/ \E s \in {"Active", "Matured", "Closed"} : ChangeState(s)
  \/ CancelFunding \/ Other
  \/ \E on \in BOOLEAN : SetOperator(on) \/ SetRole(on)
Tends == AskForReport \/ GenerateReports \/ SwitchListing

LEMMA StepsOf ==
  ASSUME Next
  PROVE  Emits \/ Tends \/ Deliver \/ Rewind \/ Resync
BY DEF Next, Emits, Tends

StillTables == UNCHANGED <<at, passes, db, mix>> /\ CaughtUp
LEMMA EmitsQuiet ==
  ASSUME Emits
  PROVE  StillTables
<1>2. CASE Create BY <1>2 DEF Create, Emit, StillTables
<1>3. CASE Distribute BY <1>3 DEF Distribute, Emit, StillTables
<1>4. CASE ProcessRedemption BY <1>4 DEF ProcessRedemption, Emit, StillTables
<1>5. CASE CancelRedemption BY <1>5 DEF CancelRedemption, Emit, StillTables
<1>6. CASE \E u \in Users : Deposit(u) BY <1>6 DEF Deposit, Emit, StillTables
<1>7. CASE \E u \in Users : Withdraw(u) BY <1>7 DEF Withdraw, Emit, StillTables
<1>8. CASE \E u \in Users : Claim(u) BY <1>8 DEF Claim, Emit, StillTables
<1>9. CASE \E u \in Users : RequestRedemption(u) BY <1>9 DEF RequestRedemption, Emit, StillTables
<1>10. CASE \E u, w \in Users : Transfer(u, w) BY <1>10 DEF Transfer, Emit, StillTables
<1>11. CASE \E s \in {"Active", "Matured", "Closed"} : ChangeState(s) BY <1>11 DEF ChangeState, Emit, StillTables
<1>12. CASE CancelFunding BY <1>12 DEF CancelFunding, Emit, StillTables
<1>13. CASE Other BY <1>13 DEF Other, Emit, StillTables
<1>14. CASE \E on \in BOOLEAN : SetOperator(on) BY <1>14 DEF SetOperator, Emit, StillTables
<1>15. CASE \E on \in BOOLEAN : SetRole(on) BY <1>15 DEF SetRole, Emit, StillTables
<1> QED BY <1>2, <1>3, <1>4, <1>5, <1>6, <1>7, <1>8, <1>9, <1>10, <1>11, <1>12, <1>13, <1>14, <1>15 DEF Emits

LEMMA TendsQuiet ==
  ASSUME Shaped(db), Tends
  PROVE  Framed(Followed \ {"reports"}, db, db') /\ UNCHANGED <<chain, history, at, passes, mix>>
<1>1. CASE AskForReport BY <1>1, ReportsQuiet DEF AskForReport
<1>2. CASE GenerateReports BY <1>2, ReportsQuiet DEF GenerateReports
<1>3. CASE SwitchListing BY <1>3, ListingQuiet, Narrower DEF SwitchListing
<1> QED BY <1>1, <1>2, <1>3 DEF Tends

-----------------------------------------------------------------------------
(* A snapshot keeps its shares *)

LEMMA ShapedInitially ==
  ASSUME Init
  PROVE  Shaped(db)
<1>1. Shaped(EmptyDatabase) BY DEF Shaped, Tables, EmptyDatabase
<1>2. Shaped(Neighbours)
  <2>1. DOMAIN Neighbours = Tables BY DEF Neighbours, EmptyDatabase, Tables
  <2>2. \A c \in DOMAIN Neighbours.vaults : "state" \in DOMAIN Neighbours.vaults[c]
    BY DEF Neighbours, EmptyDatabase, NewVault
  <2>3. Neighbours.snapshots = <<>> BY DEF Neighbours, EmptyDatabase
  <2> HIDE DEF Neighbours
  <2> QED BY <2>1, <2>2, <2>3 DEF Shaped
<1> QED BY <1>1, <1>2 DEF Init

LEMMA StepKeeps ==
  ASSUME Shaped(db), [Next]_vars
  PROVE  Shaped(db)' /\ Kept(db, db')
<1>1. CASE Emits
  <2>1. db' = db BY <1>1, EmitsQuiet DEF StillTables
  <2> QED BY <2>1 DEF Shaped, Kept
<1>2. CASE Tends
  <2>1. Framed(Followed \ {"reports"}, db, db') BY <1>2, TendsQuiet
  <2> QED BY <2>1, FramedKept DEF Followed, Shaped
<1>3. CASE Deliver
  <2>1. Shaped(db') /\ Kept(db, db') BY <1>3, IndexedKept DEF Deliver
  <2> QED BY <2>1 DEF Shaped
<1>4. CASE Resync
  <2> DEFINE new == [Defaults EXCEPT !.totalAssets = Supply, !.totalSupply = Supply]
  <2>1. db' = UpsertVault(db, Vault, new) BY <1>4 DEF Resync
  <2> HIDE DEF new
  <2>2. Shaped(db') /\ Kept(db, db') BY <2>1, VaultUpserted, StateKept
  <2> QED BY <2>2 DEF Shaped
<1>5. CASE Rewind \/ UNCHANGED vars
  <2>1. db' = db BY <1>5 DEF Rewind, vars
  <2> QED BY <2>1 DEF Shaped, Kept
<1> QED BY <1>1, <1>2, <1>3, <1>4, <1>5, StepsOf

\* However often a part of the history is delivered again, resynchronised or
\* read, a snapshot once taken keeps its shares (handleYieldDistributed).
THEOREM SnapshotsNeverRetaken == Spec => SnapshotsFixed
<1>1. Init => Shaped(db) BY ShapedInitially
<1>2. Shaped(db) /\ [Next]_vars => Shaped(db)' BY StepKeeps
<1>3. Shaped(db) /\ [Next]_vars =>
        [\A s \in DOMAIN db.snapshots :
           s \in DOMAIN db'.snapshots /\ db'.snapshots[s].shares = db.snapshots[s].shares]_vars
  BY StepKeeps DEF Kept
<1> QED BY <1>1, <1>2, <1>3, PTL DEF Spec, SnapshotsFixed

-----------------------------------------------------------------------------
(* What the parsers read *)

\* The names the parsers read, and the types they give, in the order of the parsers.
NamesRead ==
  << {"deposit"}, {"withdraw"}, {"yield_dis"}, {"epoch_finalized", "epoch_fin"},
     {"fund_cxl", "funding_cancelled", "cancel_funding"}, {"st_chg", "vault_state_changed"},
     {"v_create", "vault_created"}, {"v_rem", "vault_removed"}, {"op_add"}, {"op_rem"},
     {"role_grt"}, {"role_rvk"}, {"erq_req", "request_early_redemption"}, {"yield_clm"},
     {"prt_yld"}, {"erq_done", "early_redemption_processed"},
     {"erq_can", "erq_can2", "early_redemption_cancelled"}, {"fee_upd", "operator_fee_updated"},
     {"pause_reason_set"}, {"redemption_queue_updated"}, {"minimum_deposit_updated"},
     {"zkme_upd"}, {"adm_xfr", "admin_transferred"}, {"def_upd", "defaults_updated"},
     {"wasm_upd", "wasm_hash_updated"}, {"kyc_set"}, {"paused", "v_pause"},
     {"unpaused", "v_unpause"}, {"rwa_upd", "rwa_details_updated"},
     {"vault_name_updated", "v_name_upd"}, {"whitelist_updated"},
     {"v_status", "vault_status_changed"}, {"vault_manager_changed", "mgr_chg"}, {"transfer"},
     {"transfer_fee_collected", "xfr_fee", "transfer_fee"} >>
TypesGiven ==
  << "deposit", "withdraw", "yield_distributed", "epoch_finalized", "cancel_funding",
     "vault_state_changed", "vault_created", "vault_removed", "operator_added",
     "operator_removed", "role_granted", "role_revoked", "request_early_redemption",
     "yield_claimed", "yield_claimed_partial", "early_redemption_processed",
     "early_redemption_cancelled", "operator_fee_updated", "pause_reason_set",
     "redemption_queue_updated", "minimum_deposit_updated", "zkme_upd", "adm_xfr", "def_upd",
     "wasm_upd", "kyc_set", "paused", "unpaused", "rwa_details_updated", "vault_name_updated",
     "whitelist_updated", "vault_status_changed", "vault_manager_changed", "transfer",
     "transfer_fee_collected" >>

LEMMA ParserReads ==
  ASSUME NEW ev, NEW i \in 1..35, Parses(ev)[i] # None
  PROVE  ev.name \in NamesRead[i] /\ Parses(ev)[i].type = TypesGiven[i]
<1> DEFINE Read(k) == Parses(ev)[k] # None =>
                       ev.name \in NamesRead[k] /\ Parses(ev)[k].type = TypesGiven[k]
<1>1. Read(1)
  <2>1. Parses(ev)[1] = ParseDepositEvent(ev) BY DEF Parses
  <2>2. NamesRead[1] = {"deposit"} /\ TypesGiven[1] = "deposit" BY DEF NamesRead, TypesGiven
  <2>3. ParseDepositEvent(ev) # None => ev.name \in {"deposit"} /\ ParseDepositEvent(ev).type = "deposit"
    BY DEF ParseDepositEvent, Reads
  <2> QED BY <2>1, <2>2, <2>3
<1>2. Read(2)
  <2>1. Parses(ev)[2] = ParseWithdrawEvent(ev) BY DEF Parses
  <2>2. NamesRead[2] = {"withdraw"} /\ TypesGiven[2] = "withdraw" BY DEF NamesRead, TypesGiven
  <2>3. ParseWithdrawEvent(ev) # None => ev.name \in {"withdraw"} /\ ParseWithdrawEvent(ev).type = "withdraw"
    BY DEF ParseWithdrawEvent, Reads
  <2> QED BY <2>1, <2>2, <2>3
<1>3. Read(3)
  <2>1. Parses(ev)[3] = ParseYieldDistributedEvent(ev) BY DEF Parses
  <2>2. NamesRead[3] = {"yield_dis"} /\ TypesGiven[3] = "yield_distributed" BY DEF NamesRead, TypesGiven
  <2>3. ParseYieldDistributedEvent(ev) # None => ev.name \in {"yield_dis"} /\ ParseYieldDistributedEvent(ev).type = "yield_distributed"
    BY DEF ParseYieldDistributedEvent, Reads
  <2> QED BY <2>1, <2>2, <2>3
<1>4. Read(4)
  <2>1. Parses(ev)[4] = ParseEpochFinalizedEvent(ev) BY DEF Parses
  <2>2. NamesRead[4] = {"epoch_finalized", "epoch_fin"} /\ TypesGiven[4] = "epoch_finalized" BY DEF NamesRead, TypesGiven
  <2>3. ParseEpochFinalizedEvent(ev) # None => ev.name \in {"epoch_finalized", "epoch_fin"} /\ ParseEpochFinalizedEvent(ev).type = "epoch_finalized"
    BY DEF ParseEpochFinalizedEvent, Reads
  <2> QED BY <2>1, <2>2, <2>3
<1>5. Read(5)
  <2>1. Parses(ev)[5] = ParseCancelFundingEvent(ev) BY DEF Parses
  <2>2. NamesRead[5] = {"fund_cxl", "funding_cancelled", "cancel_funding"} /\ TypesGiven[5] = "cancel_funding" BY DEF NamesRead, TypesGiven
  <2>3. ParseCancelFundingEvent(ev) # None => ev.name \in {"fund_cxl", "funding_cancelled", "cancel_funding"} /\ ParseCancelFundingEvent(ev).type = "cancel_funding"
    BY DEF ParseCancelFundingEvent, HasParts
  <2> QED BY <2>1, <2>2, <2>3
<1>6. Read(6)
  <2>1. Parses(ev)[6] = ParseVaultStateChangedEvent(ev) BY DEF Parses
  <2>2. NamesRead[6] = {"st_chg", "vault_state_changed"} /\ TypesGiven[6] = "vault_state_changed" BY DEF NamesRead, TypesGiven
  <2>3. ParseVaultStateChangedEvent(ev) # None => ev.name \in {"st_chg", "vault_state_changed"}
    BY Zenon DEF ParseVaultStateChangedEvent, HasParts
  <2>4. ParseVaultStateChangedEvent(ev) # None => ParseVaultStateChangedEvent(ev).type = "vault_state_changed"
    BY Zenon DEF ParseVaultStateChangedEvent
  <2> QED BY <2>1, <2>2, <2>3, <2>4
<1>7. Read(7)
  <2>1. Parses(ev)[7] = ParseVaultCreatedEvent(ev) BY DEF Parses
  <2>2. NamesRead[7] = {"v_create", "vault_created"} /\ TypesGiven[7] = "vault_created" BY DEF NamesRead, TypesGiven
  <2>3. ParseVaultCreatedEvent(ev) # None => ev.name \in {"v_create", "vault_created"}
    BY Zenon DEF ParseVaultCreatedEvent, HasParts
  <2>4. ParseVaultCreatedEvent(ev) # None => ParseVaultCreatedEvent(ev).type = "vault_created"
    BY Zenon DEF ParseVaultCreatedEvent
  <2> QED BY <2>1, <2>2, <2>3, <2>4
<1>8. Read(8)
  <2>1. Parses(ev)[8] = ParseVaultRemovedEvent(ev) BY DEF Parses
  <2>2. NamesRead[8] = {"v_rem", "vault_removed"} /\ TypesGiven[8] = "vault_removed" BY DEF NamesRead, TypesGiven
  <2>3. ParseVaultRemovedEvent(ev) # None => ev.name \in {"v_rem", "vault_removed"} /\ ParseVaultRemovedEvent(ev).type = "vault_removed"
    BY DEF ParseVaultRemovedEvent
  <2> QED BY <2>1, <2>2, <2>3
<1>9. Read(9)
  <2>1. Parses(ev)[9] = ParseOperatorAddedEvent(ev) BY DEF Parses
  <2>2. NamesRead[9] = {"op_add"} /\ TypesGiven[9] = "operator_added" BY DEF NamesRead, TypesGiven
  <2>3. ParseOperatorAddedEvent(ev) # None => ev.name \in {"op_add"} /\ ParseOperatorAddedEvent(ev).type = "operator_added"
    BY DEF ParseOperatorAddedEvent, Reads
  <2> QED BY <2>1, <2>2, <2>3
<1>10. Read(10)
  <2>1. Parses(ev)[10] = ParseOperatorRemovedEvent(ev) BY DEF Parses
  <2>2. NamesRead[10] = {"op_rem"} /\ TypesGiven[10] = "operator_removed" BY DEF NamesRead, TypesGiven
  <2>3. ParseOperatorRemovedEvent(ev) # None => ev.name \in {"op_rem"} /\ ParseOperatorRemovedEvent(ev).type = "operator_removed"
    BY DEF ParseOperatorRemovedEvent, Reads
  <2> QED BY <2>1, <2>2, <2>3
<1>11. Read(11)
  <2>1. Parses(ev)[11] = ParseRoleGrantedEvent(ev) BY DEF Parses
  <2>2. NamesRead[11] = {"role_grt"} /\ TypesGiven[11] = "role_granted" BY DEF NamesRead, TypesGiven
  <2>3. ParseRoleGrantedEvent(ev) # None => ev.name \in {"role_grt"}
    BY Zenon DEF ParseRoleGrantedEvent, Reads
  <2>4. ParseRoleGrantedEvent(ev) # None => ParseRoleGrantedEvent(ev).type = "role_granted"
    BY Zenon DEF ParseRoleGrantedEvent
  <2> QED BY <2>1, <2>2, <2>3, <2>4
<1>12. Read(12)
  <2>1. Parses(ev)[12] = ParseRoleRevokedEvent(ev) BY DEF Parses
  <2>2. NamesRead[12] = {"role_rvk"} /\ TypesGiven[12] = "role_revoked" BY DEF NamesRead, TypesGiven
  <2>3. ParseRoleRevokedEvent(ev) # None => ev.name \in {"role_rvk"}
    BY Zenon DEF ParseRoleRevokedEvent, Reads
  <2>4. ParseRoleRevokedEvent(ev) # None => ParseRoleRevokedEvent(ev).type = "role_revoked"
    BY Zenon DEF ParseRoleRevokedEvent
  <2> QED BY <2>1, <2>2, <2>3, <2>4
<1>13. Read(13)
  <2>1. Parses(ev)[13] = ParseRequestEarlyRedemptionEvent(ev) BY DEF Parses
  <2>2. NamesRead[13] = {"erq_req", "request_early_redemption"} /\ TypesGiven[13] = "request_early_redemption" BY DEF NamesRead, TypesGiven
  <2>3. ParseRequestEarlyRedemptionEvent(ev) # None => ev.name \in {"erq_req", "request_early_redemption"} /\ ParseRequestEarlyRedemptionEvent(ev).type = "request_early_redemption"
    BY DEF ParseRequestEarlyRedemptionEvent, Reads
  <2> QED BY <2>1, <2>2, <2>3
<1>14. Read(14)
  <2>1. Parses(ev)[14] = ParseYieldClaimedEvent(ev) BY DEF Parses
  <2>2. NamesRead[14] = {"yield_clm"} /\ TypesGiven[14] = "yield_claimed" BY DEF NamesRead, TypesGiven
  <2>3. ParseYieldClaimedEvent(ev) # None => ev.name \in {"yield_clm"} /\ ParseYieldClaimedEvent(ev).type = "yield_claimed"
    BY DEF ParseYieldClaimedEvent, Reads
  <2> QED BY <2>1, <2>2, <2>3
<1>15. Read(15)
  <2>1. Parses(ev)[15] = ParseYieldClaimedPartialEvent(ev) BY DEF Parses
  <2>2. NamesRead[15] = {"prt_yld"} /\ TypesGiven[15] = "yield_claimed_partial" BY DEF NamesRead, TypesGiven
  <2>3. ParseYieldClaimedPartialEvent(ev) # None => ev.name \in {"prt_yld"} /\ ParseYieldClaimedPartialEvent(ev).type = "yield_claimed_partial"
    BY DEF ParseYieldClaimedPartialEvent, Reads
  <2> QED BY <2>1, <2>2, <2>3
<1>16. Read(16)
  <2>1. Parses(ev)[16] = ParseEarlyRedemptionProcessedEvent(ev) BY DEF Parses
  <2>2. NamesRead[16] = {"erq_done", "early_redemption_processed"} /\ TypesGiven[16] = "early_redemption_processed" BY DEF NamesRead, TypesGiven
  <2>3. ParseEarlyRedemptionProcessedEvent(ev) # None => ev.name \in {"erq_done", "early_redemption_processed"} /\ ParseEarlyRedemptionProcessedEvent(ev).type = "early_redemption_processed"
    BY DEF ParseEarlyRedemptionProcessedEvent, Reads
  <2> QED BY <2>1, <2>2, <2>3
<1>17. Read(17)
  <2>1. Parses(ev)[17] = ParseEarlyRedemptionCancelledEvent(ev) BY DEF Parses
  <2>2. NamesRead[17] = {"erq_can", "erq_can2", "early_redemption_cancelled"} /\ TypesGiven[17] = "early_redemption_cancelled" BY DEF NamesRead, TypesGiven
  <2>3. ParseEarlyRedemptionCancelledEvent(ev) # None => ev.name \in {"erq_can", "erq_can2", "early_redemption_cancelled"} /\ ParseEarlyRedemptionCancelledEvent(ev).type = "early_redemption_cancelled"
    BY DEF ParseEarlyRedemptionCancelledEvent, Reads
  <2> QED BY <2>1, <2>2, <2>3
<1>18. Read(18)
  <2>1. Parses(ev)[18] = ParseOperatorFeeUpdatedEvent(ev) BY DEF Parses
  <2>2. NamesRead[18] = {"fee_upd", "operator_fee_updated"} /\ TypesGiven[18] = "operator_fee_updated" BY DEF NamesRead, TypesGiven
  <2>3. ParseOperatorFeeUpdatedEvent(ev) # None => ev.name \in {"fee_upd", "operator_fee_updated"} /\ ParseOperatorFeeUpdatedEvent(ev).type = "operator_fee_updated"
    BY DEF ParseOperatorFeeUpdatedEvent, Reads
  <2> QED BY <2>1, <2>2, <2>3
<1>19. Read(19)
  <2>1. Parses(ev)[19] = ParsePauseReasonSetEvent(ev) BY DEF Parses
  <2>2. NamesRead[19] = {"pause_reason_set"} /\ TypesGiven[19] = "pause_reason_set" BY DEF NamesRead, TypesGiven
  <2>3. ParsePauseReasonSetEvent(ev) # None => ev.name \in {"pause_reason_set"}
    BY Zenon DEF ParsePauseReasonSetEvent, Reads
  <2>4. ParsePauseReasonSetEvent(ev) # None => ParsePauseReasonSetEvent(ev).type = "pause_reason_set"
    BY Zenon DEF ParsePauseReasonSetEvent
  <2> QED BY <2>1, <2>2, <2>3, <2>4
<1>20. Read(20)
  <2>1. Parses(ev)[20] = ParseRedemptionQueueUpdatedEvent(ev) BY DEF Parses
  <2>2. NamesRead[20] = {"redemption_queue_updated"} /\ TypesGiven[20] = "redemption_queue_updated" BY DEF NamesRead, TypesGiven
  <2>3. ParseRedemptionQueueUpdatedEvent(ev) # None => ev.name \in {"redemption_queue_updated"}
    BY Zenon DEF ParseRedemptionQueueUpdatedEvent, Reads
  <2>4. ParseRedemptionQueueUpdatedEvent(ev) # None => ParseRedemptionQueueUpdatedEvent(ev).type = "redemption_queue_updated"
    BY Zenon DEF ParseRedemptionQueueUpdatedEvent
  <2> QED BY <2>1, <2>2, <2>3, <2>4
<1>21. Read(21)
  <2>1. Parses(ev)[21] = ParseMinimumDepositUpdatedEvent(ev) BY DEF Parses
  <2>2. NamesRead[21] = {"minimum_deposit_updated"} /\ TypesGiven[21] = "minimum_deposit_updated" BY DEF NamesRead, TypesGiven
  <2>3. ParseMinimumDepositUpdatedEvent(ev) # None => ev.name \in {"minimum_deposit_updated"} /\ ParseMinimumDepositUpdatedEvent(ev).type = "minimum_deposit_updated"
    BY DEF ParseMinimumDepositUpdatedEvent, Reads
  <2> QED BY <2>1, <2>2, <2>3
<1>22. Read(22)
  <2>1. Parses(ev)[22] = ParseZkmeVerifierUpdatedEvent(ev) BY DEF Parses
  <2>2. NamesRead[22] = {"zkme_upd"} /\ TypesGiven[22] = "zkme_upd" BY DEF NamesRead, TypesGiven
  <2>3. ParseZkmeVerifierUpdatedEvent(ev) # None => ev.name \in {"zkme_upd"}
    BY Zenon DEF ParseZkmeVerifierUpdatedEvent, Reads
  <2>4. ParseZkmeVerifierUpdatedEvent(ev) # None => ParseZkmeVerifierUpdatedEvent(ev).type = "zkme_upd"
    BY Zenon DEF ParseZkmeVerifierUpdatedEvent
  <2> QED BY <2>1, <2>2, <2>3, <2>4
<1>23. Read(23)
  <2>1. Parses(ev)[23] = ParseAdminTransferredEvent(ev) BY DEF Parses
  <2>2. NamesRead[23] = {"adm_xfr", "admin_transferred"} /\ TypesGiven[23] = "adm_xfr" BY DEF NamesRead, TypesGiven
  <2>3. ParseAdminTransferredEvent(ev) # None => ev.name \in {"adm_xfr", "admin_transferred"}
    BY Zenon DEF ParseAdminTransferredEvent, Reads
  <2>4. ParseAdminTransferredEvent(ev) # None => ParseAdminTransferredEvent(ev).type = "adm_xfr"
    BY Zenon DEF ParseAdminTransferredEvent
  <2> QED BY <2>1, <2>2, <2>3, <2>4
<1>24. Read(24)
  <2>1. Parses(ev)[24] = ParseDefaultsUpdatedEvent(ev) BY DEF Parses
  <2>2. NamesRead[24] = {"def_upd", "defaults_updated"} /\ TypesGiven[24] = "def_upd" BY DEF NamesRead, TypesGiven
  <2>3. ParseDefaultsUpdatedEvent(ev) # None => ev.name \in {"def_upd", "defaults_updated"} /\ ParseDefaultsUpdatedEvent(ev).type = "def_upd"
    BY DEF ParseDefaultsUpdatedEvent, Reads
  <2> QED BY <2>1, <2>2, <2>3
<1>25. Read(25)
  <2>1. Parses(ev)[25] = ParseWasmHashUpdatedEvent(ev) BY DEF Parses
  <2>2. NamesRead[25] = {"wasm_upd", "wasm_hash_updated"} /\ TypesGiven[25] = "wasm_upd" BY DEF NamesRead, TypesGiven
  <2>3. ParseWasmHashUpdatedEvent(ev) # None => ev.name \in {"wasm_upd", "wasm_hash_updated"}
    BY Zenon DEF ParseWasmHashUpdatedEvent, Reads
  <2>4. ParseWasmHashUpdatedEvent(ev) # None => ParseWasmHashUpdatedEvent(ev).type = "wasm_upd"
    BY Zenon DEF ParseWasmHashUpdatedEvent
  <2> QED BY <2>1, <2>2, <2>3, <2>4
<1>26. Read(26)
  <2>1. Parses(ev)[26] = ParseKycSetEvent(ev) BY DEF Parses
  <2>2. NamesRead[26] = {"kyc_set"} /\ TypesGiven[26] = "kyc_set" BY DEF NamesRead, TypesGiven
  <2>3. ParseKycSetEvent(ev) # None => ev.name \in {"kyc_set"} /\ ParseKycSetEvent(ev).type = "kyc_set"
    BY DEF ParseKycSetEvent, Reads
  <2> QED BY <2>1, <2>2, <2>3
<1>27. Read(27)
  <2>1. Parses(ev)[27] = ParsePausedEvent(ev) BY DEF Parses
  <2>2. NamesRead[27] = {"paused", "v_pause"} /\ TypesGiven[27] = "paused" BY DEF NamesRead, TypesGiven
  <2>3. ParsePausedEvent(ev) # None => ev.name \in {"paused", "v_pause"} /\ ParsePausedEvent(ev).type = "paused"
    BY DEF ParsePausedEvent, HasParts
  <2> QED BY <2>1, <2>2, <2>3
<1>28. Read(28)
  <2>1. Parses(ev)[28] = ParseUnpausedEvent(ev) BY DEF Parses
  <2>2. NamesRead[28] = {"unpaused", "v_unpause"} /\ TypesGiven[28] = "unpaused" BY DEF NamesRead, TypesGiven
  <2>3. ParseUnpausedEvent(ev) # None => ev.name \in {"unpaused", "v_unpause"} /\ ParseUnpausedEvent(ev).type = "unpaused"
    BY DEF ParseUnpausedEvent, HasParts
  <2> QED BY <2>1, <2>2, <2>3
<1>29. Read(29)
  <2>1. Parses(ev)[29] = ParseMetadataUpdatedEvent(ev) BY DEF Parses
  <2>2. NamesRead[29] = {"rwa_upd", "rwa_details_updated"} /\ TypesGiven[29] = "rwa_details_updated" BY DEF NamesRead, TypesGiven
  <2>3. ParseMetadataUpdatedEvent(ev) # None => ev.name \in {"rwa_upd", "rwa_details_updated"} /\ ParseMetadataUpdatedEvent(ev).type = "rwa_details_updated"
    BY DEF ParseMetadataUpdatedEvent, HasParts
  <2> QED BY <2>1, <2>2, <2>3
<1>30. Read(30)
  <2>1. Parses(ev)[30] = ParseVaultNameUpdatedEvent(ev) BY DEF Parses
  <2>2. NamesRead[30] = {"vault_name_updated", "v_name_upd"} /\ TypesGiven[30] = "vault_name_updated" BY DEF NamesRead, TypesGiven
  <2>3. ParseVaultNameUpdatedEvent(ev) # None => ev.name \in {"vault_name_updated", "v_name_upd"}
    BY Zenon DEF ParseVaultNameUpdatedEvent, Reads
  <2>4. ParseVaultNameUpdatedEvent(ev) # None => ParseVaultNameUpdatedEvent(ev).type = "vault_name_updated"
    BY Zenon DEF ParseVaultNameUpdatedEvent
  <2> QED BY <2>1, <2>2, <2>3, <2>4
<1>31. Read(31)
  <2>1. Parses(ev)[31] = ParseWhitelistUpdatedEvent(ev) BY DEF Parses
  <2>2. NamesRead[31] = {"whitelist_updated"} /\ TypesGiven[31] = "whitelist_updated" BY DEF NamesRead, TypesGiven
  <2>3. ParseWhitelistUpdatedEvent(ev) # None => ev.name \in {"whitelist_updated"}
    BY Zenon DEF ParseWhitelistUpdatedEvent, Reads
  <2>4. ParseWhitelistUpdatedEvent(ev) # None => ParseWhitelistUpdatedEvent(ev).type = "whitelist_updated"
    BY Zenon DEF ParseWhitelistUpdatedEvent
  <2> QED BY <2>1, <2>2, <2>3, <2>4
<1>32. Read(32)
  <2>1. Parses(ev)[32] = ParseVaultStatusChangedEvent(ev) BY DEF Parses
  <2>2. NamesRead[32] = {"v_status", "vault_status_changed"} /\ TypesGiven[32] = "vault_status_changed" BY DEF NamesRead, TypesGiven
  <2>3. ParseVaultStatusChangedEvent(ev) # None => ev.name \in {"v_status", "vault_status_changed"}
    BY Zenon DEF ParseVaultStatusChangedEvent, Reads
  <2>4. ParseVaultStatusChangedEvent(ev) # None => ParseVaultStatusChangedEvent(ev).type = "vault_status_changed"
    BY Zenon DEF ParseVaultStatusChangedEvent
  <2> QED BY <2>1, <2>2, <2>3, <2>4
<1>33. Read(33)
  <2>1. Parses(ev)[33] = ParseVaultManagerChangedEvent(ev) BY DEF Parses
  <2>2. NamesRead[33] = {"vault_manager_changed", "mgr_chg"} /\ TypesGiven[33] = "vault_manager_changed" BY DEF NamesRead, TypesGiven
  <2>3. ParseVaultManagerChangedEvent(ev) # None => ev.name \in {"vault_manager_changed", "mgr_chg"}
    BY Zenon DEF ParseVaultManagerChangedEvent, Reads
  <2>4. ParseVaultManagerChangedEvent(ev) # None => ParseVaultManagerChangedEvent(ev).type = "vault_manager_changed"
    BY Zenon DEF ParseVaultManagerChangedEvent
  <2> QED BY <2>1, <2>2, <2>3, <2>4
<1>34. Read(34)
  <2>1. Parses(ev)[34] = ParseTransferEvent(ev) BY DEF Parses
  <2>2. NamesRead[34] = {"transfer"} /\ TypesGiven[34] = "transfer" BY DEF NamesRead, TypesGiven
  <2>3. ParseTransferEvent(ev) # None => ev.name \in {"transfer"}
    BY Zenon DEF ParseTransferEvent, Reads
  <2>4. ParseTransferEvent(ev) # None => ParseTransferEvent(ev).type = "transfer"
    BY Zenon DEF ParseTransferEvent
  <2> QED BY <2>1, <2>2, <2>3, <2>4
<1>35. Read(35)
  <2>1. Parses(ev)[35] = ParseTransferFeeCollectedEvent(ev) BY DEF Parses
  <2>2. NamesRead[35] = {"transfer_fee_collected", "xfr_fee", "transfer_fee"} /\ TypesGiven[35] = "transfer_fee_collected" BY DEF NamesRead, TypesGiven
  <2>3. ParseTransferFeeCollectedEvent(ev) # None => ev.name \in {"transfer_fee_collected", "xfr_fee", "transfer_fee"} /\ ParseTransferFeeCollectedEvent(ev).type = "transfer_fee_collected"
    BY DEF ParseTransferFeeCollectedEvent, Reads
  <2> QED BY <2>1, <2>2, <2>3
<1> HIDE DEF Read
<1>36. \/ i = 1 \/ i = 2 \/ i = 3 \/ i = 4 \/ i = 5 \/ i = 6 \/ i = 7 \/ i = 8 \/ i = 9 \/ i = 10 \/ i = 11 \/ i = 12 \/ i = 13 \/ i = 14 \/ i = 15 \/ i = 16 \/ i = 17 \/ i = 18
       \/ i = 19 \/ i = 20 \/ i = 21 \/ i = 22 \/ i = 23 \/ i = 24 \/ i = 25 \/ i = 26 \/ i = 27 \/ i = 28 \/ i = 29 \/ i = 30 \/ i = 31 \/ i = 32 \/ i = 33 \/ i = 34 \/ i = 35
  OBVIOUS
<1>37. Read(i)
  BY <1>1, <1>2, <1>3, <1>4, <1>5, <1>6, <1>7, <1>8, <1>9, <1>10, <1>11, <1>12, <1>13, <1>14,
     <1>15, <1>16, <1>17, <1>18, <1>19, <1>20, <1>21, <1>22, <1>23, <1>24, <1>25, <1>26, <1>27,
     <1>28, <1>29, <1>30, <1>31, <1>32, <1>33, <1>34, <1>35, <1>36
<1> QED BY <1>37 DEF Read

LEMMA Enumerated ==
  ASSUME NEW i \in 1..35
  PROVE  \/ i = 1 \/ i = 2 \/ i = 3 \/ i = 4 \/ i = 5 \/ i = 6 \/ i = 7 \/ i = 8 \/ i = 9
         \/ i = 10 \/ i = 11 \/ i = 12 \/ i = 13 \/ i = 14 \/ i = 15 \/ i = 16 \/ i = 17
         \/ i = 18 \/ i = 19 \/ i = 20 \/ i = 21 \/ i = 22 \/ i = 23 \/ i = 24 \/ i = 25
         \/ i = 26 \/ i = 27 \/ i = 28 \/ i = 29 \/ i = 30 \/ i = 31 \/ i = 32 \/ i = 33
         \/ i = 34 \/ i = 35
OBVIOUS

\* The only parser of a name decides; a name without one is not read.
LEMMA OnlyParser ==
  ASSUME NEW ev, NEW i \in 1..35, \A j \in 1..35 : ev.name \in NamesRead[j] => j = i
  PROVE  Parsed(ev) = Parses(ev)[i]
<1> DEFINE tried == Parses(ev)
           hits == {j \in DOMAIN tried : tried[j] # None}
<1>1. DOMAIN tried = 1..35 BY DEF Parses
<1>2. hits \subseteq {i} BY <1>1, ParserReads
<1>3. Parsed(ev) = IF hits = {} THEN None ELSE tried[CHOOSE j \in hits : \A k \in hits : j <= k]
  BY DEF Parsed
<1>4. i \in hits \/ tried[i] = None BY <1>1
<1> HIDE DEF tried
<1>5. CASE hits = {} BY <1>3, <1>4, <1>5 DEF tried
<1>6. CASE hits = {i}
  <2>1. \A j \in hits : j = i BY <1>6
  <2>2. i \in hits /\ \A k \in hits : i <= k BY <1>6
  <2> HIDE DEF hits
  <2>3. (CHOOSE j \in hits : \A k \in hits : j <= k) = i BY <2>1, <2>2
  <2> QED BY <1>3, <2>2, <2>3 DEF tried
<1> QED BY <1>2, <1>5, <1>6

LEMMA NoParser ==
  ASSUME NEW ev, \A j \in 1..35 : ev.name \notin NamesRead[j]
  PROVE  Parsed(ev) = None
<1> DEFINE tried == Parses(ev)
           hits == {j \in DOMAIN tried : tried[j] # None}
<1>1. DOMAIN tried = 1..35 BY DEF Parses
<1>2. hits = {} BY <1>1, ParserReads
<1> QED BY <1>2 DEF Parsed

\* The names the contracts use.
LoudNames == {"deposit", "withdraw", "yield_dis", "fund_cxl", "st_chg", "v_create", "op_add",
              "op_rem", "role_grt", "role_rvk", "erq_req", "yield_clm", "prt_yld", "erq_done",
              "erq_can"}
QuietNames == {"transfer", "zkme_upd", "adm_xfr", "def_upd", "wasm_upd", "v_status", "rwa_upd",
               "burn", "fee_set"}

ReadAs(ev, p, type) == Parsed(ev) = p /\ (p = None \/ p.type = type)
LEMMA LoudRead ==
  ASSUME NEW ev
  PROVE
    /\ ev.name = "deposit" => ReadAs(ev, ParseDepositEvent(ev), "deposit")
    /\ ev.name = "withdraw" => ReadAs(ev, ParseWithdrawEvent(ev), "withdraw")
    /\ ev.name = "yield_dis" => ReadAs(ev, ParseYieldDistributedEvent(ev), "yield_distributed")
    /\ ev.name = "fund_cxl" => ReadAs(ev, ParseCancelFundingEvent(ev), "cancel_funding")
    /\ ev.name = "st_chg" => ReadAs(ev, ParseVaultStateChangedEvent(ev), "vault_state_changed")
    /\ ev.name = "v_create" => ReadAs(ev, ParseVaultCreatedEvent(ev), "vault_created")
    /\ ev.name = "op_add" => ReadAs(ev, ParseOperatorAddedEvent(ev), "operator_added")
    /\ ev.name = "op_rem" => ReadAs(ev, ParseOperatorRemovedEvent(ev), "operator_removed")
    /\ ev.name = "role_grt" => ReadAs(ev, ParseRoleGrantedEvent(ev), "role_granted")
    /\ ev.name = "role_rvk" => ReadAs(ev, ParseRoleRevokedEvent(ev), "role_revoked")
    /\ ev.name = "erq_req" => ReadAs(ev, ParseRequestEarlyRedemptionEvent(ev), "request_early_redemption")
    /\ ev.name = "yield_clm" => ReadAs(ev, ParseYieldClaimedEvent(ev), "yield_claimed")
    /\ ev.name = "prt_yld" => ReadAs(ev, ParseYieldClaimedPartialEvent(ev), "yield_claimed_partial")
    /\ ev.name = "erq_done" => ReadAs(ev, ParseEarlyRedemptionProcessedEvent(ev), "early_redemption_processed")
    /\ ev.name = "erq_can" => ReadAs(ev, ParseEarlyRedemptionCancelledEvent(ev), "early_redemption_cancelled")
<1>1. ev.name = "deposit" => ReadAs(ev, ParseDepositEvent(ev), "deposit")
  <2>1. \A j \in 1..35 : "deposit" \in NamesRead[j] => j = 1 BY Enumerated DEF NamesRead
  <2>2. Parses(ev)[1] = ParseDepositEvent(ev) BY DEF Parses
  <2>3. TypesGiven[1] = "deposit" BY DEF TypesGiven
  <2> QED BY <2>1, <2>2, <2>3, OnlyParser, ParserReads DEF ReadAs
<1>2. ev.name = "withdraw" => ReadAs(ev, ParseWithdrawEvent(ev), "withdraw")
  <2>1. \A j \in 1..35 : "withdraw" \in NamesRead[j] => j = 2 BY Enumerated DEF NamesRead
  <2>2. Parses(ev)[2] = ParseWithdrawEvent(ev) BY DEF Parses
  <2>3. TypesGiven[2] = "withdraw" BY DEF TypesGiven
  <2> QED BY <2>1, <2>2, <2>3, OnlyParser, ParserReads DEF ReadAs
<1>3. ev.name = "yield_dis" => ReadAs(ev, ParseYieldDistributedEvent(ev), "yield_distributed")
  <2>1. \A j \in 1..35 : "yield_dis" \in NamesRead[j] => j = 3 BY Enumerated DEF NamesRead
  <2>2. Parses(ev)[3] = ParseYieldDistributedEvent(ev) BY DEF Parses
  <2>3. TypesGiven[3] = "yield_distributed" BY DEF TypesGiven
  <2> QED BY <2>1, <2>2, <2>3, OnlyParser, ParserReads DEF ReadAs
<1>4. ev.name = "fund_cxl" => ReadAs(ev, ParseCancelFundingEvent(ev), "cancel_funding")
  <2>1. \A j \in 1..35 : "fund_cxl" \in NamesRead[j] => j = 5 BY Enumerated DEF NamesRead
  <2>2. Parses(ev)[5] = ParseCancelFundingEvent(ev) BY DEF Parses
  <2>3. TypesGiven[5] = "cancel_funding" BY DEF TypesGiven
  <2> QED BY <2>1, <2>2, <2>3, OnlyParser, ParserReads DEF ReadAs
<1>5. ev.name = "st_chg" => ReadAs(ev, ParseVaultStateChangedEvent(ev), "vault_state_changed")
  <2>1. \A j \in 1..35 : "st_chg" \in NamesRead[j] => j = 6 BY Enumerated DEF NamesRead
  <2>2. Parses(ev)[6] = ParseVaultStateChangedEvent(ev) BY DEF Parses
  <2>3. TypesGiven[6] = "vault_state_changed" BY DEF TypesGiven
  <2> QED BY <2>1, <2>2, <2>3, OnlyParser, ParserReads DEF ReadAs
<1>6. ev.name = "v_create" => ReadAs(ev, ParseVaultCreatedEvent(ev), "vault_created")
  <2>1. \A j \in 1..35 : "v_create" \in NamesRead[j] => j = 7 BY Enumerated DEF NamesRead
  <2>2. Parses(ev)[7] = ParseVaultCreatedEvent(ev) BY DEF Parses
  <2>3. TypesGiven[7] = "vault_created" BY DEF TypesGiven
  <2> QED BY <2>1, <2>2, <2>3, OnlyParser, ParserReads DEF ReadAs
<1>7. ev.name = "op_add" => ReadAs(ev, ParseOperatorAddedEvent(ev), "operator_added")
  <2>1. \A j \in 1..35 : "op_add" \in NamesRead[j] => j = 9 BY Enumerated DEF NamesRead
  <2>2. Parses(ev)[9] = ParseOperatorAddedEvent(ev) BY DEF Parses
  <2>3. TypesGiven[9] = "operator_added" BY DEF TypesGiven
  <2> QED BY <2>1, <2>2, <2>3, OnlyParser, ParserReads DEF ReadAs
<1>8. ev.name = "op_rem" => ReadAs(ev, ParseOperatorRemovedEvent(ev), "operator_removed")
  <2>1. \A j \in 1..35 : "op_rem" \in NamesRead[j] => j = 10 BY Enumerated DEF NamesRead
  <2>2. Parses(ev)[10] = ParseOperatorRemovedEvent(ev) BY DEF Parses
  <2>3. TypesGiven[10] = "operator_removed" BY DEF TypesGiven
  <2> QED BY <2>1, <2>2, <2>3, OnlyParser, ParserReads DEF ReadAs
<1>9. ev.name = "role_grt" => ReadAs(ev, ParseRoleGrantedEvent(ev), "role_granted")
  <2>1. \A j \in 1..35 : "role_grt" \in NamesRead[j] => j = 11 BY Enumerated DEF NamesRead
  <2>2. Parses(ev)[11] = ParseRoleGrantedEvent(ev) BY DEF Parses
  <2>3. TypesGiven[11] = "role_granted" BY DEF TypesGiven
  <2> QED BY <2>1, <2>2, <2>3, OnlyParser, ParserReads DEF ReadAs
<1>10. ev.name = "role_rvk" => ReadAs(ev, ParseRoleRevokedEvent(ev), "role_revoked")
  <2>1. \A j \in 1..35 : "role_rvk" \in NamesRead[j] => j = 12 BY Enumerated DEF NamesRead
  <2>2. Parses(ev)[12] = ParseRoleRevokedEvent(ev) BY DEF Parses
  <2>3. TypesGiven[12] = "role_revoked" BY DEF TypesGiven
  <2> QED BY <2>1, <2>2, <2>3, OnlyParser, ParserReads DEF ReadAs
<1>11. ev.name = "erq_req" => ReadAs(ev, ParseRequestEarlyRedemptionEvent(ev), "request_early_redemption")
  <2>1. \A j \in 1..35 : "erq_req" \in NamesRead[j] => j = 13 BY Enumerated DEF NamesRead
  <2>2. Parses(ev)[13] = ParseRequestEarlyRedemptionEvent(ev) BY DEF Parses
  <2>3. TypesGiven[13] = "request_early_redemption" BY DEF TypesGiven
  <2> QED BY <2>1, <2>2, <2>3, OnlyParser, ParserReads DEF ReadAs
<1>12. ev.name = "yield_clm" => ReadAs(ev, ParseYieldClaimedEvent(ev), "yield_claimed")
  <2>1. \A j \in 1..35 : "yield_clm" \in NamesRead[j] => j = 14 BY Enumerated DEF NamesRead
  <2>2. Parses(ev)[14] = ParseYieldClaimedEvent(ev) BY DEF Parses
  <2>3. TypesGiven[14] = "yield_claimed" BY DEF TypesGiven
  <2> QED BY <2>1, <2>2, <2>3, OnlyParser, ParserReads DEF ReadAs
<1>13. ev.name = "prt_yld" => ReadAs(ev, ParseYieldClaimedPartialEvent(ev), "yield_claimed_partial")
  <2>1. \A j \in 1..35 : "prt_yld" \in NamesRead[j] => j = 15 BY Enumerated DEF NamesRead
  <2>2. Parses(ev)[15] = ParseYieldClaimedPartialEvent(ev) BY DEF Parses
  <2>3. TypesGiven[15] = "yield_claimed_partial" BY DEF TypesGiven
  <2> QED BY <2>1, <2>2, <2>3, OnlyParser, ParserReads DEF ReadAs
<1>14. ev.name = "erq_done" => ReadAs(ev, ParseEarlyRedemptionProcessedEvent(ev), "early_redemption_processed")
  <2>1. \A j \in 1..35 : "erq_done" \in NamesRead[j] => j = 16 BY Enumerated DEF NamesRead
  <2>2. Parses(ev)[16] = ParseEarlyRedemptionProcessedEvent(ev) BY DEF Parses
  <2>3. TypesGiven[16] = "early_redemption_processed" BY DEF TypesGiven
  <2> QED BY <2>1, <2>2, <2>3, OnlyParser, ParserReads DEF ReadAs
<1>15. ev.name = "erq_can" => ReadAs(ev, ParseEarlyRedemptionCancelledEvent(ev), "early_redemption_cancelled")
  <2>1. \A j \in 1..35 : "erq_can" \in NamesRead[j] => j = 17 BY Enumerated DEF NamesRead
  <2>2. Parses(ev)[17] = ParseEarlyRedemptionCancelledEvent(ev) BY DEF Parses
  <2>3. TypesGiven[17] = "early_redemption_cancelled" BY DEF TypesGiven
  <2> QED BY <2>1, <2>2, <2>3, OnlyParser, ParserReads DEF ReadAs
<1> QED BY <1>1, <1>2, <1>3, <1>4, <1>5, <1>6, <1>7, <1>8, <1>9, <1>10, <1>11, <1>12, <1>13, <1>14, <1>15

LEMMA QuietRead ==
  ASSUME NEW ev, ev.name \in QuietNames
  PROVE  Parsed(ev) = None \/ Parsed(ev).type \notin Loud
<1> DEFINE Goal == Parsed(ev) = None \/ Parsed(ev).type \notin Loud
<1>1. ASSUME NEW i \in 1..35, \A j \in 1..35 : ev.name \in NamesRead[j] => j = i,
             TypesGiven[i] \notin Loud
      PROVE  Goal
  <2>1. Parsed(ev) = Parses(ev)[i] BY <1>1, OnlyParser
  <2> QED BY <1>1, <2>1, ParserReads
<1>2. CASE ev.name = "transfer"
  <2>1. \A j \in 1..35 : "transfer" \in NamesRead[j] => j = 34 BY Enumerated DEF NamesRead
  <2>2. TypesGiven[34] \notin Loud BY DEF TypesGiven, Loud
  <2> QED BY <1>1, <1>2, <2>1, <2>2
<1>3. CASE ev.name = "zkme_upd"
  <2>1. \A j \in 1..35 : "zkme_upd" \in NamesRead[j] => j = 22 BY Enumerated DEF NamesRead
  <2>2. TypesGiven[22] \notin Loud BY DEF TypesGiven, Loud
  <2> QED BY <1>1, <1>3, <2>1, <2>2
<1>4. CASE ev.name = "adm_xfr"
  <2>1. \A j \in 1..35 : "adm_xfr" \in NamesRead[j] => j = 23 BY Enumerated DEF NamesRead
  <2>2. TypesGiven[23] \notin Loud BY DEF TypesGiven, Loud
  <2> QED BY <1>1, <1>4, <2>1, <2>2
<1>5. CASE ev.name = "def_upd"
  <2>1. \A j \in 1..35 : "def_upd" \in NamesRead[j] => j = 24 BY Enumerated DEF NamesRead
  <2>2. TypesGiven[24] \notin Loud BY DEF TypesGiven, Loud
  <2> QED BY <1>1, <1>5, <2>1, <2>2
<1>6. CASE ev.name = "wasm_upd"
  <2>1. \A j \in 1..35 : "wasm_upd" \in NamesRead[j] => j = 25 BY Enumerated DEF NamesRead
  <2>2. TypesGiven[25] \notin Loud BY DEF TypesGiven, Loud
  <2> QED BY <1>1, <1>6, <2>1, <2>2
<1>7. CASE ev.name = "v_status"
  <2>1. \A j \in 1..35 : "v_status" \in NamesRead[j] => j = 32 BY Enumerated DEF NamesRead
  <2>2. TypesGiven[32] \notin Loud BY DEF TypesGiven, Loud
  <2> QED BY <1>1, <1>7, <2>1, <2>2
<1>8. CASE ev.name = "rwa_upd"
  <2>1. \A j \in 1..35 : "rwa_upd" \in NamesRead[j] => j = 29 BY Enumerated DEF NamesRead
  <2>2. TypesGiven[29] \notin Loud BY DEF TypesGiven, Loud
  <2> QED BY <1>1, <1>8, <2>1, <2>2
<1>9. CASE ev.name \in {"burn", "fee_set"}
  <2>1. \A j \in 1..35 : "burn" \notin NamesRead[j] BY Enumerated DEF NamesRead
  <2>2. \A j \in 1..35 : "fee_set" \notin NamesRead[j] BY Enumerated DEF NamesRead
  <2> QED BY <1>9, <2>1, <2>2, NoParser
<1> QED BY <1>2, <1>3, <1>4, <1>5, <1>6, <1>7, <1>8, <1>9 DEF QuietNames

LEMMA QuietIndexed ==
  ASSUME NEW d, Shaped(d), NEW ev, ev.name \in QuietNames
  PROVE  Framed(Still, d, Indexed(d, ev))
<1> DEFINE here == NotBefore(d, ev.ledger)
           e == Handled(here, ev, Parsed(ev))
<1>1. Framed(Still, d, here) BY IndexedAround
<1>2. Shaped(here) BY <1>1 DEF Framed
<1>3. CASE Parsed(ev) = None BY <1>3, IndexedAround
<1>4. CASE Parsed(ev) # None
  <2>1. Parsed(ev).type \notin Loud BY <1>4, QuietRead
  <2>2. Framed(Followed, here, e) BY <1>2, <2>1, Quiet
  <2>3. Framed(Still, e, Indexed(d, ev)) BY <1>4, <2>2, IndexedAround DEF Framed
  <2>4. Framed(Still, here, e) BY <2>2, Narrower DEF Still
  <2> QED BY <1>1, <2>3, <2>4, Transitive
<1> QED BY <1>3, <1>4

-----------------------------------------------------------------------------
(* What an event says of the vault *)

\* What is shown of the vault, what an event sets of it, and to what.
Aspects == {"state", "operators", "roles"}
Shown(d, k) ==
  CASE k = "state" -> IF Known(d, Vault) THEN d.vaults[Vault].state ELSE "Funding"
    [] k = "operators" -> ListVaultOperators(d, Vault)
    [] k = "roles" -> ListVaultRoles(d, Vault)
Aspect(ev) ==
  CASE ev.name \in {"v_create", "st_chg", "fund_cxl"} -> "state"
    [] ev.name \in {"op_add", "op_rem"} -> "operators"
    [] ev.name \in {"role_grt", "role_rvk"} -> "roles"
    [] OTHER -> "none"
Word(ev) ==
  CASE ev.name = "v_create" -> "Funding"
    [] ev.name = "st_chg" -> ev.data[2]
    [] ev.name = "fund_cxl" -> "Cancelled"
    [] ev.name = "op_add" -> {Operator}
    [] ev.name = "role_grt" -> {<<Operator, "Treasury">>}
    [] OTHER -> {}

\* The tables name no staff but the one there is.
Staffed(d) == /\ DOMAIN d.operators \subseteq {<<Vault, Operator>>}
              /\ DOMAIN d.roles \subseteq {<<Vault, Operator, "Treasury">>}

\* The shapes of the events that matter here.
Published(ev) ==
  /\ ev.name \in LoudNames \cup QuietNames
  /\ ev.name = "v_create" => ev.topics = <<"v_create", Vault>> /\ ev.form = "vec"
  /\ ev.name = "st_chg" => /\ ev.contract = Vault /\ ev.topics = <<"st_chg">> /\ ev.form = "vec"
                           /\ DOMAIN ev.data = 1..2
                           /\ ev.data[2] \in {"Active", "Matured", "Closed"}
  /\ ev.name = "fund_cxl" => ev.contract = Vault /\ ev.topics = <<"fund_cxl">> /\ ev.form = "scalar"
  /\ ev.name \in {"op_add", "op_rem"} => /\ ev.contract = Vault
                                         /\ ev.topics = <<ev.name, Factory, Operator>>
                                         /\ ev.form \in {"scalar", "vec"}
  /\ ev.name \in {"role_grt", "role_rvk"} => /\ ev.contract = Vault
                                             /\ ev.topics = <<ev.name, Operator>>
                                             /\ ev.form = "scalar" /\ ev.data = <<"Treasury">>
  /\ ev.name = "erq_req" => /\ ev.contract = Vault /\ DOMAIN ev.topics = 1..2 /\ ev.form = "vec"
                            /\ Len(ev.topics) = 2 /\ DOMAIN ev.data = 1..3
  /\ ev.name \in {"erq_done", "erq_can"} => /\ ev.contract = Vault /\ Len(ev.topics) = 2
                                            /\ ev.form = "vec" /\ DOMAIN ev.data = 1..2

\* The tables of the staff and the states are as they were.
LEMMA ShownStill ==
  ASSUME NEW tables, {"operators", "roles"} \subseteq tables, NEW d, NEW e, Framed(tables, d, e),
         Staffed(d)
  PROVE  /\ Shaped(e) /\ Staffed(e) /\ Known(e, Vault) = Known(d, Vault)
         /\ \A k \in Aspects : Shown(e, k) = Shown(d, k)
<1>1. e["operators"] = d["operators"] /\ e["roles"] = d["roles"] BY DEF Framed, Keeps
<1>2. e.operators = d.operators /\ e.roles = d.roles BY <1>1
<1>3. Known(e, Vault) = Known(d, Vault) BY DEF Framed, SameStates, Known
<1>4. Shown(e, "state") = Shown(d, "state") BY DEF Framed, SameStates, Known, Shown
<1>5. Shown(e, "operators") = Shown(d, "operators") BY <1>2 DEF Shown, ListVaultOperators
<1>6. Shown(e, "roles") = Shown(d, "roles") BY <1>2 DEF Shown, ListVaultRoles
<1> QED BY <1>2, <1>3, <1>4, <1>5, <1>6 DEF Framed, Staffed, Aspects

\* An event that says nothing of the vault's state or staff.
Silent == LoudNames \ {"v_create", "st_chg", "fund_cxl", "op_add", "op_rem", "role_grt", "role_rvk"}
LEMMA SilentIndexed ==
  ASSUME NEW d, Shaped(d), NEW ev, ev.name \in Silent \cup QuietNames
  PROVE  Framed({"operators", "roles"}, d, Indexed(d, ev))
<1> DEFINE Two == {"operators", "roles"}
           here == NotBefore(d, ev.ledger)
           p == Parsed(ev)
           e == Handled(here, ev, p)
<1>1. Framed(Still, d, here) BY IndexedAround
<1>2. Shaped(here) BY <1>1 DEF Framed
<1>3. CASE ev.name \in QuietNames
  <2>1. Framed(Still, d, Indexed(d, ev)) BY <1>3, QuietIndexed
  <2> QED BY <2>1, Narrower DEF Followed, Still
<1>4. CASE p = None
  <2>1. Framed(Still, d, Indexed(d, ev)) BY <1>4, IndexedAround
  <2> QED BY <2>1, Narrower DEF Followed, Still
<1>5. CASE ev.name \in Silent /\ p # None
  <2>1. p.type \in {"deposit", "withdraw", "yield_distributed", "yield_claimed",
                    "yield_claimed_partial", "request_early_redemption",
                    "early_redemption_processed", "early_redemption_cancelled"}
    BY <1>5, LoudRead DEF ReadAs, Silent, LoudNames
  <2>2. Framed(Two, here, e)
    <3> DEFINE c == ev.contract
    <3> HIDE DEF here, p
    <3>1. CASE p.type \in {"deposit", "withdraw"}
      <4>1. Framed(Followed \ {"positions"}, here, e) BY <1>2, <3>1, LoudHandled, PositionsWritten
      <4> QED BY <4>1, Narrower DEF Followed, Still
    <3>2. CASE p.type = "yield_distributed"
      <4>1. Framed(Followed \ {"snapshots", "epochs", "log"}, here, e) BY <1>2, <3>2, LoudHandled, DistributionLogged
      <4> QED BY <4>1, Narrower DEF Followed, Still
    <3>3. CASE p.type \in {"yield_claimed", "yield_claimed_partial"}
      <4>1. Framed(Followed \ {"snapshots", "positions", "epochs"}, here, e)
        BY <1>2, <3>3, LoudHandled, YieldClaimed
      <4> QED BY <4>1, Narrower DEF Followed, Still
    <3>4. CASE p.type \in {"request_early_redemption", "early_redemption_processed",
                           "early_redemption_cancelled"}
      <4>1. Framed(Followed \ {"requests"}, here, e) BY <1>2, <3>4, LoudHandled, RequestsWritten
      <4> QED BY <4>1, Narrower DEF Followed, Still
    <3> QED BY <2>1, <3>1, <3>2, <3>3, <3>4
  <2>3. Framed(Still, e, Indexed(d, ev)) BY <1>5, <2>2, IndexedAround DEF Framed
  <2>4. Framed(Two, d, here) /\ Framed(Two, e, Indexed(d, ev)) BY <1>1, <2>3, Narrower DEF Followed, Still
  <2> QED BY <2>2, <2>4, Transitive
<1> QED BY <1>3, <1>4, <1>5

LEMMA LoudIndexed ==
  ASSUME NEW d, Shaped(d), NEW ev, Parsed(ev) # None
  PROVE  \E here, e : /\ here = NotBefore(d, ev.ledger) /\ Framed(Still, d, here)
                      /\ e = Handled(here, ev, Parsed(ev))
                      /\ Indexed(d, ev) = RecordEvent(e, ev, Parsed(ev)) /\ Shaped(e)
                      /\ Framed(Still, e, Indexed(d, ev))
<1> DEFINE here == NotBefore(d, ev.ledger)
           e == Handled(here, ev, Parsed(ev))
<1>1. Framed(Still, d, here) BY IndexedAround
<1>2. Shaped(here) BY <1>1 DEF Framed
<1>3. Shaped(e) BY <1>2, HandledKept
<1>4. Framed(Still, e, Indexed(d, ev)) BY <1>3, IndexedAround
<1>5. Indexed(d, ev) = RecordEvent(e, ev, Parsed(ev)) BY DEF Indexed
<1>6. here = NotBefore(d, ev.ledger) OBVIOUS
<1> HIDE DEF here
<1> QED BY <1>1, <1>3, <1>4, <1>5, <1>6

\* What the parsers make of the events of the state.
LEMMA StateRead ==
  ASSUME NEW ev, Published(ev), ev.name \in {"v_create", "st_chg", "fund_cxl"}
  PROVE  LET p == Parsed(ev)
         IN  /\ p # None
             /\ ev.name = "v_create" => p.type = "vault_created" /\ p.vault = Vault
             /\ ev.name = "st_chg" => p.type = "vault_state_changed" /\ p.newState = ev.data[2]
             /\ ev.name = "fund_cxl" => p.type = "cancel_funding"
<1> DEFINE p == Parsed(ev)
<1>1. None.type = "none" BY DEF None
<1>2. HasParts(ev)
  <2>1. DOMAIN ev.topics # {} BY DEF Published
  <2>2. ev.form # "none" BY DEF Published
  <2> QED BY <2>1, <2>2 DEF HasParts
<1>3. CASE ev.name = "v_create"
  <2>1. p = ParseVaultCreatedEvent(ev) BY <1>3, LoudRead DEF ReadAs
  <2>2. ParseVaultCreatedEvent(ev).type = "vault_created"
    BY <1>2, <1>3, Zenon DEF ParseVaultCreatedEvent
  <2>3. ParseVaultCreatedEvent(ev).vault = At(ev.topics, 2, ev.contract)
    BY <1>2, <1>3, Zenon DEF ParseVaultCreatedEvent
  <2>4. ev.topics = <<"v_create", Vault>> BY <1>3 DEF Published
  <2>5. At(ev.topics, 2, ev.contract) = Vault BY <2>4 DEF At
  <2> HIDE DEF p
  <2> QED BY <1>1, <1>3, <2>1, <2>2, <2>3, <2>5 DEF p
<1>4. CASE ev.name = "st_chg"
  <2>1. p = ParseVaultStateChangedEvent(ev) BY <1>4, LoudRead DEF ReadAs
  <2>2. ParseVaultStateChangedEvent(ev).type = "vault_state_changed"
    BY <1>2, <1>4, Zenon DEF ParseVaultStateChangedEvent
  <2>3. ParseVaultStateChangedEvent(ev).newState = At(Values(ev), 2, NoWord)
    BY <1>2, <1>4, Zenon DEF ParseVaultStateChangedEvent, NoWord
  <2>4. Values(ev) = ev.data /\ 2 \in DOMAIN ev.data BY <1>4 DEF Published, Values
  <2>5. At(Values(ev), 2, NoWord) = ev.data[2] BY <2>4 DEF At
  <2> QED BY <1>1, <1>4, <2>1, <2>2, <2>3, <2>5
<1>5. CASE ev.name = "fund_cxl"
  <2>1. p = ParseCancelFundingEvent(ev) BY <1>5, LoudRead DEF ReadAs
  <2>2. ParseCancelFundingEvent(ev).type = "cancel_funding"
    BY <1>2, <1>5 DEF ParseCancelFundingEvent
  <2> QED BY <1>1, <1>5, <2>1, <2>2
<1> QED BY <1>3, <1>4, <1>5

LEMMA StateIndexed ==
  ASSUME NEW d, Shaped(d), Staffed(d), NEW ev, Published(ev),
         ev.name \in {"v_create", "st_chg", "fund_cxl"}, Known(d, Vault) \/ ev.name = "v_create"
  PROVE  LET e == Indexed(d, ev)
         IN  /\ Shaped(e) /\ Staffed(e) /\ Known(e, Vault)
             /\ Shown(e, "state") = Word(ev)
             /\ Shown(e, "operators") = Shown(d, "operators")
             /\ Shown(e, "roles") = Shown(d, "roles")
<1> DEFINE p == Parsed(ev)
           f == Indexed(d, ev)
<1>1. PICK here, e : /\ Framed(Still, d, here) /\ e = Handled(here, ev, p)
                     /\ Framed(Still, e, f)
  BY StateRead, LoudIndexed
<1>2. Shaped(here) /\ (Known(here, Vault) <=> Known(d, Vault)) BY <1>1 DEF Framed, SameStates, Known
<1>3. StateWritten(here, e, Vault, Word(ev))
  <2>1. CASE ev.name = "v_create"
    <3>1. p.type = "vault_created" /\ p.vault = Vault BY <2>1, StateRead
    <3>2. e = HandleVaultCreated(here, ev.contract, p) BY <1>1, <3>1, LoudHandled
    <3>3. Word(ev) = "Funding" BY <2>1 DEF Word
    <3> QED BY <1>2, <3>1, <3>2, <3>3, VaultCreated
  <2>2. CASE ev.name = "st_chg"
    <3>1. p.type = "vault_state_changed" /\ p.newState = ev.data[2] BY <2>2, StateRead
    <3>2. e = HandleVaultStateChanged(here, ev.contract, p) BY <1>1, <3>1, LoudHandled
    <3>3. Word(ev) = ev.data[2] BY <2>2 DEF Word
    <3>4. ev.contract = Vault /\ ev.data[2] \in {"Active", "Matured", "Closed"}
      BY <2>2 DEF Published
    <3>5. ev.data[2] # NoWord BY <3>4, Zenon DEF NoWord
    <3>6. Known(here, Vault) BY <1>2, <2>2
    <3> QED BY <1>2, <3>1, <3>2, <3>3, <3>4, <3>5, <3>6, StateChanged
  <2>3. CASE ev.name = "fund_cxl"
    <3>1. p.type = "cancel_funding" BY <2>3, StateRead
    <3>2. e = HandleCancelFunding(here, ev.contract) BY <1>1, <3>1, LoudHandled
    <3>3. Word(ev) = "Cancelled" /\ ev.contract = Vault BY <2>3 DEF Word, Published
    <3> QED BY <1>2, <3>2, <3>3, FundingCancelled
  <2> QED BY <2>1, <2>2, <2>3
<1>4. /\ f.vaults[Vault].state = Word(ev) /\ Vault \in DOMAIN f.vaults /\ Shaped(f)
  BY <1>1, <1>3 DEF Framed, SameStates, StateWritten
<1>5. f["operators"] = d["operators"] /\ f["roles"] = d["roles"]
  BY <1>1, <1>3 DEF Framed, Keeps, StateWritten, Followed, Still
<1>6. f.operators = d.operators /\ f.roles = d.roles BY <1>5
<1> HIDE DEF f
<1>7. Shown(f, "state") = Word(ev) /\ Known(f, Vault) BY <1>4 DEF Shown, Known
<1>8. Shown(f, "operators") = Shown(d, "operators") BY <1>6 DEF Shown, ListVaultOperators
<1>9. Shown(f, "roles") = Shown(d, "roles") BY <1>6 DEF Shown, ListVaultRoles
<1> QED BY <1>4, <1>6, <1>7, <1>8, <1>9 DEF Staffed, f

\* What the parsers make of the events of the staff.
LEMMA StaffRead ==
  ASSUME NEW ev, Published(ev), ev.name \in {"op_add", "op_rem", "role_grt", "role_rvk"}
  PROVE  LET p == Parsed(ev)
         IN  /\ p # None
             /\ ev.name = "op_add" => p.type = "operator_added" /\ p.operator = Operator
             /\ ev.name = "op_rem" => p.type = "operator_removed" /\ p.operator = Operator
             /\ ev.name = "role_grt" => /\ p.type = "role_granted" /\ p.user = Operator
                                        /\ p.role = "Treasury"
             /\ ev.name = "role_rvk" => /\ p.type = "role_revoked" /\ p.user = Operator
                                        /\ p.role = "Treasury"
<1> DEFINE p == Parsed(ev)
<1>1. None.type = "none" BY DEF None
<1>2. ASSUME NEW i \in 1..3 PROVE Topic(ev, i) = At(ev.topics, i, NoWord)
  BY Zenon DEF Topic, NoWord
<1>3. Scalar(ev, NoWord) = At(ev.data, 1, NoWord) BY DEF Scalar
<1>4. CASE ev.name \in {"op_add", "op_rem"}
  <2>1. ev.topics = <<ev.name, Factory, Operator>> /\ ev.form # "none" BY <1>4 DEF Published
  <2>2. Reads(ev, {ev.name}, 3) BY <2>1 DEF Reads
  <2>3. At(ev.topics, 3, NoWord) = Operator BY <2>1 DEF At
  <2>4. CASE ev.name = "op_add"
    <3>1. p = ParseOperatorAddedEvent(ev) BY <2>4, LoudRead DEF ReadAs
    <3>2. ParseOperatorAddedEvent(ev).type = "operator_added" BY <2>2, <2>4 DEF ParseOperatorAddedEvent
    <3>3. ParseOperatorAddedEvent(ev).operator = Topic(ev, 3) BY <2>2, <2>4 DEF ParseOperatorAddedEvent
    <3> QED BY <1>1, <1>2, <2>3, <2>4, <3>1, <3>2, <3>3
  <2>5. CASE ev.name = "op_rem"
    <3>1. p = ParseOperatorRemovedEvent(ev) BY <2>5, LoudRead DEF ReadAs
    <3>2. ParseOperatorRemovedEvent(ev).type = "operator_removed" BY <2>2, <2>5 DEF ParseOperatorRemovedEvent
    <3>3. ParseOperatorRemovedEvent(ev).operator = Topic(ev, 3) BY <2>2, <2>5 DEF ParseOperatorRemovedEvent
    <3> QED BY <1>1, <1>2, <2>3, <2>5, <3>1, <3>2, <3>3
  <2> QED BY <1>4, <2>4, <2>5
<1>5. CASE ev.name \in {"role_grt", "role_rvk"}
  <2>1. ev.topics = <<ev.name, Operator>> /\ ev.form # "none" /\ ev.data = <<"Treasury">>
    BY <1>5 DEF Published
  <2>2. Reads(ev, {ev.name}, 2) BY <2>1 DEF Reads
  <2>3. At(ev.topics, 2, NoWord) = Operator /\ At(ev.data, 1, NoWord) = "Treasury" BY <2>1 DEF At
  <2>4. CASE ev.name = "role_grt"
    <3>1. p = ParseRoleGrantedEvent(ev) BY <2>4, LoudRead DEF ReadAs
    <3>2. ParseRoleGrantedEvent(ev).type = "role_granted"
      BY <2>2, <2>4, Zenon DEF ParseRoleGrantedEvent
    <3>3. ParseRoleGrantedEvent(ev).user = Topic(ev, 2)
      BY <2>2, <2>4, Zenon DEF ParseRoleGrantedEvent
    <3>4. ParseRoleGrantedEvent(ev).role = Scalar(ev, NoWord)
      BY <2>2, <2>4, Zenon DEF ParseRoleGrantedEvent, NoWord
    <3> QED BY <1>1, <1>2, <1>3, <2>3, <2>4, <3>1, <3>2, <3>3, <3>4
  <2>5. CASE ev.name = "role_rvk"
    <3>1. p = ParseRoleRevokedEvent(ev) BY <2>5, LoudRead DEF ReadAs
    <3>2. ParseRoleRevokedEvent(ev).type = "role_revoked"
      BY <2>2, <2>5, Zenon DEF ParseRoleRevokedEvent
    <3>3. ParseRoleRevokedEvent(ev).user = Topic(ev, 2)
      BY <2>2, <2>5, Zenon DEF ParseRoleRevokedEvent
    <3>4. ParseRoleRevokedEvent(ev).role = Scalar(ev, NoWord)
      BY <2>2, <2>5, Zenon DEF ParseRoleRevokedEvent, NoWord
    <3> QED BY <1>1, <1>2, <1>3, <2>3, <2>5, <3>1, <3>2, <3>3, <3>4
  <2> QED BY <1>5, <2>4, <2>5
<1> QED BY <1>4, <1>5

LEMMA OperatorsIndexed ==
  ASSUME NEW d, Shaped(d), Staffed(d), Known(d, Vault), NEW ev, Published(ev),
         ev.name \in {"op_add", "op_rem"}
  PROVE  LET e == Indexed(d, ev)
         IN  /\ Shaped(e) /\ Staffed(e) /\ Known(e, Vault)
             /\ Shown(e, "state") = Shown(d, "state")
             /\ Shown(e, "operators") = Word(ev)
             /\ Shown(e, "roles") = Shown(d, "roles")
<1> DEFINE p == Parsed(ev)
           f == Indexed(d, ev)
           key == <<Vault, Operator>>
           row == IF ev.name = "op_add" THEN [active |-> TRUE, by |-> p.caller]
                  ELSE [active |-> FALSE, by |-> p.caller]
<1>1. PICK here, e : /\ Framed(Still, d, here) /\ e = Handled(here, ev, p)
                     /\ Framed(Still, e, f)
  BY StaffRead, LoudIndexed
<1>2. Shaped(here) /\ Known(here, Vault) BY <1>1 DEF Framed, SameStates, Known
<1>3. here["operators"] = d["operators"] /\ here["roles"] = d["roles"]
  BY <1>1 DEF Framed, Keeps, Followed, Still
<1>4. p.type \in {"operator_added", "operator_removed"} /\ p.operator = Operator /\ ev.contract = Vault
  BY StaffRead DEF Published
<1>5. e = IF ev.name = "op_add" THEN HandleOperatorAdded(here, Vault, p)
          ELSE HandleOperatorRemoved(here, Vault, p)
  BY <1>1, <1>4, StaffRead, LoudHandled
<1>6. Framed(Followed \ {"operators"}, here, e) BY <1>2, <1>5, StaffWritten
<1>7. e.operators = Upsert(here.operators, key, row)
  <2>1. CASE ev.name = "op_add"
    BY <1>2, <1>4, <1>5, <2>1 DEF HandleOperatorAdded, Shaped, Tables
  <2>2. CASE ev.name = "op_rem"
    BY <1>2, <1>4, <1>5, <2>2 DEF HandleOperatorRemoved, Shaped, Tables
  <2> QED BY <2>1, <2>2
<1>8. f["operators"] = e["operators"] /\ f["roles"] = d["roles"] /\ e["roles"] = here["roles"]
  BY <1>1, <1>3, <1>6 DEF Framed, Keeps, Followed, Still
<1>9. /\ Shaped(f) /\ DOMAIN f.vaults = DOMAIN d.vaults
      /\ \A c \in DOMAIN d.vaults : f.vaults[c].state = d.vaults[c].state
  BY <1>1, <1>6 DEF Framed, SameStates
<1> HIDE DEF f, p
<1>10. DOMAIN f.operators = {key} /\ f.operators[key] = row
  BY <1>3, <1>7, <1>8 DEF Upsert, Staffed
<1>11. f.operators[key].active <=> ev.name = "op_add" BY <1>10
<1>12. Shown(f, "operators") = Word(ev)
  <2>1. Shown(f, "operators") = {k[2] : k \in {o \in {key} : o[1] = Vault /\ f.operators[o].active}}
    BY <1>10 DEF Shown, ListVaultOperators
  <2>2. CASE ev.name = "op_add"
    <3>1. {o \in {key} : o[1] = Vault /\ f.operators[o].active} = {key} BY <1>11, <2>2
    <3>2. Word(ev) = {Operator} BY <2>2 DEF Word
    <3>3. {k[2] : k \in {key}} = {Operator} OBVIOUS
    <3> QED BY <2>1, <3>1, <3>2, <3>3
  <2>3. CASE ev.name = "op_rem"
    <3>1. {o \in {key} : o[1] = Vault /\ f.operators[o].active} = {} BY <1>11, <2>3
    <3>2. Word(ev) = {} BY <2>3 DEF Word
    <3> QED BY <2>1, <3>1, <3>2
  <2> QED BY <2>2, <2>3
<1>13. Shown(f, "state") = Shown(d, "state") /\ Known(f, Vault) BY <1>9 DEF Shown, Known
<1>14. Shown(f, "roles") = Shown(d, "roles") BY <1>8 DEF Shown, ListVaultRoles
<1> QED BY <1>8, <1>9, <1>10, <1>12, <1>13, <1>14 DEF Staffed, f

LEMMA RolesIndexed ==
  ASSUME NEW d, Shaped(d), Staffed(d), Known(d, Vault), NEW ev, Published(ev),
         ev.name \in {"role_grt", "role_rvk"}
  PROVE  LET e == Indexed(d, ev)
         IN  /\ Shaped(e) /\ Staffed(e) /\ Known(e, Vault)
             /\ Shown(e, "state") = Shown(d, "state")
             /\ Shown(e, "operators") = Shown(d, "operators")
             /\ Shown(e, "roles") = Word(ev)
<1> DEFINE p == Parsed(ev)
           f == Indexed(d, ev)
           key == <<Vault, Operator, "Treasury">>
<1>1. PICK here, e : /\ Framed(Still, d, here) /\ e = Handled(here, ev, p)
                     /\ Framed(Still, e, f)
  BY StaffRead, LoudIndexed
<1>2. Shaped(here) /\ Known(here, Vault) BY <1>1 DEF Framed, SameStates, Known
<1>3. here["operators"] = d["operators"] /\ here["roles"] = d["roles"]
  BY <1>1 DEF Framed, Keeps, Followed, Still
<1>4. /\ p.type \in {"role_granted", "role_revoked"} /\ p.user = Operator /\ p.role = "Treasury"
      /\ ev.contract = Vault
  BY StaffRead DEF Published
<1>5. e = IF ev.name = "role_grt" THEN HandleRoleGranted(here, Vault, p)
          ELSE HandleRoleRevoked(here, Vault, p)
  BY <1>1, <1>4, StaffRead, LoudHandled
<1>6. Framed(Followed \ {"roles"}, here, e) BY <1>2, <1>5, StaffWritten
<1>7. /\ DOMAIN e.roles \subseteq {key}
      /\ ev.name = "role_grt" => key \in DOMAIN e.roles /\ e.roles[key] = TRUE
      /\ ev.name = "role_rvk" => (key \in DOMAIN e.roles => e.roles[key] = FALSE)
  <2>1. CASE ev.name = "role_grt"
    <3>1. e.roles = Upsert(here.roles, key, TRUE)
      BY <1>2, <1>4, <1>5, <2>1 DEF HandleRoleGranted, Shaped, Tables
    <3> QED BY <1>3, <2>1, <3>1 DEF Upsert, Staffed
  <2>2. CASE ev.name = "role_rvk"
    <3>1. e = IF key \in DOMAIN here.roles THEN [here EXCEPT !.roles[key] = FALSE] ELSE here
      BY <1>4, <1>5, <2>2 DEF HandleRoleRevoked
    <3> QED BY <1>2, <1>3, <2>2, <3>1 DEF Staffed, Shaped, Tables
  <2> QED BY <2>1, <2>2
<1>8. f["roles"] = e["roles"] /\ f["operators"] = d["operators"] /\ e["operators"] = here["operators"]
  BY <1>1, <1>3, <1>6 DEF Framed, Keeps, Followed, Still
<1>9. /\ Shaped(f) /\ DOMAIN f.vaults = DOMAIN d.vaults
      /\ \A c \in DOMAIN d.vaults : f.vaults[c].state = d.vaults[c].state
  BY <1>1, <1>6 DEF Framed, SameStates
<1> HIDE DEF f, p
<1>10. Shown(f, "roles") = Word(ev)
  BY <1>7, <1>8 DEF Shown, ListVaultRoles, Word
<1>11. Shown(f, "state") = Shown(d, "state") /\ Known(f, Vault) BY <1>9 DEF Shown, Known
<1>12. Shown(f, "operators") = Shown(d, "operators") BY <1>8 DEF Shown, ListVaultOperators
<1> QED BY <1>7, <1>8, <1>9, <1>10, <1>11, <1>12 DEF Staffed, f

LEMMA WordTaken ==
  ASSUME NEW d, Shaped(d), Staffed(d), NEW ev, Published(ev), Known(d, Vault) \/ ev.name = "v_create"
  PROVE  LET e == Indexed(d, ev)
         IN  /\ Shaped(e) /\ Staffed(e) /\ Known(e, Vault)
             /\ \A k \in Aspects : Shown(e, k) = IF Aspect(ev) = k THEN Word(ev) ELSE Shown(d, k)
<1> DEFINE e == Indexed(d, ev)
<1>1. CASE ev.name \in {"v_create", "st_chg", "fund_cxl"}
  <2>1. Aspect(ev) = "state" BY <1>1 DEF Aspect
  <2> QED BY <1>1, <2>1, StateIndexed DEF Aspects
<1>2. CASE ev.name \in {"op_add", "op_rem"}
  <2>1. Aspect(ev) = "operators" BY <1>2 DEF Aspect
  <2> QED BY <1>2, <2>1, OperatorsIndexed DEF Aspects
<1>3. CASE ev.name \in {"role_grt", "role_rvk"}
  <2>1. Aspect(ev) = "roles" BY <1>3 DEF Aspect
  <2> QED BY <1>3, <2>1, RolesIndexed DEF Aspects
<1>4. CASE ev.name \notin {"v_create", "st_chg", "fund_cxl", "op_add", "op_rem", "role_grt", "role_rvk"}
  <2>1. Aspect(ev) = "none" BY <1>4 DEF Aspect
  <2>2. ev.name \in Silent \cup QuietNames BY <1>4 DEF Published, Silent
  <2>3. Framed({"operators", "roles"}, d, e) BY <2>2, SilentIndexed
  <2>4. /\ Shaped(e) /\ Staffed(e) /\ Known(e, Vault) = Known(d, Vault)
        /\ \A k \in Aspects : Shown(e, k) = Shown(d, k)
    BY <2>3, ShownStill
  <2>5. Known(d, Vault) BY <1>4
  <2> QED BY <2>1, <2>4, <2>5 DEF Aspects
<1> QED BY <1>1, <1>2, <1>3, <1>4

-----------------------------------------------------------------------------
(* What the contracts say *)

Held(c, k) ==
  CASE k = "state" -> c.state
    [] k = "operators" -> c.operators
    [] k = "roles" -> c.roles \X {"Treasury"}
Fields == {"held", "state", "epochs", "unpaid", "paid", "queue", "ids", "operators", "roles",
           "created", "silent"}

\* Nothing is held before the vault is created.
Begun == DOMAIN chain = Fields /\ (chain.created \/ chain = NewChain)

\* An event keeps in its place what it says.
Says(x, contract, name, topics, form, data) ==
  /\ x.contract = contract /\ x.name = name /\ x.topics = topics /\ x.form = form /\ x.data = data
PlaceFields == {"ledger", "tx", "index"}

LEMMA OneMore ==
  ASSUME NEW n, NEW a, NEW b
  PROVE  /\ <<n>> \o <<>> = <<n>>
         /\ <<n>> \o <<a>> = <<n, a>>
         /\ <<n>> \o <<a, b>> = <<n, a, b>>
<1> DEFINE S == {n, a, b}
<1>1. <<n>> \in Seq(S) /\ <<a>> \in Seq(S) /\ <<a, b>> \in Seq(S) /\ <<n, a>> \in Seq(S)
      /\ <<n, a, b>> \in Seq(S)
  OBVIOUS
<1> HIDE DEF S
<1>2. <<n>> \o <<>> = <<n>> BY <1>1, ConcatEmptySeq
<1>3. <<n>> \o <<a>> = <<n, a>>
  <2> DEFINE s == <<n>> \o <<a>>
             t == <<n, a>>
  <2>1. s \in Seq(S) /\ Len(s) = 2 /\ \A i \in 1..2 : s[i] = IF i <= 1 THEN <<n>>[i] ELSE <<a>>[i - 1]
    BY <1>1, ConcatProperties
  <2> HIDE DEF s
  <2>2. s[1] = n /\ s[2] = a BY <2>1
  <2>3. t \in Seq(S) /\ Len(t) = 2 /\ t[1] = n /\ t[2] = a BY <1>1
  <2>4. \A i \in 1..Len(s) : s[i] = t[i] BY <2>1, <2>2, <2>3
  <2> HIDE DEF t
  <2>5. s = t BY <2>1, <2>3, <2>4, SeqEqual
  <2> QED BY <2>5 DEF s, t
<1>4. <<n>> \o <<a, b>> = <<n, a, b>>
  <2> DEFINE s == <<n>> \o <<a, b>>
             t == <<n, a, b>>
  <2>1. s \in Seq(S) /\ Len(s) = 3 /\ \A i \in 1..3 : s[i] = IF i <= 1 THEN <<n>>[i] ELSE <<a, b>>[i - 1]
    BY <1>1, ConcatProperties
  <2> HIDE DEF s
  <2>2. s[1] = n /\ s[2] = a /\ s[3] = b BY <2>1
  <2>3. t \in Seq(S) /\ Len(t) = 3 /\ t[1] = n /\ t[2] = a /\ t[3] = b BY <1>1
  <2>4. \A i \in 1..Len(s) : s[i] = t[i] BY <2>1, <2>2, <2>3
  <2> HIDE DEF t
  <2>5. s = t BY <2>1, <2>3, <2>4, SeqEqual
  <2> QED BY <2>5 DEF s, t
<1> QED BY <1>2, <1>3, <1>4

LEMMA PlacedAny ==
  ASSUME NEW contract, NEW name, NEW topics, NEW form, NEW data, NEW place,
         DOMAIN place = PlaceFields
  PROVE  Says(Joined(Raw(contract, name, topics, form, data), place),
              contract, name, <<name>> \o topics, form, data)
BY DEF Joined, Raw, Says, PlaceFields

LEMMA PlacedName ==
  ASSUME NEW contract, NEW name, NEW topics, NEW form, NEW data, NEW place,
         DOMAIN place = PlaceFields
  PROVE  Joined(Raw(contract, name, topics, form, data), place).name = name
BY DEF Joined, Raw, PlaceFields

LEMMA Placed ==
  ASSUME NEW contract, NEW name, NEW a, NEW b, NEW form, NEW data, NEW place,
         DOMAIN place = PlaceFields
  PROVE  /\ Says(Joined(Raw(contract, name, <<>>, form, data), place), contract, name, <<name>>, form, data)
         /\ Says(Joined(Raw(contract, name, <<a>>, form, data), place),
                 contract, name, <<name, a>>, form, data)
         /\ Says(Joined(Raw(contract, name, <<a, b>>, form, data), place),
                 contract, name, <<name, a, b>>, form, data)
<1>1. <<name>> \o <<>> = <<name>> /\ <<name>> \o <<a>> = <<name, a>>
      /\ <<name>> \o <<a, b>> = <<name, a, b>>
  BY OneMore
<1> DEFINE t0 == <<>>
           t1 == <<a>>
           t2 == <<a, b>>
<1> HIDE DEF t0, t1, t2
<1>2. Says(Joined(Raw(contract, name, t0, form, data), place), contract, name, <<name>> \o t0, form, data)
  BY PlacedAny
<1>3. Says(Joined(Raw(contract, name, t1, form, data), place), contract, name, <<name>> \o t1, form, data)
  BY PlacedAny
<1>4. Says(Joined(Raw(contract, name, t2, form, data), place), contract, name, <<name>> \o t2, form, data)
  BY PlacedAny
<1> QED BY <1>1, <1>2, <1>3, <1>4 DEF t0, t1, t2

Place(same) ==
  LET last == IF history = <<>> THEN [ledger |-> 1, index |-> 0] ELSE history[Len(history)]
  IN  IF same THEN [ledger |-> last.ledger, tx |-> last.ledger, index |-> last.index + 1]
      ELSE [ledger |-> last.ledger + 1, tx |-> last.ledger + 1, index |-> 0]
LEMMA PlaceShape ==
  ASSUME NEW same \in BOOLEAN
  PROVE  DOMAIN Place(same) = PlaceFields
BY DEF Place, PlaceFields

\* What an event says of the step from one state of the contracts to the next.
Spoken(c, e, ev) ==
  /\ Published(ev) /\ e.created /\ DOMAIN e = Fields
  /\ c.created \/ ev.name = "v_create"
  /\ \A k \in Aspects : Held(e, k) = IF Aspect(ev) = k THEN Word(ev) ELSE Held(c, k)
  /\ \A r \in c.queue : r \in e.queue \/ (ev.name \in {"erq_done", "erq_can"} /\ ev.data[1] = r[1])
  /\ ev.name = "erq_req" => \E r \in e.queue : r[1] = ev.data[1] /\ r[2] = ev.topics[2]

Shares == {"deposit", "withdraw", "transfer", "yield_dis", "yield_clm", "prt_yld"}
Others == {"zkme_upd", "adm_xfr", "def_upd", "wasm_upd", "v_status", "rwa_upd", "burn", "fee_set"}
LEMMA Bystander ==
  ASSUME NEW c, NEW e, NEW ev, ev.name \in Shares \cup Others, DOMAIN e = Fields, c.created,
         e.created = c.created, e.state = c.state, e.operators = c.operators, e.roles = c.roles,
         e.queue = c.queue
  PROVE  Spoken(c, e, ev)
<1>1. Published(ev) BY DEF Published, Shares, Others, LoudNames, QuietNames
<1>2. Aspect(ev) = "none" BY DEF Aspect, Shares, Others
<1>3. \A k \in Aspects : Held(e, k) = Held(c, k) BY DEF Held, Aspects
<1>4. ev.name # "erq_req" BY DEF Shares, Others
<1> QED BY <1>1, <1>2, <1>3, <1>4 DEF Spoken, Aspects

\* Shares move.
Bystands(c, e) ==
  /\ c.created /\ DOMAIN e = Fields /\ e.created = c.created /\ e.state = c.state
  /\ e.operators = c.operators /\ e.roles = c.roles /\ e.queue = c.queue
LEMMA SharesSay ==
  ASSUME Begun,
         \/ Distribute
         \/ \E u \in Users : Deposit(u) \/ Withdraw(u) \/ Claim(u)
         \/ \E u, w \in Users : Transfer(u, w)
  PROVE  \E ev : history' = Append(history, ev) /\ Spoken(chain, chain', ev)
<1> DEFINE Said(name) == \E same \in BOOLEAN : \E topics, data, form :
             history' = Append(history, Joined(Raw(Vault, name, topics, form, data), Place(same)))
<1>0. DOMAIN chain = Fields BY DEF Begun
<1>1. ASSUME NEW name \in Shares, Said(name), Bystands(chain, chain')
      PROVE  \E ev : history' = Append(history, ev) /\ Spoken(chain, chain', ev)
  <2>1. PICK same \in BOOLEAN : \E topics, data, form :
          history' = Append(history, Joined(Raw(Vault, name, topics, form, data), Place(same)))
    BY <1>1
  <2>2. PICK topics, data, form :
          history' = Append(history, Joined(Raw(Vault, name, topics, form, data), Place(same)))
    BY <2>1
  <2> DEFINE ev == Joined(Raw(Vault, name, topics, form, data), Place(same))
  <2>3. ev.name = name BY PlaceShape, PlacedName
  <2> HIDE DEF ev
  <2>4. Spoken(chain, chain', ev) BY <1>1, <2>3, Bystander DEF Bystands
  <2> QED BY <2>2, <2>4 DEF ev
<1>2. CASE Distribute
  <2>1. chain.created BY <1>2 DEF Begun, Distribute, NewChain, Emit
  <2>2. Bystands(chain, chain') BY <1>2, <2>1 DEF Begun, Distribute, Fields, Emit, Bystands
  <2>3. Said("yield_dis") BY <1>2 DEF Distribute, Emit, Place, Vec
  <2> QED BY <1>1, <2>2, <2>3 DEF Shares
<1>3. ASSUME NEW u \in Users, Deposit(u)
      PROVE  \E ev : history' = Append(history, ev) /\ Spoken(chain, chain', ev)
  <2>1. PICK n \in Deposits : Emit("deposit", Vec("deposit", <<u, u>>, <<n, n>>))
                              /\ chain' = [chain EXCEPT !.held[u] = @ + n]
    BY <1>3 DEF Deposit
  <2>2. Bystands(chain, chain') BY <1>3, <2>1 DEF Begun, Deposit, Live, Fields, Bystands
  <2>3. Said("deposit") BY <2>1 DEF Emit, Place, Vec
  <2> QED BY <1>1, <2>2, <2>3 DEF Shares
<1>4. ASSUME NEW u \in Users, Withdraw(u)
      PROVE  \E ev : history' = Append(history, ev) /\ Spoken(chain, chain', ev)
  <2>1. PICK n \in 1..chain.held[u] :
          Emit("withdraw", Vec("withdraw", <<u, u, u>>, <<n, n>>))
          /\ chain' = [chain EXCEPT !.held[u] = @ - n]
    BY <1>4 DEF Withdraw
  <2>2. Bystands(chain, chain') BY <1>4, <2>1 DEF Begun, Withdraw, Fields, Bystands
  <2>3. Said("withdraw") BY <2>1 DEF Emit, Place, Vec
  <2> QED BY <1>1, <2>2, <2>3 DEF Shares
<1>5. ASSUME NEW u \in Users, Claim(u)
      PROVE  \E ev : history' = Append(history, ev) /\ Spoken(chain, chain', ev)
  <2>1. PICK same \in BOOLEAN, e \in DOMAIN chain.unpaid :
           \/ /\ history' = Append(history, Joined(Vec("yield_clm", <<u>>, <<chain.unpaid[e][u], e>>), Place(same)))
              /\ chain' = [chain EXCEPT !.paid[e] = @ + chain.unpaid[e][u], !.unpaid[e][u] = 0]
           \/ /\ history' = Append(history, Joined(Vec("prt_yld", <<u>>, <<1, chain.unpaid[e][u] - 1, e>>), Place(same)))
              /\ chain' = [chain EXCEPT !.paid[e] = @ + 1, !.unpaid[e][u] = 0]
    BY <1>5, Zenon DEF Claim, Emit, Place
  <2>2. DOMAIN chain.unpaid # {} BY <2>1
  <2>3. chain.created BY <2>2 DEF Begun, NewChain
  <2>4. PICK b : chain' = [chain EXCEPT !.paid[e] = b, !.unpaid[e][u] = 0] BY <2>1, Zenon
  <2>5. DOMAIN chain' = Fields /\ \A k \in Fields \ {"paid", "unpaid"} : chain'[k] = chain[k]
    BY <1>0, <2>4 DEF Fields
  <2>6. Bystands(chain, chain') BY <2>3, <2>5 DEF Fields, Bystands
  <2>7. Said("yield_clm") \/ Said("prt_yld") BY <2>1 DEF Vec
  <2> QED BY <1>1, <2>6, <2>7 DEF Shares
<1>6. ASSUME NEW u \in Users, NEW w \in Users, Transfer(u, w)
      PROVE  \E ev : history' = Append(history, ev) /\ Spoken(chain, chain', ev)
  <2>1. PICK same \in BOOLEAN :
          history' = Append(history, Joined(Plain("transfer", <<u, w>>, chain.held[u]), Place(same)))
    BY <1>6, Zenon DEF Transfer, Emit, Place
  <2>2. chain.held[u] > 0 BY <1>6, Zenon DEF Transfer
  <2>3. chain.created BY <2>2 DEF Begun, NewChain
  <2>4. PICK b : chain' = [chain EXCEPT !.held[u] = 0, !.held[w] = b, !.silent = TRUE]
    BY <1>6, Zenon DEF Transfer, Emit, Place
  <2>5. DOMAIN chain' = Fields /\ \A k \in Fields \ {"held", "silent"} : chain'[k] = chain[k]
    BY <1>0, <2>4 DEF Fields
  <2>6. Bystands(chain, chain') BY <2>3, <2>5 DEF Fields, Bystands
  <2>7. Said("transfer") BY <2>1 DEF Plain
  <2> QED BY <1>1, <2>6, <2>7 DEF Shares
<1> QED BY <1>2, <1>3, <1>4, <1>5, <1>6

Heard == \E ev : history' = Append(history, ev) /\ Spoken(chain, chain', ev)

LEMMA OtherNamed ==
  ASSUME NEW i \in DOMAIN OtherEvents, NEW place, DOMAIN place = PlaceFields
  PROVE  Joined(OtherEvents[i], place).name \in Others
<1>1. i \in 1..8 BY DEF OtherEvents
<1>2. PICK contract, name, topics, form, data :
        OtherEvents[i] = Raw(contract, name, topics, form, data) /\ name \in Others
  <2> DEFINE Of(e) == \E contract, name, topics, form, data :
                        e = Raw(contract, name, topics, form, data) /\ name \in Others
  <2>1. ASSUME NEW contract, NEW name \in Others, NEW topics, NEW form, NEW data
        PROVE  Of(Raw(contract, name, topics, form, data))
    OBVIOUS
  <2>2. /\ "zkme_upd" \in Others /\ "adm_xfr" \in Others /\ "def_upd" \in Others
        /\ "wasm_upd" \in Others /\ "v_status" \in Others /\ "rwa_upd" \in Others
        /\ "burn" \in Others /\ "fee_set" \in Others
    BY DEF Others
  <2> HIDE DEF Of
  <2>3. Of(OtherEvents[1]) /\ Of(OtherEvents[2]) BY <2>1, <2>2 DEF OtherEvents, Vec, Plain
  <2>4. Of(OtherEvents[3]) /\ Of(OtherEvents[4]) BY <2>1, <2>2 DEF OtherEvents, Vec, Plain
  <2>5. Of(OtherEvents[5]) /\ Of(OtherEvents[6]) BY <2>1, <2>2 DEF OtherEvents, Vec, Plain
  <2>6. Of(OtherEvents[7]) /\ Of(OtherEvents[8]) BY <2>1, <2>2 DEF OtherEvents, Vec, Plain
  <2>7. Of(OtherEvents[i]) BY <1>1, <2>3, <2>4, <2>5, <2>6
  <2> QED BY <2>7 DEF Of
<1> QED BY <1>2, PlacedName

LEMMA OtherSays ==
  ASSUME Begun, Other
  PROVE  Heard
<1>1. PICK i \in DOMAIN OtherEvents, same \in BOOLEAN :
        history' = Append(history, Joined(OtherEvents[i], Place(same)))
  BY Zenon DEF Other, Emit, Place
<1> DEFINE ev == Joined(OtherEvents[i], Place(same))
<1>2. ev.name \in Others BY PlaceShape, OtherNamed
<1>3. chain.created /\ chain' = chain BY DEF Other
<1> HIDE DEF ev
<1>4. Spoken(chain, chain', ev) BY <1>2, <1>3, Bystander DEF Begun
<1> QED BY <1>1, <1>4 DEF Heard, ev

LEMMA CreateSays ==
  ASSUME Begun, Create
  PROVE  Heard
<1>1. PICK same \in BOOLEAN :
        history' = Append(history, Joined(Raw(Factory, "v_create", <<Vault>>, "vec", <<"type", "name">>),
                                          Place(same)))
  BY Zenon DEF Create, Emit, Place
<1> DEFINE ev == Joined(Raw(Factory, "v_create", <<Vault>>, "vec", <<"type", "name">>), Place(same))
<1>2. Says(ev, Factory, "v_create", <<"v_create", Vault>>, "vec", <<"type", "name">>)
  BY PlaceShape, Placed
<1> HIDE DEF ev
<1>3. ev.name = "v_create" /\ ev.topics = <<"v_create", Vault>> /\ ev.form = "vec" BY <1>2 DEF Says
<1>4. chain = NewChain /\ chain' = [chain EXCEPT !.created = TRUE] BY DEF Begun, Create
<1>5. Published(ev) BY <1>3 DEF Published, LoudNames
<1>6. Aspect(ev) = "state" /\ Word(ev) = "Funding" BY <1>3 DEF Aspect, Word
<1>7. chain'.created /\ DOMAIN chain' = Fields /\ chain'.state = "Funding"
      /\ chain'.operators = chain.operators /\ chain'.roles = chain.roles /\ chain'.queue = chain.queue
  BY <1>4 DEF NewChain, Fields
<1>8. Spoken(chain, chain', ev) BY <1>3, <1>5, <1>6, <1>7 DEF Spoken, Held, Aspects
<1> QED BY <1>1, <1>8 DEF Heard, ev

LEMMA ChangeStateSays ==
  ASSUME Begun, NEW new, ChangeState(new)
  PROVE  Heard
<1>1. PICK same \in BOOLEAN :
        history' = Append(history, Joined(Raw(Vault, "st_chg", <<>>, "vec", <<chain.state, new>>),
                                          Place(same)))
  BY Zenon DEF ChangeState, Emit, Place, Vec
<1> DEFINE ev == Joined(Raw(Vault, "st_chg", <<>>, "vec", <<chain.state, new>>), Place(same))
<1>2. Says(ev, Vault, "st_chg", <<"st_chg">>, "vec", <<chain.state, new>>)
  BY PlaceShape, Placed
<1> HIDE DEF ev
<1>3. /\ ev.contract = Vault /\ ev.name = "st_chg" /\ ev.topics = <<"st_chg">> /\ ev.form = "vec"
      /\ DOMAIN ev.data = 1..2 /\ ev.data[2] = new
  BY <1>2 DEF Says
<1>4. chain.created /\ chain' = [chain EXCEPT !.state = new] BY Zenon DEF ChangeState
<1>5. new \in {"Active", "Matured", "Closed"}
  <2>1. <<chain.state, new>> \in {<<"Funding", "Active">>, <<"Active", "Matured">>, <<"Matured", "Closed">>}
    BY Zenon DEF ChangeState
  <2> QED BY <2>1
<1>6. Published(ev) BY <1>3, <1>5 DEF Published, LoudNames
<1>7. Aspect(ev) = "state" /\ Word(ev) = new BY <1>3 DEF Aspect, Word
<1>8. chain'.created /\ DOMAIN chain' = Fields /\ chain'.state = new
      /\ chain'.operators = chain.operators /\ chain'.roles = chain.roles /\ chain'.queue = chain.queue
  BY <1>4 DEF Begun, Fields
<1>9. Spoken(chain, chain', ev) BY <1>3, <1>4, <1>6, <1>7, <1>8 DEF Spoken, Held, Aspects
<1> QED BY <1>1, <1>9 DEF Heard, ev

LEMMA CancelFundingSays ==
  ASSUME Begun, CancelFunding
  PROVE  Heard
<1>1. PICK same \in BOOLEAN :
        history' = Append(history, Joined(Raw(Vault, "fund_cxl", <<>>, "scalar", <<0>>), Place(same)))
  BY Zenon DEF CancelFunding, Emit, Place, Plain
<1> DEFINE ev == Joined(Raw(Vault, "fund_cxl", <<>>, "scalar", <<0>>), Place(same))
<1>2. Says(ev, Vault, "fund_cxl", <<"fund_cxl">>, "scalar", <<0>>) BY PlaceShape, Placed
<1> HIDE DEF ev
<1>3. /\ ev.contract = Vault /\ ev.name = "fund_cxl" /\ ev.topics = <<"fund_cxl">>
      /\ ev.form = "scalar"
  BY <1>2 DEF Says
<1>4. chain.created /\ chain' = [chain EXCEPT !.state = "Cancelled"] BY DEF CancelFunding
<1>5. Published(ev) BY <1>3 DEF Published, LoudNames
<1>6. Aspect(ev) = "state" /\ Word(ev) = "Cancelled" BY <1>3 DEF Aspect, Word
<1>7. chain'.created /\ DOMAIN chain' = Fields /\ chain'.state = "Cancelled"
      /\ chain'.operators = chain.operators /\ chain'.roles = chain.roles /\ chain'.queue = chain.queue
  BY <1>4 DEF Begun, Fields
<1>8. Spoken(chain, chain', ev) BY <1>3, <1>4, <1>5, <1>6, <1>7 DEF Spoken, Held, Aspects
<1> QED BY <1>1, <1>8 DEF Heard, ev

LEMMA SetOperatorSays ==
  ASSUME Begun, NEW on \in BOOLEAN, SetOperator(on)
  PROVE  Heard
<1>1. /\ chain.created
      /\ chain' = [chain EXCEPT !.operators = IF on THEN {Operator} ELSE {}]
  BY Zenon DEF SetOperator
<1>2. /\ chain'.created /\ DOMAIN chain' = Fields /\ chain'.state = chain.state
      /\ chain'.operators = (IF on THEN {Operator} ELSE {})
      /\ chain'.roles = chain.roles /\ chain'.queue = chain.queue
  BY <1>1 DEF Begun, Fields
<1>3. PICK same \in BOOLEAN : \E data, form : form \in {"scalar", "vec"} /\
        history' = Append(history, Joined(Raw(Vault, IF on THEN "op_add" ELSE "op_rem",
                                              <<Factory, Operator>>, form, data), Place(same)))
  <2>1. CASE on
    <3>1. PICK same \in BOOLEAN :
            history' = Append(history, Joined(Plain("op_add", <<Factory, Operator>>, 0), Place(same)))
      BY <2>1, Zenon DEF SetOperator, Emit, Place
    <3> QED BY <2>1, <3>1 DEF Plain
  <2>2. CASE ~on
    <3>1. PICK same \in BOOLEAN :
            history' = Append(history, Joined(Vec("op_rem", <<Factory, Operator>>, <<0, "reason">>), Place(same)))
      BY <2>2, Zenon DEF SetOperator, Emit, Place
    <3> QED BY <2>2, <3>1 DEF Vec
  <2> QED BY <2>1, <2>2
<1>4. PICK data, form : form \in {"scalar", "vec"} /\
        history' = Append(history, Joined(Raw(Vault, IF on THEN "op_add" ELSE "op_rem",
                                              <<Factory, Operator>>, form, data), Place(same)))
  BY <1>3
<1> DEFINE name == IF on THEN "op_add" ELSE "op_rem"
           ev == Joined(Raw(Vault, name, <<Factory, Operator>>, form, data), Place(same))
<1>5. name = IF on THEN "op_add" ELSE "op_rem" OBVIOUS
<1> HIDE DEF name
<1>6. Says(ev, Vault, name, <<name, Factory, Operator>>, form, data) BY PlaceShape, Placed
<1> HIDE DEF ev
<1>7. /\ ev.contract = Vault /\ ev.name = name /\ ev.topics = <<name, Factory, Operator>>
      /\ ev.form \in {"scalar", "vec"}
  BY <1>4, <1>6 DEF Says
<1>8. Published(ev) BY <1>5, <1>7 DEF Published, LoudNames
<1>9. Aspect(ev) = "operators" /\ Word(ev) = (IF on THEN {Operator} ELSE {})
  BY <1>5, <1>7 DEF Aspect, Word
<1>10. ev.name \notin {"v_create", "erq_req", "erq_done", "erq_can"} BY <1>5, <1>7
<1>11. Spoken(chain, chain', ev) BY <1>1, <1>2, <1>8, <1>9, <1>10 DEF Spoken, Held, Aspects
<1> QED BY <1>4, <1>11 DEF Heard, ev, name

LEMMA SetRoleSays ==
  ASSUME Begun, NEW on \in BOOLEAN, SetRole(on)
  PROVE  Heard
<1>1. /\ chain.created
      /\ chain' = [chain EXCEPT !.roles = IF on THEN {Operator} ELSE {}]
  BY Zenon DEF SetRole
<1>2. /\ chain'.created /\ DOMAIN chain' = Fields /\ chain'.state = chain.state
      /\ chain'.roles = (IF on THEN {Operator} ELSE {})
      /\ chain'.operators = chain.operators /\ chain'.queue = chain.queue
  BY <1>1 DEF Begun, Fields
<1> DEFINE name == IF on THEN "role_grt" ELSE "role_rvk"
<1>3. PICK same \in BOOLEAN :
        history' = Append(history, Joined(Raw(Vault, name, <<Operator>>, "scalar", <<"Treasury">>), Place(same)))
  BY Zenon DEF SetRole, Emit, Place, Plain
<1> DEFINE ev == Joined(Raw(Vault, name, <<Operator>>, "scalar", <<"Treasury">>), Place(same))
<1>5. name = IF on THEN "role_grt" ELSE "role_rvk" OBVIOUS
<1> HIDE DEF name
<1>6. Says(ev, Vault, name, <<name, Operator>>, "scalar", <<"Treasury">>) BY PlaceShape, Placed
<1> HIDE DEF ev
<1>7. /\ ev.contract = Vault /\ ev.name = name /\ ev.topics = <<name, Operator>>
      /\ ev.form = "scalar" /\ ev.data = <<"Treasury">>
  BY <1>6 DEF Says
<1>8. Published(ev) BY <1>5, <1>7 DEF Published, LoudNames
<1>9. Aspect(ev) = "roles" /\ Word(ev) = (IF on THEN {<<Operator, "Treasury">>} ELSE {})
  BY <1>5, <1>7 DEF Aspect, Word
<1>10. ev.name \notin {"v_create", "erq_req", "erq_done", "erq_can"} BY <1>5, <1>7
<1>11. (IF on THEN {Operator} ELSE {}) \X {"Treasury"} = (IF on THEN {<<Operator, "Treasury">>} ELSE {})
  OBVIOUS
<1>12. Spoken(chain, chain', ev)
  BY <1>1, <1>2, <1>8, <1>9, <1>10, <1>11 DEF Spoken, Held, Aspects
<1> QED BY <1>3, <1>12 DEF Heard, ev

LEMMA RequestSays ==
  ASSUME Begun, NEW u, RequestRedemption(u)
  PROVE  Heard
<1> DEFINE data == <<chain.ids + 1, chain.held[u], Cardinality(chain.queue) + 1>>
           r == <<chain.ids + 1, u, chain.held[u]>>
<1>1. /\ chain.state = "Active"
      /\ chain' = [chain EXCEPT !.ids = chain.ids + 1, !.held[u] = 0, !.silent = TRUE,
                                !.queue = @ \cup {r}]
  BY Zenon DEF RequestRedemption
<1>2. PICK same \in BOOLEAN :
        history' = Append(history, Joined(Raw(Vault, "erq_req", <<u>>, "vec", data), Place(same)))
  BY Zenon DEF RequestRedemption, Emit, Place, Vec
<1>3. chain.created BY <1>1 DEF Begun, NewChain
<1>4. DOMAIN chain = Fields BY DEF Begun
<1>5. /\ chain'.created /\ DOMAIN chain' = Fields /\ chain'.state = chain.state
      /\ chain'.roles = chain.roles /\ chain'.operators = chain.operators
      /\ chain'.queue = chain.queue \cup {r}
  BY <1>1, <1>3, <1>4 DEF Fields
<1> DEFINE ev == Joined(Raw(Vault, "erq_req", <<u>>, "vec", data), Place(same))
<1>6. DOMAIN data = 1..3 /\ data[1] = r[1] /\ r[2] = u OBVIOUS
<1> HIDE DEF data, r
<1>7. Says(ev, Vault, "erq_req", <<"erq_req", u>>, "vec", data) BY PlaceShape, Placed
<1> HIDE DEF ev
<1>8. /\ ev.contract = Vault /\ ev.name = "erq_req" /\ ev.topics = <<"erq_req", u>>
      /\ ev.form = "vec" /\ ev.data = data
  BY <1>7 DEF Says
<1>9. Published(ev)
  <2>1. Len(ev.topics) = 2 /\ DOMAIN ev.topics = 1..2 BY <1>8
  <2> QED BY <1>6, <1>8, <2>1 DEF Published, LoudNames
<1>10. Aspect(ev) = "none" BY <1>8 DEF Aspect
<1>11. r \in chain'.queue /\ r[1] = ev.data[1] /\ r[2] = ev.topics[2] BY <1>5, <1>6, <1>8
<1>12. Spoken(chain, chain', ev)
  BY <1>3, <1>5, <1>9, <1>10, <1>11 DEF Spoken, Held, Aspects
<1> QED BY <1>2, <1>12 DEF Heard, ev

LEMMA LeavingSays ==
  ASSUME Begun, ProcessRedemption \/ CancelRedemption
  PROVE  Heard
<1> DEFINE Left(r, name, same) ==
             /\ history' = Append(history, Joined(Raw(Vault, name, <<r[2]>>, "vec", <<r[1], r[3]>>), Place(same)))
             /\ \/ chain' = [chain EXCEPT !.queue = @ \ {r}]
                \/ chain' = [chain EXCEPT !.queue = @ \ {r}, !.held[r[2]] = @ + r[3]]
<1>1. PICK r \in chain.queue, name \in {"erq_done", "erq_can"}, same \in BOOLEAN : Left(r, name, same)
  <2>1. CASE ProcessRedemption
    <3>1. PICK r \in chain.queue :
            /\ Emit("queue", Vec("erq_done", <<r[2]>>, <<r[1], r[3]>>))
            /\ chain' = [chain EXCEPT !.queue = @ \ {r}]
      BY <2>1, Zenon DEF ProcessRedemption
    <3>2. PICK same \in BOOLEAN :
            history' = Append(history, Joined(Raw(Vault, "erq_done", <<r[2]>>, "vec", <<r[1], r[3]>>), Place(same)))
      BY <3>1, Zenon DEF Emit, Place, Vec
    <3>3. Left(r, "erq_done", same) BY <3>1, <3>2
    <3> HIDE DEF Left
    <3> QED BY <3>3
  <2>2. CASE CancelRedemption
    <3>1. PICK r \in chain.queue :
            /\ Emit("queue", Vec("erq_can", <<r[2]>>, <<r[1], r[3]>>))
            /\ chain' = [chain EXCEPT !.queue = @ \ {r}, !.held[r[2]] = @ + r[3]]
      BY <2>2, Zenon DEF CancelRedemption
    <3>2. PICK same \in BOOLEAN :
            history' = Append(history, Joined(Raw(Vault, "erq_can", <<r[2]>>, "vec", <<r[1], r[3]>>), Place(same)))
      BY <3>1, Zenon DEF Emit, Place, Vec
    <3>3. Left(r, "erq_can", same) BY <3>1, <3>2
    <3> HIDE DEF Left
    <3> QED BY <3>3
  <2> HIDE DEF Left
  <2> QED BY <2>1, <2>2
<1>2. chain.created BY <1>1 DEF Begun, NewChain
<1>3. DOMAIN chain = Fields BY DEF Begun
<1>4. /\ chain'.created /\ DOMAIN chain' = Fields /\ chain'.state = chain.state
      /\ chain'.roles = chain.roles /\ chain'.operators = chain.operators
      /\ chain'.queue = chain.queue \ {r}
  BY <1>1, <1>2, <1>3 DEF Fields
<1> DEFINE data == <<r[1], r[3]>>
           ev == Joined(Raw(Vault, name, <<r[2]>>, "vec", data), Place(same))
<1>5. DOMAIN data = 1..2 /\ data[1] = r[1] OBVIOUS
<1>6. Says(ev, Vault, name, <<name, r[2]>>, "vec", data)
  <2> HIDE DEF data
  <2> QED BY PlaceShape, Placed
<1>7. history' = Append(history, ev) BY <1>1
<1> HIDE DEF ev, data
<1>8. /\ ev.contract = Vault /\ ev.name = name /\ ev.topics = <<name, r[2]>>
      /\ ev.form = "vec" /\ ev.data = data
  BY <1>6 DEF Says
<1>9. Published(ev)
  <2>1. Len(ev.topics) = 2 BY <1>8
  <2> QED BY <1>5, <1>8, <2>1 DEF Published, LoudNames
<1>10. Aspect(ev) = "none" BY <1>8 DEF Aspect
<1>11. \A q \in chain.queue : q \in chain'.queue \/ (ev.name \in {"erq_done", "erq_can"} /\ ev.data[1] = q[1])
  BY <1>4, <1>5, <1>8
<1>12. Spoken(chain, chain', ev)
  BY <1>2, <1>4, <1>8, <1>9, <1>10, <1>11 DEF Spoken, Held, Aspects
<1> QED BY <1>7, <1>12 DEF Heard

\* An event of the contracts tells what it changed.
LEMMA EmitsSay ==
  ASSUME Begun, Emits
  PROVE  Heard
<1>1. CASE Distribute BY <1>1, SharesSay DEF Heard
<1>2. CASE \E u \in Users : Deposit(u) \/ Withdraw(u) \/ Claim(u) BY <1>2, SharesSay DEF Heard
<1>3. CASE \E u, w \in Users : Transfer(u, w) BY <1>3, SharesSay DEF Heard
<1>4. ASSUME NEW u \in Users, RequestRedemption(u) PROVE Heard BY <1>4, RequestSays
<1>5. CASE ProcessRedemption \/ CancelRedemption BY <1>5, LeavingSays
<1>6. ASSUME NEW s \in {"Active", "Matured", "Closed"}, ChangeState(s) PROVE Heard
  BY <1>6, ChangeStateSays
<1>7. CASE CancelFunding BY <1>7, CancelFundingSays
<1>8. CASE Other BY <1>8, OtherSays
<1>9. ASSUME NEW on \in BOOLEAN, SetOperator(on) PROVE Heard BY <1>9, SetOperatorSays
<1>10. ASSUME NEW on \in BOOLEAN, SetRole(on) PROVE Heard BY <1>10, SetRoleSays
<1>11. CASE Create BY <1>11, CreateSays
<1> QED
  BY <1>1, <1>2, <1>3, <1>4, <1>5, <1>6, <1>7, <1>8, <1>9, <1>10, <1>11, Zenon DEF Emits

-----------------------------------------------------------------------------
(* The last word of the history *)

LEMMA Longer ==
  ASSUME NEW S, NEW h \in Seq(S), NEW x
  PROVE  LET g == Append(h, x)
         IN  /\ g \in Seq(S \cup {x}) /\ Len(h) \in Nat /\ Len(g) = Len(h) + 1
             /\ \A i \in 1..Len(h) : g[i] = h[i]
             /\ g[Len(h) + 1] = x
<1> DEFINE T == S \cup {x}
<1>1. h \in Seq(T) /\ x \in T OBVIOUS
<1> HIDE DEF T
<1> QED BY <1>1, AppendProperties, LenProperties DEF T

\* The history begins with the vault and holds events of the shapes above.
WellRead ==
  /\ \E S : history \in Seq(S)
  /\ \A j \in 1..Len(history) : Published(history[j])
  /\ chain.created <=> Len(history) > 0
  /\ Len(history) > 0 => history[1].name = "v_create"
\* What has been delivered has brought the vault.
Followable ==
  /\ Shaped(db) /\ Staffed(db)
  /\ at \in 0..Len(history)
  /\ at > 0 => Known(db, Vault)
\* Event l is the last word on k (0: there is none), and heard.
Tells(k, l) ==
  /\ l \in 0..Len(history)
  /\ \A j \in (l + 1)..Len(history) : Aspect(history[j]) # k
  /\ l > 0 => Aspect(history[l]) = k /\ Word(history[l]) = Held(chain, k)
  /\ at >= l => Shown(db, k) = Held(chain, k)
LastWords == "resync" \notin mix.kinds => \A k \in Aspects : \E l \in 0..Len(history) : Tells(k, l)
WordInv == Begun /\ WellRead /\ Followable /\ LastWords

LEMMA WordInitially ==
  ASSUME Init
  PROVE  WordInv
<1>1. chain = NewChain /\ history = <<>> /\ at = 0 /\ db \in {Neighbours, EmptyDatabase} BY DEF Init
<1>2. history \in Seq({}) /\ Len(history) = 0 BY <1>1
<1>3. Begun BY <1>1 DEF Begun, NewChain, Fields
<1>4. WellRead BY <1>1, <1>2 DEF WellRead, NewChain
<1>5. db.operators = <<>> /\ db.roles = <<>> /\ ~Known(db, Vault)
  <2>1. CASE db = EmptyDatabase BY <2>1 DEF EmptyDatabase, Known
  <2>2. CASE db = Neighbours
    BY <2>2, VaultAssumption DEF Neighbours, EmptyDatabase, Known
  <2> QED BY <1>1, <2>1, <2>2
<1>6. Followable BY <1>1, <1>2, <1>5, ShapedInitially DEF Followable, Staffed
<1>7. \A k \in Aspects : Shown(db, k) = Held(chain, k)
  <2>1. Shown(db, "state") = "Funding" BY <1>5 DEF Shown
  <2>2. Shown(db, "operators") = {} BY <1>5 DEF Shown, ListVaultOperators
  <2>3. Shown(db, "roles") = {} BY <1>5 DEF Shown, ListVaultRoles
  <2>4. Held(chain, "state") = "Funding" /\ Held(chain, "operators") = {} /\ Held(chain, "roles") = {}
    BY <1>1 DEF Held, NewChain
  <2> QED BY <2>1, <2>2, <2>3, <2>4 DEF Aspects
<1>8. \A k \in Aspects : Tells(k, 0) BY <1>1, <1>2, <1>7 DEF Tells
<1>9. LastWords BY <1>2, <1>8 DEF LastWords
<1> QED BY <1>3, <1>4, <1>6, <1>9 DEF WordInv

LEMMA WordSpoken ==
  ASSUME WordInv, Emits
  PROVE  WordInv'
<1>1. PICK ev : history' = Append(history, ev) /\ Spoken(chain, chain', ev)
  BY EmitsSay DEF WordInv, Heard
<1>2. at' = at /\ db' = db /\ mix' = mix /\ at = Len(history)
  BY EmitsQuiet DEF StillTables, CaughtUp
<1>3. PICK S : history \in Seq(S) BY DEF WordInv, WellRead
<1>4. /\ history' \in Seq(S \cup {ev}) /\ Len(history) \in Nat /\ Len(history') = Len(history) + 1
      /\ \A i \in 1..Len(history) : history'[i] = history[i]
      /\ history'[Len(history) + 1] = ev
  BY <1>1, <1>3, Longer
<1>5. Begun' BY <1>1 DEF Spoken, Begun
<1>6. WellRead'
  <2>1. chain'.created /\ Published(ev) BY <1>1 DEF Spoken
  <2>2. \A j \in 1..Len(history') : Published(history'[j])
    BY <1>4, <2>1 DEF WordInv, WellRead
  <2>3. history'[1].name = "v_create"
    <3>1. CASE Len(history) = 0 BY <1>1, <1>4, <3>1 DEF WordInv, WellRead, Spoken
    <3>2. CASE Len(history) > 0 BY <1>4, <3>2 DEF WordInv, WellRead
    <3> QED BY <1>4, <3>1, <3>2
  <2> QED BY <1>4, <2>1, <2>2, <2>3 DEF WellRead
<1>7. Followable' BY <1>2, <1>4 DEF WordInv, Followable, Shaped, Staffed, Known
<1>8. LastWords'
  <2> SUFFICES ASSUME "resync" \notin mix.kinds, NEW k \in Aspects
               PROVE  \E l \in 0..Len(history') : Tells(k, l)'
    BY <1>2 DEF LastWords
  <2>1. PICK l \in 0..Len(history) : Tells(k, l) BY DEF WordInv, LastWords
  <2>2. Held(chain', k) = IF Aspect(ev) = k THEN Word(ev) ELSE Held(chain, k) BY <1>1 DEF Spoken
  <2>3. CASE Aspect(ev) = k
    <3>1. PICK n \in Nat : n = Len(history) + 1 BY <1>4
    <3>2. n \in 0..Len(history') /\ history'[n] = ev /\ ~(at' >= n) BY <1>2, <1>4, <3>1
    <3>3. \A j \in (n + 1)..Len(history') : FALSE BY <1>4, <3>1
    <3>4. Tells(k, n)' BY <2>2, <2>3, <3>2, <3>3 DEF Tells
    <3> QED BY <3>2, <3>4
  <2>4. CASE Aspect(ev) # k
    <3>1. Shown(db', k) = Shown(db, k) BY <1>2
    <3>2. Tells(k, l)' BY <1>2, <1>4, <2>1, <2>2, <2>4, <3>1 DEF Tells
    <3> QED BY <1>4, <3>2
  <2> QED BY <2>3, <2>4
<1> QED BY <1>5, <1>6, <1>7, <1>8 DEF WordInv

LEMMA WordDelivered ==
  ASSUME WordInv, Deliver
  PROVE  WordInv'
<1> DEFINE ev == history[at + 1]
<1>1. db' = Indexed(db, ev) /\ at' = at + 1 /\ at # Len(history)
      /\ chain' = chain /\ history' = history /\ mix' = mix
  BY DEF Deliver, CaughtUp
<1>2. Len(history) \in Nat BY LenProperties DEF WordInv, WellRead
<1>3. at \in 0..Len(history) /\ at + 1 \in 1..Len(history)
  BY <1>1, <1>2 DEF WordInv, Followable
<1>4. Published(ev) BY <1>3 DEF WordInv, WellRead
<1>5. Known(db, Vault) \/ ev.name = "v_create"
  BY <1>3 DEF WordInv, WellRead, Followable
<1>6. Shaped(db) /\ Staffed(db) BY DEF WordInv, Followable
<1> HIDE DEF ev
<1>7. /\ Shaped(db') /\ Staffed(db') /\ Known(db', Vault)
      /\ \A k \in Aspects : Shown(db', k) = IF Aspect(ev) = k THEN Word(ev) ELSE Shown(db, k)
  BY <1>1, <1>4, <1>5, <1>6, WordTaken
<1>8. Begun' /\ WellRead' BY <1>1 DEF WordInv, Begun, WellRead
<1>9. Followable' BY <1>1, <1>3, <1>7 DEF Followable, Shaped, Staffed, Known
<1>10. LastWords'
  <2> SUFFICES ASSUME "resync" \notin mix.kinds, NEW k \in Aspects
               PROVE  \E l \in 0..Len(history) : Tells(k, l)'
    BY <1>1 DEF LastWords
  <2>1. PICK l \in 0..Len(history) : Tells(k, l) BY DEF WordInv, LastWords
  <2>2. Shown(db', k) = IF Aspect(ev) = k THEN Word(ev) ELSE Shown(db, k) BY <1>7
  <2>3. at + 1 >= l => Shown(db', k) = Held(chain, k)
    <3>1. CASE at + 1 = l
      BY <1>2, <1>3, <2>1, <2>2, <3>1 DEF Tells, ev
    <3>2. CASE at >= l
      <4>1. Aspect(ev) # k BY <1>2, <1>3, <2>1, <3>2 DEF Tells, ev
      <4> QED BY <2>1, <2>2, <3>2, <4>1 DEF Tells
    <3> QED BY <1>2, <1>3, <2>1, <3>1, <3>2
  <2>4. Tells(k, l)' BY <1>1, <2>1, <2>3 DEF Tells
  <2> QED BY <2>4
<1> QED BY <1>8, <1>9, <1>10 DEF WordInv

LEMMA WordUndisturbed ==
  ASSUME WordInv, [Next]_vars, ~Emits, ~Deliver
  PROVE  WordInv'
<1>1. Len(history) \in Nat BY LenProperties DEF WordInv, WellRead
<1>2. CASE Tends
  <2>1. Framed(Followed \ {"reports"}, db, db') /\ chain' = chain /\ history' = history /\ at' = at /\ mix' = mix
    BY <1>2, TendsQuiet DEF WordInv, Followable
  <2>2. /\ Shaped(db') /\ Staffed(db') /\ Known(db', Vault) = Known(db, Vault)
        /\ \A k \in Aspects : Shown(db', k) = Shown(db, k)
    <3>1. {"operators", "roles"} \subseteq Followed \ {"reports"} BY DEF Followed, Still
    <3> QED BY <2>1, <3>1, ShownStill DEF WordInv, Followable
  <2>3. Begun' /\ WellRead' BY <2>1 DEF WordInv, Begun, WellRead
  <2>4. Followable' BY <2>1, <2>2 DEF WordInv, Followable, Shaped, Staffed, Known
  <2>5. ASSUME NEW k \in Aspects, NEW l, Tells(k, l) PROVE Tells(k, l)'
    BY <2>1, <2>2, <2>5 DEF Tells
  <2>6. LastWords' BY <2>1, <2>5 DEF WordInv, LastWords
  <2> QED BY <2>3, <2>4, <2>6 DEF WordInv
<1>3. CASE Resync
  <2> DEFINE new == [Defaults EXCEPT !.totalAssets = Supply, !.totalSupply = Supply]
  <2>1. /\ db' = UpsertVault(db, Vault, new) /\ "resync" \in mix.kinds
        /\ chain' = chain /\ history' = history /\ at' = at /\ mix' = mix
    BY <1>3 DEF Resync
  <2> HIDE DEF new
  <2>2. StateWritten(db, db', Vault, new.state) BY <2>1, VaultUpserted DEF WordInv, Followable
  <2>3. db'["operators"] = db["operators"] /\ db'["roles"] = db["roles"]
    BY <2>2 DEF StateWritten, Keeps, Followed, Still
  <2>4. Shaped(db') /\ Staffed(db') /\ Known(db', Vault)
    BY <2>2, <2>3 DEF StateWritten, Staffed, Known, WordInv, Followable
  <2>5. Begun' /\ WellRead' BY <2>1 DEF WordInv, Begun, WellRead
  <2>6. Followable' BY <2>1, <2>4 DEF WordInv, Followable, Shaped, Staffed, Known
  <2>7. LastWords' BY <2>1 DEF LastWords
  <2> QED BY <2>5, <2>6, <2>7 DEF WordInv
<1>4. CASE Rewind
  <2>1. PICK i \in 0..(at - 1) : at' = i BY <1>4 DEF Rewind
  <2>2. db' = db /\ chain' = chain /\ history' = history /\ mix' = mix BY <1>4 DEF Rewind
  <2>3. at \in 0..Len(history) /\ at' \in 0..Len(history) /\ at' < at
    BY <1>1, <2>1 DEF WordInv, Followable
  <2>4. Begun' /\ WellRead' BY <2>2 DEF WordInv, Begun, WellRead
  <2>5. Followable' BY <2>2, <2>3 DEF WordInv, Followable, Shaped, Staffed, Known
  <2>6. ASSUME NEW k \in Aspects, NEW l, Tells(k, l) PROVE Tells(k, l)'
    <3>1. at' >= l => at >= l BY <1>1, <2>3, <2>6 DEF Tells
    <3>2. Shown(db', k) = Shown(db, k) BY <2>2
    <3> QED BY <2>2, <2>6, <3>1, <3>2 DEF Tells
  <2>7. LastWords' BY <2>2, <2>6 DEF WordInv, LastWords
  <2> QED BY <2>4, <2>5, <2>7 DEF WordInv
<1>5. CASE UNCHANGED vars
  <2>1. db' = db /\ chain' = chain /\ history' = history /\ at' = at /\ mix' = mix BY <1>5 DEF vars
  <2>2. Begun' /\ WellRead' BY <2>1 DEF WordInv, Begun, WellRead
  <2>3. Followable' BY <2>1 DEF WordInv, Followable, Shaped, Staffed, Known
  <2>4. ASSUME NEW k \in Aspects, NEW l, Tells(k, l) PROVE Tells(k, l)'
    <3>1. Shown(db', k) = Shown(db, k) BY <2>1
    <3> QED BY <2>1, <2>4, <3>1 DEF Tells
  <2>5. LastWords' BY <2>1, <2>4 DEF WordInv, LastWords
  <2> QED BY <2>2, <2>3, <2>5 DEF WordInv
<1> QED BY <1>2, <1>3, <1>4, <1>5, StepsOf

LEMMA WordShown ==
  ASSUME WordInv
  PROVE  SettingsFollowChain
<1> SUFFICES ASSUME CaughtUp, Known(db, Vault), "resync" \notin mix.kinds
             PROVE  /\ GetVault(db, Vault).state = chain.state
                    /\ ListVaultOperators(db, Vault) = chain.operators
                    /\ ListVaultRoles(db, Vault) = chain.roles \X {"Treasury"}
  BY DEF SettingsFollowChain
<1>1. Len(history) \in Nat BY LenProperties DEF WordInv, WellRead
<1>2. ASSUME NEW k \in Aspects
      PROVE  Shown(db, k) = Held(chain, k)
  <2>1. PICK l \in 0..Len(history) : Tells(k, l) BY DEF WordInv, LastWords
  <2> QED BY <1>1, <2>1 DEF Tells, CaughtUp
<1>3. Shown(db, "state") = Held(chain, "state") /\ Shown(db, "operators") = Held(chain, "operators")
      /\ Shown(db, "roles") = Held(chain, "roles")
  BY <1>2 DEF Aspects
<1>4. db.vaults[Vault].state = chain.state BY <1>3 DEF Shown, Held
<1>5. "state" \in DOMAIN db.vaults[Vault] BY DEF WordInv, Followable, Shaped, Known
<1>6. GetVault(db, Vault).state = db.vaults[Vault].state BY <1>5 DEF GetVault, MapVaultRow, Joined
<1> QED BY <1>3, <1>4, <1>6 DEF Shown, Held

\* After any number of deliveries, from any earlier event on, the state and the
\* staff the API shows are those of the contract: the last word of the history
\* wins (handleStateChange, handleOperatorAdded, handleRoleGranted).
THEOREM LastWordWins == Spec => []SettingsFollowChain
<1>1. Init => WordInv BY WordInitially
<1>2. WordInv /\ [Next]_vars => WordInv' BY WordSpoken, WordDelivered, WordUndisturbed
<1>3. WordInv => SettingsFollowChain BY WordShown
<1> QED BY <1>1, <1>2, <1>3, PTL DEF Spec

-----------------------------------------------------------------------------
(* The queue *)

Queueing == {"erq_req", "erq_done", "erq_can"}
RequestFields == {"id", "shares", "processed", "gross", "fee", "cancelled", "processedAt"}
Rowed(d) == \A k \in DOMAIN d.requests : DOMAIN d.requests[k] = RequestFields

\* The other events leave the requests alone.
LEMMA RequestsUntouched ==
  ASSUME NEW d, Shaped(d), NEW ev, Published(ev), ev.name \notin Queueing
  PROVE  Indexed(d, ev).requests = d.requests
<1> DEFINE p == Parsed(ev)
           c == ev.contract
           f == Indexed(d, ev)
<1>1. "requests" \in Still /\ "requests" \in Followed BY DEF Followed, Still
<1>2. ASSUME NEW tables, NEW a, NEW b, "requests" \in tables, Framed(tables, a, b)
      PROVE  b["requests"] = a["requests"]
  BY <1>2 DEF Framed, Keeps
<1>3. CASE ev.name \in QuietNames BY <1>1, <1>2, <1>3, QuietIndexed
<1>4. CASE p = None
  <2>1. Framed(Still, d, f) BY <1>4, IndexedAround
  <2> QED BY <1>1, <1>2, <2>1
<1>5. CASE ev.name \in LoudNames /\ p # None
  <2>1. PICK here, e : /\ Framed(Still, d, here) /\ e = Handled(here, ev, p)
                       /\ Framed(Still, e, f)
    BY <1>5, LoudIndexed
  <2>2. Shaped(here) BY <2>1 DEF Framed
  <2>3. p.type \in {"deposit", "withdraw", "yield_distributed", "cancel_funding",
                    "vault_state_changed", "vault_created", "operator_added", "operator_removed",
                    "role_granted", "role_revoked", "yield_claimed", "yield_claimed_partial"}
    BY <1>5, LoudRead DEF ReadAs, LoudNames, Queueing
  <2> HIDE DEF p, f
  <2>4. e["requests"] = here["requests"]
    <3>1. CASE p.type \in {"deposit", "withdraw"}
      <4>2. Framed(Followed \ {"positions"}, here, e) BY <2>1, <2>2, <3>1, LoudHandled, PositionsWritten
      <4> QED BY <1>1, <1>2, <4>2
    <3>2. CASE p.type = "yield_distributed"
      <4>1. e = HandleYieldDistributed(RecordEvent(HandleYieldDistributed(here, c, p), ev, p), c, p)
        BY <2>1, <3>2, LoudHandled
      <4>2. Framed(Followed \ {"snapshots", "epochs", "log"}, here, e)
        BY <2>2, <4>1, DistributionLogged
      <4> QED BY <1>1, <1>2, <4>2
    <3>3. CASE p.type \in {"yield_claimed", "yield_claimed_partial"}
      <4>1. e = HandleYieldClaimed(here, c, p) BY <2>1, <3>3, LoudHandled
      <4>2. Framed(Followed \ {"snapshots", "positions", "epochs"}, here, e) BY <2>2, <4>1, YieldClaimed
      <4> QED BY <1>1, <1>2, <4>2
    <3>4. CASE p.type \in {"operator_added", "operator_removed", "role_granted", "role_revoked"}
      <4>1. e \in {HandleOperatorAdded(here, c, p), HandleOperatorRemoved(here, c, p),
                   HandleRoleGranted(here, c, p), HandleRoleRevoked(here, c, p)}
        BY <2>1, <3>4, LoudHandled
      <4>2. Framed(Followed \ {"operators"}, here, e) \/ Framed(Followed \ {"roles"}, here, e)
        BY <2>2, <4>1, StaffWritten
      <4> QED BY <1>1, <1>2, <4>2
    <3>5. CASE p.type \in {"cancel_funding", "vault_created", "vault_state_changed"}
      <4>2. Keeps(Followed, here, e)
        <5>1. CASE p.type = "cancel_funding"
          BY <2>1, <2>2, <5>1, LoudHandled, FundingCancelled DEF StateWritten
        <5>2. CASE p.type = "vault_created"
          BY <2>1, <2>2, <5>2, LoudHandled, VaultCreated DEF StateWritten
        <5>3. CASE p.type = "vault_state_changed"
          <6>1. e = HandleVaultStateChanged(here, c, p) BY <2>1, <5>3, LoudHandled
          <6>2. Keeps(Followed, here, here) BY DEF Keeps
          <6> QED BY <2>2, <6>1, <6>2, StateChanged DEF StateWritten
        <5> QED BY <3>5, <5>1, <5>2, <5>3
      <4> QED BY <1>1, <4>2 DEF Keeps
    <3> QED BY <2>3, <3>1, <3>2, <3>3, <3>4, <3>5
  <2>5. here["requests"] = d["requests"] /\ f["requests"] = e["requests"] BY <1>1, <1>2, <2>1
  <2> QED BY <2>4, <2>5 DEF f
<1> QED BY <1>3, <1>4, <1>5 DEF Published

\* What the parsers make of the events of the queue.
LEMMA QueueRead ==
  ASSUME NEW ev, Published(ev), ev.name \in Queueing
  PROVE  LET p == Parsed(ev)
         IN  /\ p # None /\ p.requestId = ev.data[1]
             /\ ev.name = "erq_req" => p.type = "request_early_redemption" /\ p.user = ev.topics[2]
             /\ ev.name = "erq_done" => p.type = "early_redemption_processed"
             /\ ev.name = "erq_can" => p.type = "early_redemption_cancelled"
<1> DEFINE p == Parsed(ev)
<1>1. None.type = "none" BY DEF None
<1>2. Len(ev.topics) >= 2 /\ ev.form = "vec" /\ 1 \in DOMAIN ev.data BY DEF Published, Queueing
<1>3. At(Values(ev), 1, 0) = ev.data[1] BY <1>2 DEF Values, At
<1>4. CASE ev.name = "erq_req"
  <2>1. p = ParseRequestEarlyRedemptionEvent(ev) BY <1>4, LoudRead DEF ReadAs
  <2>2. Reads(ev, {"erq_req", "request_early_redemption"}, 2) BY <1>2, <1>4 DEF Reads
  <2>3. ParseRequestEarlyRedemptionEvent(ev).type = "request_early_redemption"
    BY <2>2 DEF ParseRequestEarlyRedemptionEvent
  <2>4. ParseRequestEarlyRedemptionEvent(ev).requestId = At(Values(ev), 1, 0)
    BY <2>2 DEF ParseRequestEarlyRedemptionEvent
  <2>5. ParseRequestEarlyRedemptionEvent(ev).user = Topic(ev, 2)
    BY <2>2 DEF ParseRequestEarlyRedemptionEvent
  <2>6. Topic(ev, 2) = At(ev.topics, 2, NoWord) BY Zenon DEF Topic, NoWord
  <2>7. At(ev.topics, 2, NoWord) = ev.topics[2] BY <1>4 DEF At, Published
  <2> HIDE DEF p
  <2> QED BY <1>1, <1>3, <1>4, <2>1, <2>3, <2>4, <2>5, <2>6, <2>7 DEF p
<1>5. CASE ev.name = "erq_done"
  <2>1. p = ParseEarlyRedemptionProcessedEvent(ev) BY <1>5, LoudRead DEF ReadAs
  <2>2. Reads(ev, {"erq_done", "early_redemption_processed"}, 2) BY <1>2, <1>5 DEF Reads
  <2>3. ParseEarlyRedemptionProcessedEvent(ev).type = "early_redemption_processed"
    BY <2>2 DEF ParseEarlyRedemptionProcessedEvent
  <2>4. ParseEarlyRedemptionProcessedEvent(ev).requestId = At(Values(ev), 1, 0)
    BY <2>2 DEF ParseEarlyRedemptionProcessedEvent
  <2> HIDE DEF p
  <2> QED BY <1>1, <1>3, <1>5, <2>1, <2>3, <2>4 DEF p
<1>6. CASE ev.name = "erq_can"
  <2>1. p = ParseEarlyRedemptionCancelledEvent(ev) BY <1>6, LoudRead DEF ReadAs
  <2>2. Reads(ev, {"erq_can", "erq_can2", "early_redemption_cancelled"}, 2) BY <1>2, <1>6 DEF Reads
  <2>3. ParseEarlyRedemptionCancelledEvent(ev).type = "early_redemption_cancelled"
    BY <2>2 DEF ParseEarlyRedemptionCancelledEvent
  <2>4. ParseEarlyRedemptionCancelledEvent(ev).requestId = At(Values(ev), 1, 0)
    BY <2>2 DEF ParseEarlyRedemptionCancelledEvent
  <2> HIDE DEF p
  <2> QED BY <1>1, <1>3, <1>6, <2>1, <2>3, <2>4 DEF p
<1> QED BY <1>4, <1>5, <1>6 DEF Queueing

\* The rows of the requests after an event of the queue.
LEMMA RowsWritten ==
  ASSUME NEW d, Shaped(d), Rowed(d), Known(d, Vault), NEW p
  PROVE  /\ LET e == HandleRequestEarlyRedemption(d, Vault, p)
            IN  /\ Rowed(e)
                /\ \A k \in WaitingRequests(e, Vault) :
                     \/ k \in WaitingRequests(d, Vault) /\ e.requests[k].id = d.requests[k].id
                     \/ k[2] = p.user /\ e.requests[k].id = p.requestId
         /\ \A e \in {HandleEarlyRedemptionProcessed(d, Vault, p),
                      HandleEarlyRedemptionCancelled(d, Vault, p)} :
              /\ Rowed(e)
              /\ \A k \in WaitingRequests(e, Vault) :
                   /\ k \in WaitingRequests(d, Vault) /\ e.requests[k].id = d.requests[k].id
                   /\ e.requests[k].id # p.requestId
<1>1. "requests" \in DOMAIN d BY DEF Shaped, Tables
<1>2. LET e == HandleRequestEarlyRedemption(d, Vault, p)
      IN  /\ Rowed(e)
          /\ \A k \in WaitingRequests(e, Vault) :
               \/ k \in WaitingRequests(d, Vault) /\ e.requests[k].id = d.requests[k].id
               \/ k[2] = p.user /\ e.requests[k].id = p.requestId
  <2> DEFINE e == HandleRequestEarlyRedemption(d, Vault, p)
             key == <<Vault, p.user, p.timestamp>>
             row == IF key \in DOMAIN d.requests THEN [d.requests[key] EXCEPT !.id = p.requestId]
                    ELSE [id |-> p.requestId, shares |-> p.shares, processed |-> FALSE,
                          gross |-> 0, fee |-> 0, cancelled |-> FALSE, processedAt |-> 0]
  <2>1. DOMAIN row = RequestFields /\ row.id = p.requestId BY DEF Rowed, RequestFields
  <2>2. key[2] = p.user OBVIOUS
  <2>3. e = [d EXCEPT !.requests = Upsert(@, key, row)] BY DEF HandleRequestEarlyRedemption
  <2> HIDE DEF e, key, row
  <2>4. e.requests = Upsert(d.requests, key, row) BY <1>1, <2>3
  <2>5. /\ DOMAIN e.requests = DOMAIN d.requests \cup {key} /\ e.requests[key] = row
        /\ \A k \in DOMAIN d.requests \ {key} : e.requests[k] = d.requests[k]
    BY <2>4 DEF Upsert
  <2>6. Rowed(e) BY <2>1, <2>5 DEF Rowed
  <2>7. ASSUME NEW k \in WaitingRequests(e, Vault)
        PROVE  \/ k \in WaitingRequests(d, Vault) /\ e.requests[k].id = d.requests[k].id
               \/ k[2] = p.user /\ e.requests[k].id = p.requestId
    BY <2>1, <2>2, <2>5 DEF WaitingRequests
  <2> QED BY <2>6, <2>7 DEF e
<1>3. ASSUME NEW e,
             \/ e = HandleEarlyRedemptionProcessed(d, Vault, p)
             \/ e = HandleEarlyRedemptionCancelled(d, Vault, p)
      PROVE  /\ Rowed(e)
             /\ \A k \in WaitingRequests(e, Vault) :
                  /\ k \in WaitingRequests(d, Vault) /\ e.requests[k].id = d.requests[k].id
                  /\ e.requests[k].id # p.requestId
  <2> DEFINE open == OpenRequests(d, Vault, p.requestId)
  <2>1. /\ DOMAIN e.requests = DOMAIN d.requests
        /\ \A k \in DOMAIN d.requests :
             /\ k \in open => /\ DOMAIN e.requests[k] = DOMAIN d.requests[k]
                              /\ e.requests[k].processed = TRUE
             /\ k \notin open => e.requests[k] = d.requests[k]
    <3>1. CASE e = HandleEarlyRedemptionProcessed(d, Vault, p)
      <4> DEFINE v == d.vaults[Vault]
                 gross(r) == IF v.totalSupply > 0 THEN (r.shares * v.totalAssets) \div v.totalSupply
                             ELSE r.shares
                 done(k) == [d.requests[k] EXCEPT !.processed = TRUE, !.gross = gross(d.requests[k]),
                                           !.fee = Lower(gross(d.requests[k]), p.netAssets)]
                 table == [k \in DOMAIN d.requests |-> IF k \in open THEN done(k) ELSE d.requests[k]]
      <4>1. e = [d EXCEPT !.requests = table] BY <3>1, Zenon DEF HandleEarlyRedemptionProcessed
      <4>2. \A k \in DOMAIN d.requests : DOMAIN done(k) = DOMAIN d.requests[k] /\ done(k).processed = TRUE
        BY DEF Rowed, RequestFields
      <4> HIDE DEF done, open
      <4>3. e.requests = table BY <1>1, <4>1
      <4> QED BY <4>2, <4>3
    <3>2. CASE e = HandleEarlyRedemptionCancelled(d, Vault, p)
      <4> DEFINE done(k) == [d.requests[k] EXCEPT !.processed = TRUE]
                 table == [k \in DOMAIN d.requests |-> IF k \in open THEN done(k) ELSE d.requests[k]]
      <4>1. e = [d EXCEPT !.requests = table] BY <3>2 DEF HandleEarlyRedemptionCancelled
      <4>2. \A k \in DOMAIN d.requests : DOMAIN done(k) = DOMAIN d.requests[k] /\ done(k).processed = TRUE
        BY DEF Rowed, RequestFields
      <4> HIDE DEF done, open
      <4>3. e.requests = table BY <1>1, <4>1
      <4> QED BY <4>2, <4>3
    <3> QED BY <1>3, <3>1, <3>2
  <2>2. Rowed(e) BY <2>1 DEF Rowed
  <2>3. ASSUME NEW k \in WaitingRequests(e, Vault)
        PROVE  /\ k \in WaitingRequests(d, Vault) /\ e.requests[k].id = d.requests[k].id
               /\ e.requests[k].id # p.requestId
    <3>1. k \in DOMAIN d.requests /\ k[1] = Vault /\ ~e.requests[k].processed
      BY <2>1 DEF WaitingRequests
    <3>2. k \notin open
      <4> HIDE DEF open
      <4> QED BY <2>1, <3>1
    <3>3. e.requests[k] = d.requests[k] BY <2>1, <3>1, <3>2
    <3> QED BY <3>1, <3>2, <3>3 DEF WaitingRequests, OpenRequests
  <2> QED BY <2>2, <2>3
<1> QED BY <1>2, <1>3

\* A request shown after an event was shown before it and is not named by it, or is its own.
StillWaits(d, e, ev, k) ==
  \/ /\ k \in WaitingRequests(d, Vault) /\ e.requests[k].id = d.requests[k].id
     /\ ev.name \in {"erq_done", "erq_can"} => e.requests[k].id # ev.data[1]
  \/ ev.name = "erq_req" /\ k[2] = ev.topics[2] /\ e.requests[k].id = ev.data[1]
LEMMA QueueIndexed ==
  ASSUME NEW d, Shaped(d), Rowed(d), NEW ev, Published(ev), Known(d, Vault) \/ ev.name = "v_create"
  PROVE  LET e == Indexed(d, ev)
         IN  Rowed(e) /\ \A k \in WaitingRequests(e, Vault) : StillWaits(d, e, ev, k)
<1> DEFINE p == Parsed(ev)
           f == Indexed(d, ev)
<1>1. CASE ev.name \notin Queueing
  <2>1. f.requests = d.requests BY <1>1, RequestsUntouched
  <2> HIDE DEF f
  <2>2. ev.name \notin {"erq_done", "erq_can"} BY <1>1 DEF Queueing
  <2>3. Rowed(f) /\ \A k \in WaitingRequests(f, Vault) : StillWaits(d, f, ev, k)
    BY <2>1, <2>2 DEF Rowed, WaitingRequests, StillWaits
  <2> QED BY <2>3 DEF f
<1>2. CASE ev.name \in Queueing
  <2>1. PICK here, e : /\ Framed(Still, d, here) /\ e = Handled(here, ev, p)
                       /\ Framed(Still, e, f)
    BY <1>2, QueueRead, LoudIndexed
  <2>2. Shaped(here) /\ Known(here, Vault)
    BY <1>2, <2>1 DEF Framed, SameStates, Known, Queueing
  <2>3. here["requests"] = d["requests"] /\ f["requests"] = e["requests"]
    BY <2>1 DEF Framed, Keeps, Followed, Still
  <2>4. here.requests = d.requests /\ f.requests = e.requests BY <2>3
  <2>5. Rowed(here) /\ WaitingRequests(here, Vault) = WaitingRequests(d, Vault)
    BY <2>4 DEF Rowed, WaitingRequests
  <2>6. ev.contract = Vault BY <1>2 DEF Published, Queueing
  <2>7. /\ p.requestId = ev.data[1]
        /\ ev.name = "erq_req" => p.type = "request_early_redemption" /\ p.user = ev.topics[2]
        /\ ev.name = "erq_done" => p.type = "early_redemption_processed"
        /\ ev.name = "erq_can" => p.type = "early_redemption_cancelled"
    BY <1>2, QueueRead
  <2> HIDE DEF p, f
  <2>8. CASE ev.name = "erq_req"
    <3>1. e = HandleRequestEarlyRedemption(here, Vault, p) BY <2>1, <2>6, <2>7, <2>8, LoudHandled
    <3>2. /\ Rowed(e)
          /\ \A k \in WaitingRequests(e, Vault) :
               \/ k \in WaitingRequests(here, Vault) /\ e.requests[k].id = here.requests[k].id
               \/ k[2] = p.user /\ e.requests[k].id = p.requestId
      BY <2>2, <2>5, <3>1, RowsWritten
    <3>3. Rowed(f) /\ \A k \in WaitingRequests(f, Vault) : StillWaits(d, f, ev, k)
      BY <2>4, <2>5, <2>7, <2>8, <3>2 DEF Rowed, WaitingRequests, StillWaits
    <3> QED BY <3>3 DEF f
  <2>9. CASE ev.name \in {"erq_done", "erq_can"}
    <3>1. e \in {HandleEarlyRedemptionProcessed(here, Vault, p),
                 HandleEarlyRedemptionCancelled(here, Vault, p)}
      BY <2>1, <2>6, <2>7, <2>9, LoudHandled
    <3>2. /\ Rowed(e)
          /\ \A k \in WaitingRequests(e, Vault) :
               /\ k \in WaitingRequests(here, Vault) /\ e.requests[k].id = here.requests[k].id
               /\ e.requests[k].id # p.requestId
      BY <2>2, <2>5, <3>1, RowsWritten
    <3>3. Rowed(f) /\ \A k \in WaitingRequests(f, Vault) : StillWaits(d, f, ev, k)
      BY <2>4, <2>5, <2>7, <3>2 DEF Rowed, WaitingRequests, StillWaits
    <3> QED BY <3>3 DEF f
  <2> QED BY <1>2, <2>8, <2>9 DEF Queueing
<1> QED BY <1>1, <1>2

\* A request of a user is in the queue, or a later event takes it out.
Waits(queue, events, id, u, after) ==
  \/ \E r \in queue : r[1] = id /\ r[2] = u
  \/ \E j \in (after + 1)..Len(events) : /\ events[j].name \in {"erq_done", "erq_can"}
                                         /\ events[j].data[1] = id
AskedWait(queue, events) ==
  \A l \in 1..Len(events) : events[l].name = "erq_req" =>
    Waits(queue, events, events[l].data[1], events[l].topics[2], l)
ShownWait(d, queue, events, after) ==
  \A k \in WaitingRequests(d, Vault) : Waits(queue, events, d.requests[k].id, k[2], after)
QueueInv ==
  /\ WordInv /\ Rowed(db)
  /\ AskedWait(chain.queue, history)
  /\ ShownWait(db, chain.queue, history, at)

LEMMA QueueInitially ==
  ASSUME Init
  PROVE  QueueInv
<1>1. history = <<>> /\ db \in {Neighbours, EmptyDatabase} BY DEF Init
<1>2. db.requests = <<>>
  <2>1. EmptyDatabase.requests = <<>> BY DEF EmptyDatabase
  <2>2. Neighbours.requests = <<>> BY DEF Neighbours, EmptyDatabase
  <2> QED BY <1>1, <2>1, <2>2
<1>3. DOMAIN db.requests = {} BY <1>2
<1>4. Rowed(db) /\ WaitingRequests(db, Vault) = {} BY <1>3 DEF Rowed, WaitingRequests
<1>5. Len(history) = 0 BY <1>1
<1> QED BY <1>4, <1>5, WordInitially DEF QueueInv, AskedWait, ShownWait

LEMMA QueueSpoken ==
  ASSUME QueueInv, Emits
  PROVE  QueueInv'
<1>1. WordInv' BY WordSpoken DEF QueueInv
<1>2. PICK ev : history' = Append(history, ev) /\ Spoken(chain, chain', ev)
  BY EmitsSay DEF QueueInv, WordInv, Heard
<1>3. at' = at /\ db' = db /\ at = Len(history) BY EmitsQuiet DEF StillTables, CaughtUp
<1>4. PICK S : history \in Seq(S) BY DEF QueueInv, WordInv, WellRead
<1>5. /\ Len(history) \in Nat /\ Len(history') = Len(history) + 1
      /\ \A i \in 1..Len(history) : history'[i] = history[i]
      /\ history'[Len(history) + 1] = ev
  BY <1>2, <1>4, Longer
<1>6. ASSUME NEW id, NEW u, NEW after \in 0..Len(history), Waits(chain.queue, history, id, u, after)
      PROVE  Waits(chain'.queue, history', id, u, after)
  <2>1. CASE \E r \in chain.queue : r[1] = id /\ r[2] = u
    <3>1. PICK r \in chain.queue : r[1] = id /\ r[2] = u BY <2>1
    <3>2. r \in chain'.queue \/ (ev.name \in {"erq_done", "erq_can"} /\ ev.data[1] = r[1])
      BY <1>2 DEF Spoken
    <3>3. PICK n \in Nat : n = Len(history) + 1 BY <1>5
    <3>4. n \in (after + 1)..Len(history') /\ history'[n] = ev BY <1>5, <3>3
    <3> QED BY <3>1, <3>2, <3>4 DEF Waits
  <2>2. CASE \E j \in (after + 1)..Len(history) : /\ history[j].name \in {"erq_done", "erq_can"}
                                                  /\ history[j].data[1] = id
    <3>1. PICK j \in (after + 1)..Len(history) : /\ history[j].name \in {"erq_done", "erq_can"}
                                                 /\ history[j].data[1] = id
      BY <2>2
    <3>2. j \in (after + 1)..Len(history') /\ history'[j] = history[j] BY <1>5, <3>1
    <3> QED BY <3>1, <3>2 DEF Waits
  <2> QED BY <1>6, <2>1, <2>2 DEF Waits
<1>7. AskedWait(chain'.queue, history')
  <2> SUFFICES ASSUME NEW l \in 1..Len(history'), history'[l].name = "erq_req"
               PROVE  Waits(chain'.queue, history', history'[l].data[1], history'[l].topics[2], l)
    BY DEF AskedWait
  <2>1. CASE l \in 1..Len(history)
    <3>1. PICK id, u : id = history[l].data[1] /\ u = history[l].topics[2] OBVIOUS
    <3>2. Waits(chain.queue, history, id, u, l) BY <1>5, <2>1, <3>1 DEF QueueInv, AskedWait
    <3>3. Waits(chain'.queue, history', id, u, l) BY <1>5, <1>6, <2>1, <3>2
    <3>4. history'[l] = history[l] BY <1>5, <2>1
    <3> QED BY <3>1, <3>3, <3>4
  <2>2. CASE l = Len(history) + 1
    <3>1. \E r \in chain'.queue : r[1] = ev.data[1] /\ r[2] = ev.topics[2]
      BY <1>2, <1>5, <2>2 DEF Spoken
    <3>2. history'[l] = ev BY <1>5, <2>2
    <3> QED BY <3>1, <3>2 DEF Waits
  <2> QED BY <1>5, <2>1, <2>2
<1>8. ShownWait(db, chain'.queue, history', at)
  <2> SUFFICES ASSUME NEW k \in WaitingRequests(db, Vault)
               PROVE  Waits(chain'.queue, history', db.requests[k].id, k[2], at)
    BY DEF ShownWait
  <2>1. PICK id, after : id = db.requests[k].id /\ after = at OBVIOUS
  <2>2. Waits(chain.queue, history, id, k[2], after) BY <2>1 DEF QueueInv, ShownWait
  <2>3. Waits(chain'.queue, history', id, k[2], after) BY <1>3, <1>5, <1>6, <2>1, <2>2
  <2> QED BY <2>1, <2>3
<1>9. Rowed(db') BY <1>3 DEF QueueInv
<1> QED BY <1>1, <1>3, <1>7, <1>8, <1>9 DEF QueueInv

LEMMA QueueDelivered ==
  ASSUME QueueInv, Deliver
  PROVE  QueueInv'
<1>1. WordInv' BY WordDelivered DEF QueueInv
<1> DEFINE ev == history[at + 1]
<1>2. db' = Indexed(db, ev) /\ at' = at + 1 /\ at # Len(history)
      /\ chain' = chain /\ history' = history
  BY DEF Deliver, CaughtUp
<1>3. Len(history) \in Nat BY LenProperties DEF QueueInv, WordInv, WellRead
<1>4. at \in 0..Len(history) /\ at + 1 \in 1..Len(history)
  BY <1>2, <1>3 DEF QueueInv, WordInv, Followable
<1>5. Published(ev) BY <1>4 DEF QueueInv, WordInv, WellRead
<1>6. Known(db, Vault) \/ ev.name = "v_create"
  BY <1>4 DEF QueueInv, WordInv, WellRead, Followable
<1>7. Shaped(db) /\ Rowed(db) BY DEF QueueInv, WordInv, Followable
<1>8. ev.name = "erq_req" => Waits(chain.queue, history, ev.data[1], ev.topics[2], at + 1)
  BY <1>4 DEF QueueInv, AskedWait
<1>9. ASSUME NEW id, NEW u, Waits(chain.queue, history, id, u, at), ev.name \in {"erq_done", "erq_can"} => id # ev.data[1]
      PROVE  Waits(chain.queue, history, id, u, at + 1)
  <2>1. ASSUME NEW j \in (at + 1)..Len(history), history[j].name \in {"erq_done", "erq_can"},
               history[j].data[1] = id
        PROVE  j \in (at + 1 + 1)..Len(history)
    <3>1. j # at + 1 BY <1>9, <2>1
    <3> QED BY <1>3, <1>4, <3>1
  <2> HIDE DEF ev
  <2> QED BY <1>9, <2>1 DEF Waits
<1> HIDE DEF ev
<1>10. Rowed(db') /\ \A k \in WaitingRequests(db', Vault) : StillWaits(db, db', ev, k)
  BY <1>2, <1>5, <1>6, <1>7, QueueIndexed
<1>11. ASSUME NEW k \in WaitingRequests(db', Vault)
       PROVE  Waits(chain.queue, history, db'.requests[k].id, k[2], at + 1)
  <2>1. StillWaits(db, db', ev, k) BY <1>10
  <2>2. PICK id : id = db'.requests[k].id OBVIOUS
  <2>3. CASE ev.name = "erq_req" /\ k[2] = ev.topics[2] /\ id = ev.data[1] BY <1>8, <2>2, <2>3
  <2>4. CASE k \in WaitingRequests(db, Vault) /\ id = db.requests[k].id
             /\ (ev.name \in {"erq_done", "erq_can"} => id # ev.data[1])
    <3>1. Waits(chain.queue, history, id, k[2], at) BY <2>4 DEF QueueInv, ShownWait
    <3>2. Waits(chain.queue, history, id, k[2], at + 1) BY <1>9, <2>4, <3>1
    <3> QED BY <2>2, <3>2
  <2> QED BY <2>1, <2>2, <2>3, <2>4 DEF StillWaits
<1>12. ShownWait(db', chain'.queue, history', at') BY <1>2, <1>11 DEF ShownWait
<1>13. AskedWait(chain'.queue, history') BY <1>2 DEF QueueInv
<1> QED BY <1>1, <1>10, <1>12, <1>13 DEF QueueInv

LEMMA QueueUndisturbed ==
  ASSUME QueueInv, [Next]_vars, ~Emits, ~Deliver
  PROVE  QueueInv'
<1>1. WordInv' BY WordUndisturbed DEF QueueInv
<1>2. db'.requests = db.requests /\ chain' = chain /\ history' = history
  <2>1. CASE Tends
    <3>1. Framed(Followed \ {"reports"}, db, db') /\ chain' = chain /\ history' = history
      BY <2>1, TendsQuiet DEF QueueInv, WordInv, Followable
    <3>2. db'["requests"] = db["requests"] BY <3>1 DEF Framed, Keeps, Followed, Still
    <3> QED BY <3>1, <3>2
  <2>2. CASE Resync
    <3> DEFINE new == [Defaults EXCEPT !.totalAssets = Supply, !.totalSupply = Supply]
    <3>1. db' = UpsertVault(db, Vault, new) /\ chain' = chain /\ history' = history
      BY <2>2 DEF Resync
    <3> HIDE DEF new
    <3>2. StateWritten(db, db', Vault, new.state)
      BY <3>1, VaultUpserted DEF QueueInv, WordInv, Followable
    <3>3. db'["requests"] = db["requests"] BY <3>2 DEF StateWritten, Keeps, Followed, Still
    <3> QED BY <3>1, <3>3
  <2>3. CASE Rewind \/ UNCHANGED vars BY <2>3 DEF Rewind, vars
  <2> QED BY <2>1, <2>2, <2>3, StepsOf
<1>3. at \in Nat /\ at' \in Nat /\ at' <= at
  <2>1. at \in Nat /\ at' \in Nat
    BY <1>1, LenProperties DEF QueueInv, WordInv, WellRead, Followable
  <2>2. CASE Rewind
    <3>1. PICK i \in 0..(at - 1) : at' = i BY <2>2 DEF Rewind
    <3> QED BY <2>1, <3>1
  <2>3. CASE ~Rewind
    <3>1. at' = at
      <4>1. CASE Tends BY <4>1, TendsQuiet DEF QueueInv, WordInv, Followable
      <4>2. CASE Resync \/ UNCHANGED vars BY <4>2 DEF Resync, vars
      <4> QED BY <2>3, <4>1, <4>2, StepsOf
    <3> QED BY <2>1, <3>1
  <2> QED BY <2>2, <2>3
<1>4. Len(history) \in Nat BY LenProperties DEF QueueInv, WordInv, WellRead
<1>5. ASSUME NEW id, NEW u, Waits(chain.queue, history, id, u, at)
      PROVE  Waits(chain'.queue, history', id, u, at')
  <2>1. ASSUME NEW a \in Nat, NEW b \in Nat, NEW n \in Nat, b <= a, NEW j \in (a + 1)..n
        PROVE  j \in (b + 1)..n
    BY <2>1
  <2>2. \A j \in (at + 1)..Len(history) : j \in (at' + 1)..Len(history) BY <1>3, <1>4, <2>1
  <2> QED BY <1>2, <1>5, <2>2 DEF Waits
<1>6. ASSUME NEW k \in WaitingRequests(db', Vault)
      PROVE  Waits(chain'.queue, history', db'.requests[k].id, k[2], at')
  <2>1. k \in WaitingRequests(db, Vault) BY <1>2 DEF WaitingRequests
  <2>2. Waits(chain.queue, history, db.requests[k].id, k[2], at) BY <2>1 DEF QueueInv, ShownWait
  <2> QED BY <1>2, <1>5, <2>2
<1>7. Rowed(db') BY <1>2 DEF QueueInv, Rowed
<1>8. AskedWait(chain'.queue, history') BY <1>2 DEF QueueInv
<1>9. ShownWait(db', chain'.queue, history', at') BY <1>6 DEF ShownWait
<1> QED BY <1>1, <1>7, <1>8, <1>9 DEF QueueInv

LEMMA QueueShown ==
  ASSUME QueueInv
  PROVE  QueueShowsOpenRequests
<1>1. Len(history) \in Nat BY LenProperties DEF QueueInv, WordInv, WellRead
<1>2. CaughtUp => \A j \in (at + 1)..Len(history) : FALSE BY <1>1 DEF CaughtUp
<1> QED BY <1>2 DEF QueueInv, ShownWait, Waits, QueueShowsOpenRequests

\* A request the queue of the API shows is waiting in the contract, for the user
\* it is shown for, however often the history is delivered again: a request
\* that comes again keeps its mark (handleRequestEarlyRedemption).
THEOREM DoneRequestsStayGone == Spec => []QueueShowsOpenRequests
<1>1. Init => QueueInv BY QueueInitially
<1>2. QueueInv /\ [Next]_vars => QueueInv' BY QueueSpoken, QueueDelivered, QueueUndisturbed
<1>3. QueueInv => QueueShowsOpenRequests BY QueueShown
<1> QED BY <1>1, <1>2, <1>3, PTL DEF Spec

-----------------------------------------------------------------------------
(* Claims, and the clock of the tables *)

Sharing == {"deposit", "withdraw", "yield_dis", "yield_clm", "prt_yld"}

LEMMA ClaimRead ==
  ASSUME NEW ev, NEW u, ev.form = "vec"
  PROVE  LET p == Parsed(ev)
         IN  /\ ev.name = "yield_clm" /\ ev.topics = <<"yield_clm", u>> /\ DOMAIN ev.data = 1..2 =>
                  /\ p # None /\ p.type = "yield_claimed" /\ p.user = u
                  /\ p.amount = ev.data[1] /\ p.epoch = ev.data[2]
             /\ ev.name = "prt_yld" /\ ev.topics = <<"prt_yld", u>> /\ DOMAIN ev.data = 1..3 =>
                  /\ p # None /\ p.type = "yield_claimed_partial" /\ p.user = u
                  /\ p.amount = ev.data[1] /\ p.epoch = ev.data[3]
<1> DEFINE p == Parsed(ev)
<1>1. None.type = "none" BY DEF None
<1>2. Topic(ev, 2) = At(ev.topics, 2, NoWord) BY Zenon DEF Topic, NoWord
<1>3. Values(ev) = ev.data BY DEF Values
<1>4. CASE ev.name = "yield_clm" /\ ev.topics = <<"yield_clm", u>> /\ DOMAIN ev.data = 1..2
  <2>1. p = ParseYieldClaimedEvent(ev) BY <1>4, LoudRead DEF ReadAs
  <2>2. Reads(ev, {"yield_clm"}, 2) BY <1>4 DEF Reads
  <2>3. /\ ParseYieldClaimedEvent(ev).type = "yield_claimed" /\ ParseYieldClaimedEvent(ev).user = Topic(ev, 2)
        /\ ParseYieldClaimedEvent(ev).amount = At(Values(ev), 1, 0)
        /\ ParseYieldClaimedEvent(ev).epoch = At(Values(ev), 2, 0)
    BY <2>2 DEF ParseYieldClaimedEvent
  <2>4. /\ At(ev.topics, 2, NoWord) = u /\ At(ev.data, 1, 0) = ev.data[1]
        /\ At(ev.data, 2, 0) = ev.data[2]
    BY <1>4 DEF At
  <2> HIDE DEF p
  <2> QED BY <1>1, <1>2, <1>3, <1>4, <2>1, <2>3, <2>4 DEF p
<1>5. CASE ev.name = "prt_yld" /\ ev.topics = <<"prt_yld", u>> /\ DOMAIN ev.data = 1..3
  <2>1. p = ParseYieldClaimedPartialEvent(ev) BY <1>5, LoudRead DEF ReadAs
  <2>2. Reads(ev, {"prt_yld"}, 2) BY <1>5 DEF Reads
  <2>3. /\ ParseYieldClaimedPartialEvent(ev).type = "yield_claimed_partial"
        /\ ParseYieldClaimedPartialEvent(ev).user = Topic(ev, 2)
        /\ ParseYieldClaimedPartialEvent(ev).amount = At(Values(ev), 1, 0)
        /\ ParseYieldClaimedPartialEvent(ev).epoch = At(Values(ev), 3, 0)
    BY <2>2 DEF ParseYieldClaimedPartialEvent
  <2>4. /\ At(ev.topics, 2, NoWord) = u /\ At(ev.data, 1, 0) = ev.data[1]
        /\ At(ev.data, 3, 0) = ev.data[3]
    BY <1>5 DEF At
  <2> HIDE DEF p
  <2> QED BY <1>1, <1>2, <1>3, <1>5, <2>1, <2>3, <2>4 DEF p
<1> QED BY <1>4, <1>5

\* What a distribution writes down, at its first and its second run.
Taken(d, n) ==
  [s \in {<<Vault, k[1], n>> : k \in {k \in DOMAIN d.positions : k[2] = Vault /\ d.positions[k].shares > 0}} |->
     [shares |-> d.positions[<<s[2], Vault>>].shares, claimed |-> 0]]

\* The clock moves with the ledger of the event, and no handler moves it.
LEMMA NowIndexed ==
  ASSUME NEW d, Shaped(d), d.now \in Nat, NEW ev, ev.ledger \in Nat \ {0}
  PROVE  /\ NotBefore(d, ev.ledger).now \in Nat \ {0}
         /\ Indexed(d, ev).now = NotBefore(d, ev.ledger).now
<1> DEFINE here == NotBefore(d, ev.ledger)
           p == Parsed(ev)
           e == Handled(here, ev, p)
           f == Indexed(d, ev)
<1>1. here.now = IF d.now > ev.ledger THEN d.now ELSE ev.ledger
  BY DEF NotBefore, Shaped, Tables
<1>2. here.now \in Nat \ {0} BY <1>1
<1>3. Shaped(here) BY LedgerNoted DEF Framed
<1>4. CASE p = None
  <2>1. f \in {here, StoreDeadLetter(here, ev)} BY <1>4 DEF Indexed
  <2> HIDE DEF here
  <2>2. StoreDeadLetter(here, ev).now = here.now BY DEF StoreDeadLetter
  <2> QED BY <1>2, <2>1, <2>2 DEF here
<1>5. CASE p # None
  <2>1. f = RecordEvent(e, ev, p) BY <1>5 DEF Indexed
  <2>2. Shaped(e) /\ e.now = here.now BY <1>3, HandledAside, HandledKept
  <2> HIDE DEF e
  <2>3. Framed(Followed \ {"log"}, e, RecordEvent(e, ev, p)) BY <2>2, EventRecorded
  <2>4. RecordEvent(e, ev, p)["now"] = e["now"] BY <2>3 DEF Framed, Keeps, Followed
  <2> QED BY <1>2, <2>1, <2>2, <2>4
<1> QED BY <1>4, <1>5

Balances == [Users -> Nat]

-----------------------------------------------------------------------------
(* What the contracts tell *)

\* Ledgers are counted from one and never go back.
OnTime(ledger) == ledger \in Nat \ {0} /\ \A j \in 1..Len(history) : history[j].ledger <= ledger
Timed == \A j \in 1..Len(history) : /\ history[j].ledger \in Nat \ {0}
                                    /\ \A i \in 1..j : history[i].ledger <= history[j].ledger

LEMMA PlaceOnTime ==
  ASSUME \E S : history \in Seq(S), Timed, NEW same \in BOOLEAN
  PROVE  OnTime(Place(same).ledger)
<1>1. PICK S : history \in Seq(S) OBVIOUS
<1>2. Len(history) \in Nat BY <1>1, LenProperties
<1> DEFINE last == IF history = <<>> THEN [ledger |-> 1, index |-> 0] ELSE history[Len(history)]
<1>3. Place(same).ledger \in {last.ledger, last.ledger + 1} BY DEF Place
<1>4. last.ledger \in Nat \ {0} /\ \A j \in 1..Len(history) : history[j].ledger <= last.ledger
  <2>1. CASE history = <<>> BY <2>1
  <2>2. CASE history # <<>>
    <3>1. Len(history) \in 1..Len(history) BY <1>1, <1>2, <2>2, EmptySeq
    <3>2. last = history[Len(history)] BY <2>2
    <3> HIDE DEF last
    <3> QED BY <3>1, <3>2 DEF Timed
  <2> QED BY <2>1, <2>2
<1> HIDE DEF last
<1>5. \A j \in 1..Len(history) : history[j].ledger \in Nat BY DEF Timed
<1>6. CASE Place(same).ledger = last.ledger BY <1>4, <1>6 DEF OnTime
<1>7. CASE Place(same).ledger = last.ledger + 1
  <2> DEFINE l == last.ledger
  <2>1. l \in Nat \ {0} /\ \A j \in 1..Len(history) : history[j].ledger <= l BY <1>4
  <2> HIDE DEF l
  <2>2. \A j \in 1..Len(history) : history[j].ledger <= l + 1 BY <1>5, <2>1
  <2>3. OnTime(l + 1) BY <2>1, <2>2 DEF OnTime
  <2> QED BY <1>7, <2>3 DEF l
<1> QED BY <1>3, <1>6, <1>7

LEMMA PlacedLedger ==
  ASSUME NEW contract, NEW name, NEW topics, NEW form, NEW data, NEW place,
         DOMAIN place = PlaceFields
  PROVE  Joined(Raw(contract, name, topics, form, data), place).ledger = place.ledger
BY DEF Joined, Raw, PlaceFields

\* An event with three values in its topics.
LEMMA PlacedThree ==
  ASSUME NEW contract, NEW name, NEW a, NEW b, NEW c, NEW form, NEW data, NEW place,
         DOMAIN place = PlaceFields
  PROVE  Says(Joined(Raw(contract, name, <<a, b, c>>, form, data), place),
              contract, name, <<name, a, b, c>>, form, data)
<1> DEFINE S == {name, a, b, c}
           v == <<a, b, c>>
           t == <<name, a, b, c>>
           s == <<name>> \o v
<1>1. /\ <<name>> \in Seq(S) /\ Len(<<name>>) = 1 /\ <<name>>[1] = name
      /\ v \in Seq(S) /\ Len(v) = 3 /\ v[1] = a /\ v[2] = b /\ v[3] = c
      /\ t \in Seq(S) /\ Len(t) = 4 /\ t[1] = name /\ t[2] = a /\ t[3] = b /\ t[4] = c
  OBVIOUS
<1> HIDE DEF S, t
<1>2. s \in Seq(S) /\ Len(s) = 4 /\ \A i \in 1..4 : s[i] = IF i <= 1 THEN <<name>>[i] ELSE v[i - 1]
  <2> DEFINE first == <<name>>
  <2>1. first \in Seq(S) /\ Len(first) = 1 /\ v \in Seq(S) /\ Len(v) = 3 BY <1>1
  <2> HIDE DEF v, first
  <2>2. /\ first \o v \in Seq(S) /\ Len(first \o v) = Len(first) + Len(v)
        /\ \A i \in 1..(Len(first) + Len(v)) :
             (first \o v)[i] = IF i <= Len(first) THEN first[i] ELSE v[i - Len(first)]
    BY <2>1, ConcatProperties
  <2>3. Len(first) + Len(v) = 4 BY <2>1
  <2>4. first \o v \in Seq(S) /\ Len(first \o v) = 4 BY <2>2, <2>3
  <2>5. \A i \in 1..4 : (first \o v)[i] = IF i <= 1 THEN first[i] ELSE v[i - 1]
    BY <2>1, <2>2, <2>3
  <2> QED BY <2>4, <2>5 DEF first
<1>3. Says(Joined(Raw(contract, name, v, form, data), place), contract, name, s, form, data)
  <2> HIDE DEF v
  <2> QED BY PlacedAny
<1> HIDE DEF v, s
<1>4. s[1] = name /\ s[2] = a /\ s[3] = b /\ s[4] = c BY <1>1, <1>2
<1>5. \A i \in 1..Len(s) : s[i] = t[i] BY <1>1, <1>2, <1>4
<1>6. s = t BY <1>1, <1>2, <1>5, SeqEqual
<1> QED BY <1>3, <1>6 DEF v, t

Ordered == Begun /\ Timed /\ \E S : history \in Seq(S)

LEMMA DepositEvent ==
  ASSUME Ordered, NEW u, Deposit(u)
  PROVE  \E n \in Deposits : \E ev :
           /\ history' = Append(history, ev) /\ OnTime(ev.ledger)
           /\ Says(ev, Vault, "deposit", <<"deposit", u, u>>, "vec", <<n, n>>)
           /\ chain' = [chain EXCEPT !.held[u] = @ + n]
<1>1. PICK n \in Deposits, same \in BOOLEAN :
        /\ history' = Append(history, Joined(Raw(Vault, "deposit", <<u, u>>, "vec", <<n, n>>), Place(same)))
        /\ chain' = [chain EXCEPT !.held[u] = @ + n]
  BY Zenon DEF Deposit, Emit, Place, Vec
<1> DEFINE ev == Joined(Raw(Vault, "deposit", <<u, u>>, "vec", <<n, n>>), Place(same))
<1>2. Says(ev, Vault, "deposit", <<"deposit", u, u>>, "vec", <<n, n>>) BY PlaceShape, Placed
<1>3. ev.ledger = Place(same).ledger BY PlaceShape, PlacedLedger
<1>4. OnTime(ev.ledger) BY <1>3, PlaceOnTime DEF Ordered
<1> HIDE DEF ev
<1> QED BY <1>1, <1>2, <1>4 DEF ev

LEMMA WithdrawEvent ==
  ASSUME Ordered, NEW u, Withdraw(u)
  PROVE  \E n \in 1..chain.held[u] : \E ev :
           /\ history' = Append(history, ev) /\ OnTime(ev.ledger)
           /\ Says(ev, Vault, "withdraw", <<"withdraw", u, u, u>>, "vec", <<n, n>>)
           /\ chain' = [chain EXCEPT !.held[u] = @ - n]
<1>1. PICK n \in 1..chain.held[u], same \in BOOLEAN :
        /\ history' = Append(history, Joined(Raw(Vault, "withdraw", <<u, u, u>>, "vec", <<n, n>>), Place(same)))
        /\ chain' = [chain EXCEPT !.held[u] = @ - n]
  BY Zenon DEF Withdraw, Emit, Place, Vec
<1> DEFINE ev == Joined(Raw(Vault, "withdraw", <<u, u, u>>, "vec", <<n, n>>), Place(same))
<1>2. Says(ev, Vault, "withdraw", <<"withdraw", u, u, u>>, "vec", <<n, n>>) BY PlaceShape, PlacedThree
<1>3. ev.ledger = Place(same).ledger BY PlaceShape, PlacedLedger
<1>4. OnTime(ev.ledger) BY <1>3, PlaceOnTime DEF Ordered
<1> HIDE DEF ev
<1> QED BY <1>1, <1>2, <1>4 DEF ev

DistributionSays(x, given) ==
  /\ history' = Append(history, x) /\ OnTime(x.ledger)
  /\ Says(x, Vault, "yield_dis", <<"yield_dis", Len(chain.epochs) + 1>>, "vec", <<YieldAmount, 0>>)
  /\ chain' = [chain EXCEPT !.epochs = Append(@, chain.held), !.paid = Append(@, 0),
                            !.unpaid = Append(@, given)]
  /\ given = [u \in Users |-> (YieldAmount * chain.held[u]) \div Supply]
LEMMA DistributeEvent ==
  ASSUME Ordered, Distribute
  PROVE  \E x, given : DistributionSays(x, given)
<1> DEFINE e == Len(chain.epochs) + 1
           entitled == [u \in Users |-> (YieldAmount * chain.held[u]) \div Supply]
<1>1. PICK same \in BOOLEAN :
        /\ history' = Append(history, Joined(Raw(Vault, "yield_dis", <<e>>, "vec", <<YieldAmount, 0>>), Place(same)))
        /\ chain' = [chain EXCEPT !.epochs = Append(@, chain.held), !.paid = Append(@, 0),
                                  !.unpaid = Append(@, entitled)]
  BY Zenon DEF Distribute, Emit, Place, Vec
<1> HIDE DEF e
<1> DEFINE ev == Joined(Raw(Vault, "yield_dis", <<e>>, "vec", <<YieldAmount, 0>>), Place(same))
<1>2. Says(ev, Vault, "yield_dis", <<"yield_dis", e>>, "vec", <<YieldAmount, 0>>) BY PlaceShape, Placed
<1>3. ev.ledger = Place(same).ledger BY PlaceShape, PlacedLedger
<1>4. OnTime(ev.ledger) BY <1>3, PlaceOnTime DEF Ordered
<1>5. entitled = [u \in Users |-> (YieldAmount * chain.held[u]) \div Supply] OBVIOUS
<1> HIDE DEF entitled
<1>6. DistributionSays(ev, entitled) BY <1>1, <1>2, <1>4, <1>5 DEF e, DistributionSays
<1> QED BY <1>6

\* A claim in whole, or a unit of it.
ClaimSays(u, e, x) ==
  /\ history' = Append(history, x) /\ OnTime(x.ledger)
  /\ \/ /\ Says(x, Vault, "yield_clm", <<"yield_clm", u>>, "vec", <<chain.unpaid[e][u], e>>)
        /\ chain.unpaid[e][u] > 0
        /\ chain' = [chain EXCEPT !.paid[e] = @ + chain.unpaid[e][u], !.unpaid[e][u] = 0]
     \/ /\ Says(x, Vault, "prt_yld", <<"prt_yld", u>>, "vec", <<1, chain.unpaid[e][u] - 1, e>>)
        /\ chain.unpaid[e][u] > 1
        /\ chain' = [chain EXCEPT !.paid[e] = @ + 1, !.unpaid[e][u] = 0]
LEMMA ClaimEvent ==
  ASSUME Ordered, NEW u, Claim(u)
  PROVE  \E e \in DOMAIN chain.unpaid : \E x : ClaimSays(u, e, x)
<1> DEFINE Whole(e, same) ==
             /\ chain.unpaid[e][u] > 0
             /\ history' = Append(history, Joined(Raw(Vault, "yield_clm", <<u>>, "vec", <<chain.unpaid[e][u], e>>), Place(same)))
             /\ chain' = [chain EXCEPT !.paid[e] = @ + chain.unpaid[e][u], !.unpaid[e][u] = 0]
           Part(e, same) ==
             /\ chain.unpaid[e][u] > 1
             /\ history' = Append(history, Joined(Raw(Vault, "prt_yld", <<u>>, "vec", <<1, chain.unpaid[e][u] - 1, e>>), Place(same)))
             /\ chain' = [chain EXCEPT !.paid[e] = @ + 1, !.unpaid[e][u] = 0]
<1>1. PICK e \in DOMAIN chain.unpaid, same \in BOOLEAN : Whole(e, same) \/ Part(e, same)
  BY Zenon DEF Claim, Emit, Place, Vec
<1>2. OnTime(Place(same).ledger) BY PlaceOnTime DEF Ordered
<1>3. ASSUME Whole(e, same) PROVE \E x : ClaimSays(u, e, x)
  <2> DEFINE data == <<chain.unpaid[e][u], e>>
             ev == Joined(Raw(Vault, "yield_clm", <<u>>, "vec", data), Place(same))
  <2>1. Says(ev, Vault, "yield_clm", <<"yield_clm", u>>, "vec", data)
    <3> HIDE DEF data
    <3> QED BY PlaceShape, Placed
  <2>2. ev.ledger = Place(same).ledger BY PlaceShape, PlacedLedger
  <2>3. history' = Append(history, ev) BY <1>3
  <2> HIDE DEF ev
  <2>4. ClaimSays(u, e, ev) BY <1>2, <1>3, <2>1, <2>2, <2>3 DEF ClaimSays
  <2> QED BY <2>4
<1>4. ASSUME Part(e, same) PROVE \E x : ClaimSays(u, e, x)
  <2> DEFINE data == <<1, chain.unpaid[e][u] - 1, e>>
             ev == Joined(Raw(Vault, "prt_yld", <<u>>, "vec", data), Place(same))
  <2>1. Says(ev, Vault, "prt_yld", <<"prt_yld", u>>, "vec", data)
    <3> HIDE DEF data
    <3> QED BY PlaceShape, Placed
  <2>2. ev.ledger = Place(same).ledger BY PlaceShape, PlacedLedger
  <2>3. history' = Append(history, ev) BY <1>4
  <2> HIDE DEF ev
  <2>4. ClaimSays(u, e, ev) BY <1>2, <1>4, <2>1, <2>2, <2>3 DEF ClaimSays
  <2> QED BY <2>4
<1> HIDE DEF Whole, Part
<1> QED BY <1>1, <1>3, <1>4

LEMMA OtherLedger ==
  ASSUME NEW i \in DOMAIN OtherEvents, NEW place, DOMAIN place = PlaceFields
  PROVE  Joined(OtherEvents[i], place).ledger = place.ledger
<1> DEFINE Of(e) == \E contract, name, topics, form, data : e = Raw(contract, name, topics, form, data)
<1>1. i \in 1..8 BY DEF OtherEvents
<1>2. ASSUME NEW contract, NEW name, NEW topics, NEW form, NEW data
      PROVE  Of(Raw(contract, name, topics, form, data))
  OBVIOUS
<1> HIDE DEF Of
<1>3. Of(OtherEvents[1]) /\ Of(OtherEvents[2]) BY <1>2 DEF OtherEvents, Vec, Plain
<1>4. Of(OtherEvents[3]) /\ Of(OtherEvents[4]) BY <1>2 DEF OtherEvents, Vec, Plain
<1>5. Of(OtherEvents[5]) /\ Of(OtherEvents[6]) BY <1>2 DEF OtherEvents, Vec, Plain
<1>6. Of(OtherEvents[7]) /\ Of(OtherEvents[8]) BY <1>2 DEF OtherEvents, Vec, Plain
<1>7. Of(OtherEvents[i]) BY <1>1, <1>3, <1>4, <1>5, <1>6
<1> QED BY <1>7, PlacedLedger DEF Of

\* Any other event: one of a name that tells nothing of the balances.
Unshared == (LoudNames \cup QuietNames) \ Sharing
OtherEvent ==
  \E ev : /\ history' = Append(history, ev) /\ OnTime(ev.ledger) /\ ev.name \in Unshared

LEMMA EventOther ==
  ASSUME Ordered, NEW same \in BOOLEAN, NEW contract, NEW name \in Unshared, NEW topics, NEW form, NEW data,
         history' = Append(history, Joined(Raw(contract, name, topics, form, data), Place(same)))
  PROVE  OtherEvent
<1> DEFINE ev == Joined(Raw(contract, name, topics, form, data), Place(same))
<1>1. ev.name = name BY PlaceShape, PlacedName
<1>2. ev.ledger = Place(same).ledger BY PlaceShape, PlacedLedger
<1>3. OnTime(ev.ledger) BY <1>2, PlaceOnTime DEF Ordered
<1> HIDE DEF ev
<1> QED BY <1>1, <1>3 DEF OtherEvent, ev

Balanced == {"held", "epochs", "unpaid", "paid", "queue", "silent"}
LEMMA OthersTell ==
  ASSUME Ordered,
         \/ Create \/ CancelFunding \/ Other
         \/ \E s \in {"Active", "Matured", "Closed"} : ChangeState(s)
         \/ \E on \in BOOLEAN : SetOperator(on) \/ SetRole(on)
  PROVE  OtherEvent /\ \A k \in Balanced : chain'[k] = chain[k]
<1> USE DEF Unshared, LoudNames, QuietNames, Sharing
<1>0. DOMAIN chain = Fields BY DEF Ordered, Begun
<1>1. CASE Create
  <2>1. PICK same \in BOOLEAN :
          history' = Append(history, Joined(Raw(Factory, "v_create", <<Vault>>, "vec", <<"type", "name">>), Place(same)))
    BY <1>1, Zenon DEF Create, Emit, Place
  <2>2. chain' = [chain EXCEPT !.created = TRUE] BY <1>1 DEF Create
  <2> QED BY <1>0, <2>1, <2>2, EventOther DEF Balanced, Fields
<1>2. CASE CancelFunding
  <2>1. PICK same \in BOOLEAN :
          history' = Append(history, Joined(Raw(Vault, "fund_cxl", <<>>, "scalar", <<0>>), Place(same)))
    BY <1>2, Zenon DEF CancelFunding, Emit, Place, Plain
  <2>2. chain' = [chain EXCEPT !.state = "Cancelled"] BY <1>2 DEF CancelFunding
  <2> QED BY <1>0, <2>1, <2>2, EventOther DEF Balanced, Fields
<1>3. CASE Other
  <2>1. PICK i \in DOMAIN OtherEvents, same \in BOOLEAN :
          history' = Append(history, Joined(OtherEvents[i], Place(same)))
    BY <1>3, Zenon DEF Other, Emit, Place
  <2> DEFINE ev == Joined(OtherEvents[i], Place(same))
  <2>2. ev.name \in Others BY PlaceShape, OtherNamed
  <2>3. ev.ledger = Place(same).ledger BY PlaceShape, OtherLedger
  <2>4. OnTime(ev.ledger) BY <2>3, PlaceOnTime DEF Ordered
  <2> HIDE DEF ev
  <2>5. OtherEvent BY <2>1, <2>2, <2>4 DEF OtherEvent, Others, ev
  <2>6. chain' = chain BY <1>3 DEF Other
  <2> QED BY <2>5, <2>6
<1>4. ASSUME NEW s \in {"Active", "Matured", "Closed"}, ChangeState(s)
      PROVE  OtherEvent /\ \A k \in Balanced : chain'[k] = chain[k]
  <2>1. PICK same \in BOOLEAN :
          history' = Append(history, Joined(Raw(Vault, "st_chg", <<>>, "vec", <<chain.state, s>>), Place(same)))
    BY <1>4, Zenon DEF ChangeState, Emit, Place, Vec
  <2>2. chain' = [chain EXCEPT !.state = s] BY <1>4, Zenon DEF ChangeState
  <2> QED BY <1>0, <2>1, <2>2, EventOther DEF Balanced, Fields
<1>5. ASSUME NEW on \in BOOLEAN, SetOperator(on)
      PROVE  OtherEvent /\ \A k \in Balanced : chain'[k] = chain[k]
  <2>1. OtherEvent
    <3>1. CASE on
      <4>1. PICK same \in BOOLEAN :
              history' = Append(history, Joined(Raw(Vault, "op_add", <<Factory, Operator>>, "scalar", <<0>>), Place(same)))
        BY <1>5, <3>1, Zenon DEF SetOperator, Emit, Place, Plain
      <4> QED BY <4>1, EventOther
    <3>2. CASE ~on
      <4>1. PICK same \in BOOLEAN :
              history' = Append(history, Joined(Raw(Vault, "op_rem", <<Factory, Operator>>, "vec", <<0, "reason">>), Place(same)))
        BY <1>5, <3>2, Zenon DEF SetOperator, Emit, Place, Vec
      <4> QED BY <4>1, EventOther
    <3> QED BY <3>1, <3>2
  <2>2. chain' = [chain EXCEPT !.operators = IF on THEN {Operator} ELSE {}] BY <1>5, Zenon DEF SetOperator
  <2> QED BY <1>0, <2>1, <2>2 DEF Balanced, Fields
<1>6. ASSUME NEW on \in BOOLEAN, SetRole(on)
      PROVE  OtherEvent /\ \A k \in Balanced : chain'[k] = chain[k]
  <2> DEFINE name == IF on THEN "role_grt" ELSE "role_rvk"
  <2>1. PICK same \in BOOLEAN :
          history' = Append(history, Joined(Raw(Vault, name, <<Operator>>, "scalar", <<"Treasury">>), Place(same)))
    BY <1>6, Zenon DEF SetRole, Emit, Place, Plain
  <2>2. name \in Unshared OBVIOUS
  <2>3. chain' = [chain EXCEPT !.roles = IF on THEN {Operator} ELSE {}] BY <1>6, Zenon DEF SetRole
  <2> HIDE DEF name
  <2>4. OtherEvent BY <2>1, <2>2, EventOther
  <2> QED BY <1>0, <2>3, <2>4 DEF Balanced, Fields
<1> QED BY <1>1, <1>2, <1>3, <1>4, <1>5, <1>6, Zenon

-----------------------------------------------------------------------------
(* The ledgers stay in order *)

LEMMA TimedOn ==
  ASSUME Timed, NEW S, history \in Seq(S), NEW ev, history' = Append(history, ev), OnTime(ev.ledger)
  PROVE  Timed'
<1>1. /\ Len(history) \in Nat /\ Len(history') = Len(history) + 1
      /\ \A i \in 1..Len(history) : history'[i] = history[i]
      /\ history'[Len(history) + 1] = ev
  BY Longer
<1> SUFFICES ASSUME NEW j \in 1..Len(history')
             PROVE  /\ history'[j].ledger \in Nat \ {0}
                    /\ \A i \in 1..j : history'[i].ledger <= history'[j].ledger
  BY DEF Timed
<1>2. CASE j \in 1..Len(history)
  <2>1. history'[j] = history[j] /\ \A i \in 1..j : i \in 1..Len(history) BY <1>1, <1>2
  <2>2. \A i \in 1..j : history'[i] = history[i] BY <1>1, <2>1
  <2> QED BY <1>2, <2>1, <2>2 DEF Timed
<1>3. CASE j = Len(history) + 1
  <2>1. history'[j] = ev BY <1>1, <1>3
  <2>2. \A i \in 1..Len(history) : history'[i].ledger <= ev.ledger BY <1>1 DEF OnTime
  <2>3. \A i \in 1..j : i \in 1..Len(history) \/ i = j BY <1>1, <1>3
  <2>4. ev.ledger \in Nat \ {0} BY DEF OnTime
  <2> QED BY <2>1, <2>2, <2>3, <2>4
<1> QED BY <1>1, <1>2, <1>3

-----------------------------------------------------------------------------
(* What the contracts pay, and what their events tell of it *)

ClaimNames == {"yield_clm", "prt_yld"}
\* The epoch a claim counts for.
EpochOf(ev) == IF ev.name = "yield_clm" THEN ev.data[2] ELSE ev.data[3]
\* A claim on one of n epochs, and a distribution, as the contract publishes them.
ClaimFormed(ev, n) ==
  /\ ev.contract = Vault /\ ev.form = "vec" /\ ev.data[1] \in Nat /\ EpochOf(ev) \in 1..n
  /\ \E u : \/ ev.name = "yield_clm" /\ ev.topics = <<"yield_clm", u>> /\ DOMAIN ev.data = 1..2
            \/ ev.name = "prt_yld" /\ ev.topics = <<"prt_yld", u>> /\ DOMAIN ev.data = 1..3
EpochFormed(ev) ==
  /\ ev.contract = Vault /\ ev.name = "yield_dis" /\ ev.form = "vec"
  /\ Len(ev.data) = 2 /\ ev.data[1] \in Nat
  /\ \E e : ev.topics = <<"yield_dis", e>>

\* The books of the contract: balances, the queue, and what is owed and paid.
Typed(c) ==
  /\ c.held \in Balances
  /\ \A r \in c.queue : r[2] \in Users /\ r[3] \in Nat
  /\ c.unpaid \in Seq(Balances) /\ c.paid \in Seq(Nat) /\ Len(c.paid) = Len(c.unpaid)

\* What an event tells of what is paid: a claim adds to its epoch, a
\* distribution opens one.
Booked(paid, paidn, ev) ==
  \/ ev.name \notin {"yield_dis"} \cup ClaimNames /\ paidn = paid
  \/ EpochFormed(ev) /\ paidn = Append(paid, 0)
  \/ ClaimFormed(ev, Len(paid)) /\ paidn = [paid EXCEPT ![EpochOf(ev)] = @ + ev.data[1]]
Books(ev) ==
  /\ history' = Append(history, ev) /\ OnTime(ev.ledger)
  /\ Typed(chain') /\ Booked(chain.paid, chain'.paid, ev)
Booking == \E ev : Books(ev)

LEMMA OthersBook ==
  ASSUME Typed(chain), OtherEvent, \A k \in Balanced : chain'[k] = chain[k]
  PROVE  Booking
<1>1. PICK ev : history' = Append(history, ev) /\ OnTime(ev.ledger) /\ ev.name \in Unshared
  BY DEF OtherEvent
<1>2. /\ chain'.held = chain.held /\ chain'.unpaid = chain.unpaid /\ chain'.paid = chain.paid
      /\ chain'.queue = chain.queue
  BY DEF Balanced
<1>3. Typed(chain') BY <1>2 DEF Typed
<1>4. Booked(chain.paid, chain'.paid, ev)
  BY <1>1, <1>2 DEF Booked, Unshared, Sharing, ClaimNames
<1> QED BY <1>1, <1>3, <1>4 DEF Booking, Books

\* Steps that move shares only.
LEMMA MovesBook ==
  ASSUME Typed(chain), chain'.held \in Balances, chain'.unpaid = chain.unpaid,
         chain'.paid = chain.paid, \A r \in chain'.queue : r[2] \in Users /\ r[3] \in Nat,
         NEW ev, history' = Append(history, ev), OnTime(ev.ledger),
         ev.name \notin {"yield_dis"} \cup ClaimNames
  PROVE  Booking
BY DEF Typed, Booked, Books, Booking

LEMMA DepositBooks ==
  ASSUME Ordered, Typed(chain), NEW u \in Users, Deposit(u)
  PROVE  Booking
<1>0. DOMAIN chain = Fields BY DEF Ordered, Begun
<1>1. PICK n \in Deposits : \E ev :
        /\ history' = Append(history, ev) /\ OnTime(ev.ledger)
        /\ Says(ev, Vault, "deposit", <<"deposit", u, u>>, "vec", <<n, n>>)
        /\ chain' = [chain EXCEPT !.held[u] = @ + n]
  BY DepositEvent
<1>2. PICK ev :
        /\ history' = Append(history, ev) /\ OnTime(ev.ledger)
        /\ Says(ev, Vault, "deposit", <<"deposit", u, u>>, "vec", <<n, n>>)
        /\ chain' = [chain EXCEPT !.held[u] = @ + n]
  BY <1>1
<1>3. /\ chain'.held = [chain.held EXCEPT ![u] = @ + n] /\ chain'.paid = chain.paid
      /\ chain'.unpaid = chain.unpaid /\ chain'.queue = chain.queue
  BY <1>0, <1>2 DEF Fields
<1>4. chain'.held \in Balances BY <1>3, DepositsAssumption DEF Typed, Balances
<1>5. \A r \in chain'.queue : r[2] \in Users /\ r[3] \in Nat BY <1>3 DEF Typed
<1>6. ev.name \notin {"yield_dis"} \cup ClaimNames BY <1>2 DEF Says, ClaimNames
<1> QED BY <1>2, <1>3, <1>4, <1>5, <1>6, MovesBook

LEMMA WithdrawBooks ==
  ASSUME Ordered, Typed(chain), NEW u \in Users, Withdraw(u)
  PROVE  Booking
<1>0. DOMAIN chain = Fields BY DEF Ordered, Begun
<1>1. PICK n \in 1..chain.held[u] : \E ev :
        /\ history' = Append(history, ev) /\ OnTime(ev.ledger)
        /\ Says(ev, Vault, "withdraw", <<"withdraw", u, u, u>>, "vec", <<n, n>>)
        /\ chain' = [chain EXCEPT !.held[u] = @ - n]
  BY WithdrawEvent
<1>2. PICK ev :
        /\ history' = Append(history, ev) /\ OnTime(ev.ledger)
        /\ Says(ev, Vault, "withdraw", <<"withdraw", u, u, u>>, "vec", <<n, n>>)
        /\ chain' = [chain EXCEPT !.held[u] = @ - n]
  BY <1>1
<1>3. /\ chain'.held = [chain.held EXCEPT ![u] = @ - n] /\ chain'.paid = chain.paid
      /\ chain'.unpaid = chain.unpaid /\ chain'.queue = chain.queue
  BY <1>0, <1>2 DEF Fields
<1>4. chain'.held \in Balances BY <1>3 DEF Typed, Balances
<1>5. \A r \in chain'.queue : r[2] \in Users /\ r[3] \in Nat BY <1>3 DEF Typed
<1>6. ev.name \notin {"yield_dis"} \cup ClaimNames BY <1>2 DEF Says, ClaimNames
<1> QED BY <1>2, <1>3, <1>4, <1>5, <1>6, MovesBook

LEMMA TransferBooks ==
  ASSUME Ordered, Typed(chain), NEW u \in Users, NEW w \in Users, Transfer(u, w)
  PROVE  Booking
<1>0. DOMAIN chain = Fields BY DEF Ordered, Begun
<1>1. PICK same \in BOOLEAN :
        history' = Append(history, Joined(Raw(Vault, "transfer", <<u, w>>, "scalar", <<chain.held[u]>>), Place(same)))
  BY Zenon DEF Transfer, Emit, Place, Plain
<1>2. PICK ev : history' = Append(history, ev) /\ OnTime(ev.ledger) /\ ev.name \in Unshared
  BY <1>1, EventOther DEF OtherEvent, Unshared, LoudNames, QuietNames, Sharing
<1>3. chain' = [chain EXCEPT !.held[u] = 0, !.held[w] = @ + chain.held[u], !.silent = TRUE]
  BY Zenon DEF Transfer
<1>4. /\ chain'.held = [[chain.held EXCEPT ![u] = 0] EXCEPT ![w] = @ + chain.held[u]]
      /\ chain'.paid = chain.paid /\ chain'.unpaid = chain.unpaid /\ chain'.queue = chain.queue
  BY <1>0, <1>3 DEF Fields
<1>5. chain'.held \in Balances
  <2>1. chain.held \in [Users -> Nat] BY DEF Typed, Balances
  <2>2. chain.held[w] + chain.held[u] \in Nat BY <2>1
  <2> QED BY <1>4, <2>1, <2>2 DEF Balances
<1>6. \A r \in chain'.queue : r[2] \in Users /\ r[3] \in Nat BY <1>4 DEF Typed
<1>7. ev.name \notin {"yield_dis"} \cup ClaimNames BY <1>2 DEF Unshared, Sharing, ClaimNames
<1> QED BY <1>2, <1>4, <1>5, <1>6, <1>7, MovesBook

LEMMA RequestBooks ==
  ASSUME Ordered, Typed(chain), NEW u \in Users, RequestRedemption(u)
  PROVE  Booking
<1> DEFINE data == <<chain.ids + 1, chain.held[u], Cardinality(chain.queue) + 1>>
           r == <<chain.ids + 1, u, chain.held[u]>>
<1>0. DOMAIN chain = Fields BY DEF Ordered, Begun
<1>1. PICK same \in BOOLEAN :
        history' = Append(history, Joined(Raw(Vault, "erq_req", <<u>>, "vec", data), Place(same)))
  BY Zenon DEF RequestRedemption, Emit, Place, Vec
<1>2. chain' = [chain EXCEPT !.ids = chain.ids + 1, !.held[u] = 0, !.silent = TRUE,
                             !.queue = @ \cup {r}]
  BY Zenon DEF RequestRedemption
<1>3. r[2] \in Users /\ r[3] \in Nat BY DEF Typed, Balances
<1> HIDE DEF data, r
<1>4. PICK ev : history' = Append(history, ev) /\ OnTime(ev.ledger) /\ ev.name \in Unshared
  BY <1>1, EventOther DEF OtherEvent, Unshared, LoudNames, QuietNames, Sharing
<1>5. /\ chain'.held = [chain.held EXCEPT ![u] = 0] /\ chain'.paid = chain.paid
      /\ chain'.unpaid = chain.unpaid /\ chain'.queue = chain.queue \cup {r}
  BY <1>0, <1>2 DEF Fields
<1>6. chain'.held \in Balances BY <1>5 DEF Typed, Balances
<1>7. \A x \in chain'.queue : x[2] \in Users /\ x[3] \in Nat BY <1>3, <1>5 DEF Typed
<1>8. ev.name \notin {"yield_dis"} \cup ClaimNames BY <1>4 DEF Unshared, Sharing, ClaimNames
<1> QED BY <1>4, <1>5, <1>6, <1>7, <1>8, MovesBook

LEMMA LeavingBooks ==
  ASSUME Ordered, Typed(chain), ProcessRedemption \/ CancelRedemption
  PROVE  Booking
<1> USE DEF Unshared, LoudNames, QuietNames, Sharing
<1>0. DOMAIN chain = Fields BY DEF Ordered, Begun
<1>1. CASE ProcessRedemption
  <2>1. PICK r \in chain.queue, same \in BOOLEAN :
          /\ history' = Append(history, Joined(Raw(Vault, "erq_done", <<r[2]>>, "vec", <<r[1], r[3]>>), Place(same)))
          /\ chain' = [chain EXCEPT !.queue = @ \ {r}]
    BY <1>1, Zenon DEF ProcessRedemption, Emit, Place, Vec
  <2>2. PICK ev : history' = Append(history, ev) /\ OnTime(ev.ledger) /\ ev.name \in Unshared
    BY <2>1, EventOther DEF OtherEvent
  <2>3. /\ chain'.held = chain.held /\ chain'.paid = chain.paid /\ chain'.unpaid = chain.unpaid
        /\ chain'.queue = chain.queue \ {r}
    BY <1>0, <2>1 DEF Fields
  <2>4. \A x \in chain'.queue : x[2] \in Users /\ x[3] \in Nat BY <2>3 DEF Typed
  <2>5. ev.name \notin {"yield_dis"} \cup ClaimNames BY <2>2 DEF ClaimNames
  <2> QED BY <2>2, <2>3, <2>4, <2>5, MovesBook DEF Typed
<1>2. CASE CancelRedemption
  <2>1. PICK r \in chain.queue, same \in BOOLEAN :
          /\ history' = Append(history, Joined(Raw(Vault, "erq_can", <<r[2]>>, "vec", <<r[1], r[3]>>), Place(same)))
          /\ chain' = [chain EXCEPT !.queue = @ \ {r}, !.held[r[2]] = @ + r[3]]
    BY <1>2, Zenon DEF CancelRedemption, Emit, Place, Vec
  <2>2. PICK ev : history' = Append(history, ev) /\ OnTime(ev.ledger) /\ ev.name \in Unshared
    BY <2>1, EventOther DEF OtherEvent
  <2>3. r[2] \in Users /\ r[3] \in Nat BY DEF Typed
  <2>4. /\ chain'.held = [chain.held EXCEPT ![r[2]] = @ + r[3]] /\ chain'.paid = chain.paid
        /\ chain'.unpaid = chain.unpaid /\ chain'.queue = chain.queue \ {r}
    BY <1>0, <2>1 DEF Fields
  <2>5. \A x \in chain'.queue : x[2] \in Users /\ x[3] \in Nat BY <2>4 DEF Typed
  <2>6. chain'.held \in Balances BY <2>3, <2>4 DEF Typed, Balances
  <2>7. ev.name \notin {"yield_dis"} \cup ClaimNames BY <2>2 DEF ClaimNames
  <2> QED BY <2>2, <2>4, <2>5, <2>6, <2>7, MovesBook
<1> QED BY <1>1, <1>2

LEMMA DistributeBooks ==
  ASSUME Ordered, Typed(chain), Distribute
  PROVE  Booking
<1>0. DOMAIN chain = Fields BY DEF Ordered, Begun
<1>1. PICK ev, given : DistributionSays(ev, given) BY DistributeEvent
<1>2. /\ chain'.held = chain.held /\ chain'.paid = Append(chain.paid, 0)
      /\ chain'.unpaid = Append(chain.unpaid, given) /\ chain'.queue = chain.queue
  BY <1>0, <1>1 DEF DistributionSays, Fields
<1>3. Supply \in Nat \ {0}
  <2>1. \A u \in Users : chain.held[u] \in Nat BY DEF Typed, Balances
  <2>2. Supply \in Nat BY <2>1, TotalIsNat, UsersAssumption DEF Supply
  <2>3. Supply > 0 BY DEF Distribute
  <2> QED BY <2>2, <2>3
<1>4. given \in Balances
  <2>1. given = [u \in Users |-> (YieldAmount * chain.held[u]) \div Supply] BY <1>1 DEF DistributionSays
  <2>2. ASSUME NEW u \in Users PROVE (YieldAmount * chain.held[u]) \div Supply \in Nat
    <3>1. chain.held[u] \in Nat BY DEF Typed, Balances
    <3>2. YieldAmount * chain.held[u] \in Nat BY <3>1, YieldAssumption, ProductIsNat
    <3> QED BY <1>3, <3>2, QuotientIsNat
  <2> QED BY <2>1, <2>2, Zenon DEF Balances
<1>5. Typed(chain')
  <2>1. Append(chain.unpaid, given) \in Seq(Balances)
        /\ Len(Append(chain.unpaid, given)) = Len(chain.unpaid) + 1
    BY <1>4, AppendProperties DEF Typed
  <2>2. Append(chain.paid, 0) \in Seq(Nat) /\ Len(Append(chain.paid, 0)) = Len(chain.paid) + 1
    BY AppendProperties DEF Typed
  <2> QED BY <1>2, <2>1, <2>2 DEF Typed
<1>6. /\ ev.contract = Vault /\ ev.name = "yield_dis" /\ ev.form = "vec" /\ ev.data = <<YieldAmount, 0>>
      /\ ev.topics = <<"yield_dis", Len(chain.epochs) + 1>>
  BY <1>1 DEF DistributionSays, Says
<1>7. Len(ev.data) = 2 /\ ev.data[1] \in Nat BY <1>6, YieldAssumption
<1>8. EpochFormed(ev) BY <1>6, <1>7 DEF EpochFormed
<1>9. history' = Append(history, ev) /\ OnTime(ev.ledger) BY <1>1 DEF DistributionSays
<1> QED BY <1>2, <1>5, <1>8, <1>9 DEF Booking, Books, Booked

LEMMA ClaimBooks ==
  ASSUME Ordered, Typed(chain), NEW u \in Users, Claim(u)
  PROVE  Booking
<1>0. DOMAIN chain = Fields BY DEF Ordered, Begun
<1>1. PICK e \in DOMAIN chain.unpaid : \E ev : ClaimSays(u, e, ev) BY ClaimEvent
<1>2. PICK ev : ClaimSays(u, e, ev) BY <1>1
<1>3. e \in 1..Len(chain.unpaid) /\ e \in 1..Len(chain.paid) /\ chain.paid[e] \in Nat
      /\ chain.unpaid[e] \in Balances /\ chain.unpaid[e][u] \in Nat
  <2> DEFINE owed == chain.unpaid
             paid == chain.paid
  <2>1. owed \in Seq(Balances) /\ paid \in Seq(Nat) /\ Len(paid) = Len(owed) BY DEF Typed
  <2> HIDE DEF owed, paid
  <2>2. e \in DOMAIN owed BY DEF owed
  <2>3. e \in 1..Len(owed) /\ e \in 1..Len(paid) /\ paid[e] \in Nat /\ owed[e] \in Balances
    <3> HIDE DEF Balances
    <3> QED BY <2>1, <2>2
  <2>4. owed[e][u] \in Nat BY <2>3 DEF Balances
  <2> QED BY <2>3, <2>4 DEF owed, paid
<1>4. PICK n \in Nat :
        /\ chain' = [chain EXCEPT !.paid[e] = @ + n, !.unpaid[e][u] = 0]
        /\ ev.data[1] = n /\ EpochOf(ev) = e
        /\ ClaimFormed(ev, Len(chain.paid))
  <2>1. CASE /\ Says(ev, Vault, "yield_clm", <<"yield_clm", u>>, "vec", <<chain.unpaid[e][u], e>>)
             /\ chain' = [chain EXCEPT !.paid[e] = @ + chain.unpaid[e][u], !.unpaid[e][u] = 0]
    <3>1. /\ ev.form = "vec" /\ ev.name = "yield_clm" /\ ev.topics = <<"yield_clm", u>>
          /\ ev.contract = Vault
          /\ DOMAIN ev.data = 1..2 /\ ev.data[2] = e /\ ev.data[1] = chain.unpaid[e][u]
      BY <2>1 DEF Says
    <3>2. EpochOf(ev) = e BY <3>1 DEF EpochOf
    <3>3. ClaimFormed(ev, Len(chain.paid)) BY <1>3, <3>1, <3>2 DEF ClaimFormed
    <3> QED BY <1>3, <2>1, <3>1, <3>2, <3>3
  <2>2. CASE /\ Says(ev, Vault, "prt_yld", <<"prt_yld", u>>, "vec", <<1, chain.unpaid[e][u] - 1, e>>)
             /\ chain' = [chain EXCEPT !.paid[e] = @ + 1, !.unpaid[e][u] = 0]
    <3>1. /\ ev.form = "vec" /\ ev.name = "prt_yld" /\ ev.topics = <<"prt_yld", u>>
          /\ ev.contract = Vault
          /\ DOMAIN ev.data = 1..3 /\ ev.data[3] = e /\ ev.data[1] = 1
      BY <2>2 DEF Says
    <3>2. EpochOf(ev) = e BY <3>1 DEF EpochOf
    <3>3. ClaimFormed(ev, Len(chain.paid)) BY <1>3, <3>1, <3>2 DEF ClaimFormed
    <3> QED BY <1>3, <2>2, <3>1, <3>2, <3>3
  <2> QED BY <1>2, <2>1, <2>2 DEF ClaimSays
<1> DEFINE row == [chain.unpaid[e] EXCEPT ![u] = 0]
           sum == chain.paid[e] + n
<1>5. /\ chain'.held = chain.held /\ chain'.queue = chain.queue
      /\ chain'.unpaid = [chain.unpaid EXCEPT ![e] = row]
      /\ chain'.paid = [chain.paid EXCEPT ![e] = sum]
  BY <1>0, <1>4 DEF Fields
<1>6. row \in Balances /\ sum \in Nat BY <1>3, <1>4 DEF Balances
<1> HIDE DEF row, sum
<1>7. chain'.unpaid \in Seq(Balances) /\ Len(chain'.unpaid) = Len(chain.unpaid)
  BY <1>3, <1>5, <1>6, ExceptSeq DEF Typed
<1>8. chain'.paid \in Seq(Nat) /\ Len(chain'.paid) = Len(chain.paid)
  BY <1>3, <1>5, <1>6, ExceptSeq DEF Typed
<1>9. Typed(chain') BY <1>5, <1>7, <1>8 DEF Typed
<1>10. Booked(chain.paid, chain'.paid, ev) BY <1>4, <1>5 DEF Booked, sum
<1>11. history' = Append(history, ev) /\ OnTime(ev.ledger) BY <1>2 DEF ClaimSays
<1> QED BY <1>9, <1>10, <1>11 DEF Booking, Books

LEMMA EmitsBook ==
  ASSUME Ordered, Typed(chain), Emits
  PROVE  Booking
<1>1. CASE Distribute BY <1>1, DistributeBooks
<1>2. ASSUME NEW u \in Users, Deposit(u) PROVE Booking BY <1>2, DepositBooks
<1>3. ASSUME NEW u \in Users, Withdraw(u) PROVE Booking BY <1>3, WithdrawBooks
<1>4. ASSUME NEW u \in Users, Claim(u) PROVE Booking BY <1>4, ClaimBooks
<1>5. ASSUME NEW u \in Users, RequestRedemption(u) PROVE Booking BY <1>5, RequestBooks
<1>6. ASSUME NEW u \in Users, NEW w \in Users, Transfer(u, w) PROVE Booking BY <1>6, TransferBooks
<1>7. CASE ProcessRedemption \/ CancelRedemption BY <1>7, LeavingBooks
<1>8. CASE \/ Create \/ CancelFunding \/ Other
           \/ \E s \in {"Active", "Matured", "Closed"} : ChangeState(s)
           \/ \E on \in BOOLEAN : SetOperator(on) \/ SetRole(on)
  BY <1>8, OthersTell, OthersBook
<1> QED BY <1>1, <1>2, <1>3, <1>4, <1>5, <1>6, <1>7, <1>8, Zenon DEF Emits

-----------------------------------------------------------------------------
(* The claims of the history are what was paid *)

ClaimsIn(h, e) == {j \in 1..Len(h) : h[j].name \in ClaimNames /\ EpochOf(h[j]) = e}
Amounts(h) == [j \in 1..Len(h) |-> h[j].data[1]]
ClaimedIn(h, e) == Total(Amounts(h), ClaimsIn(h, e))
Accounted(paid, h) ==
  /\ \A j \in 1..Len(h) : h[j].name \in ClaimNames => ClaimFormed(h[j], Len(paid))
  /\ \A j \in 1..Len(h) : h[j].name = "yield_dis" => EpochFormed(h[j])
  /\ \A e \in 1..Len(paid) : ClaimedIn(h, e) <= paid[e]

\* The amounts of the claims are naturals, and there are finitely many.
LEMMA ClaimsCounted ==
  ASSUME NEW S, NEW h \in Seq(S), NEW paid, Accounted(paid, h), NEW e
  PROVE  /\ IsFiniteSet(ClaimsIn(h, e)) /\ ClaimedIn(h, e) \in Nat
         /\ \A j \in ClaimsIn(h, e) : Amounts(h)[j] \in Nat
<1>1. IsFiniteSet(ClaimsIn(h, e))
  <2>1. IsFiniteSet(1..Len(h)) BY LenProperties, FS_Interval
  <2> QED BY <2>1, FS_Subset DEF ClaimsIn
<1>2. \A j \in ClaimsIn(h, e) : Amounts(h)[j] \in Nat
  BY DEF ClaimsIn, Amounts, Accounted, ClaimFormed
<1> QED BY <1>1, <1>2, TotalIsNat DEF ClaimedIn

LEMMA AccountedOn ==
  ASSUME NEW S, NEW h \in Seq(S), NEW paid \in Seq(Nat), NEW paidn, Accounted(paid, h),
         NEW ev, Booked(paid, paidn, ev)
  PROVE  /\ Accounted(paidn, Append(h, ev)) /\ Len(paidn) >= Len(paid)
         /\ \A e \in 1..Len(paid) : paidn[e] >= paid[e]
<1> DEFINE g == Append(h, ev)
           n == Len(h) + 1
           Goal == /\ Accounted(paidn, g) /\ Len(paidn) >= Len(paid)
                   /\ \A e \in 1..Len(paid) : paidn[e] >= paid[e]
<1> SUFFICES Goal OBVIOUS
<1>1. /\ Len(h) \in Nat /\ Len(g) = n /\ \A j \in 1..Len(h) : g[j] = h[j]
      /\ g[n] = ev
  BY Longer
<1>2. Len(paid) \in Nat /\ \A e \in 1..Len(paid) : paid[e] \in Nat BY LenProperties
<1>3. \A j \in 1..Len(g) : j \in 1..Len(h) \/ j = n BY <1>1
<1>4. g \in Seq(S \cup {ev}) BY Longer
<1> HIDE DEF g
<1>5. ASSUME NEW e, ev.name \notin ClaimNames \/ EpochOf(ev) # e
      PROVE  ClaimedIn(g, e) = ClaimedIn(h, e)
  <2>1. ClaimsIn(g, e) = ClaimsIn(h, e) BY <1>1, <1>3, <1>5 DEF ClaimsIn
  <2>2. \A j \in ClaimsIn(h, e) : Amounts(g)[j] = Amounts(h)[j] BY <1>1 DEF Amounts, ClaimsIn
  <2> QED BY <2>1, <2>2, TotalSame DEF ClaimedIn
<1>6. CASE ev.name \notin {"yield_dis"} \cup ClaimNames /\ paidn = paid
  <2>1. Accounted(paid, g) BY <1>1, <1>3, <1>5, <1>6 DEF Accounted
  <2> QED BY <1>2, <1>6, <2>1
<1>7. CASE EpochFormed(ev) /\ paidn = Append(paid, 0)
  <2>1. /\ Len(paidn) = Len(paid) + 1 /\ \A e \in 1..Len(paid) : paidn[e] = paid[e]
        /\ paidn[Len(paid) + 1] = 0
    BY <1>7, Longer
  <2>2. ev.name = "yield_dis" /\ ev.name \notin ClaimNames BY <1>7 DEF EpochFormed, ClaimNames
  <2>3. \A j \in 1..Len(g) : g[j].name \in ClaimNames => ClaimFormed(g[j], Len(paid))
    BY <1>1, <1>3, <2>2 DEF Accounted
  <2>4. \A j \in 1..Len(g) : g[j].name \in ClaimNames => ClaimFormed(g[j], Len(paidn))
    BY <1>2, <2>1, <2>3 DEF ClaimFormed
  <2>5. \A j \in 1..Len(g) : g[j].name = "yield_dis" => EpochFormed(g[j])
    BY <1>1, <1>3, <1>7 DEF Accounted
  <2>6. ASSUME NEW e \in 1..Len(paidn) PROVE ClaimedIn(g, e) <= paidn[e]
    <3>1. CASE e \in 1..Len(paid) BY <1>5, <2>1, <2>2, <3>1 DEF Accounted
    <3>2. CASE e = Len(paid) + 1
      <4>1. ClaimsIn(g, e) = {} BY <1>2, <2>3, <3>2 DEF ClaimsIn, ClaimFormed
      <4>2. ClaimedIn(g, e) = 0 BY <4>1, TotalZero DEF ClaimedIn
      <4> QED BY <2>1, <3>2, <4>2
    <3> QED BY <1>2, <2>1, <3>1, <3>2
  <2>7. Accounted(paidn, g) BY <2>4, <2>5, <2>6 DEF Accounted
  <2> QED BY <1>2, <2>1, <2>7
<1>8. CASE ClaimFormed(ev, Len(paid)) /\ paidn = [paid EXCEPT ![EpochOf(ev)] = @ + ev.data[1]]
  <2> DEFINE x == EpochOf(ev)
             amount == ev.data[1]
  <2>1. x \in 1..Len(paid) /\ amount \in Nat /\ ev.name \in ClaimNames /\ ev.name # "yield_dis"
    BY <1>8 DEF ClaimFormed, ClaimNames
  <2> HIDE DEF x, amount
  <2>2. /\ Len(paidn) = Len(paid) /\ paidn[x] = paid[x] + amount
        /\ \A e \in 1..Len(paid) : e # x => paidn[e] = paid[e]
    <3> DEFINE sum == paid[x] + amount
    <3>1. paidn = [paid EXCEPT ![x] = sum] BY <1>8 DEF x, amount
    <3>2. sum \in Nat BY <1>2, <2>1
    <3> HIDE DEF sum
    <3>3. Len(paidn) = Len(paid) BY <2>1, <3>1, <3>2, ExceptSeq
    <3>4. paidn[x] = sum BY <2>1, <3>1
    <3>5. \A e \in 1..Len(paid) : e # x => paidn[e] = paid[e] BY <2>1, <3>1
    <3> QED BY <3>3, <3>4, <3>5 DEF sum
  <2>3. \A j \in 1..Len(g) : g[j].name \in ClaimNames => ClaimFormed(g[j], Len(paidn))
    BY <1>1, <1>3, <1>8, <2>2 DEF Accounted
  <2>4. \A j \in 1..Len(g) : g[j].name = "yield_dis" => EpochFormed(g[j])
    BY <1>1, <1>3, <2>1 DEF Accounted
  <2>5. ClaimedIn(g, x) = ClaimedIn(h, x) + amount
    <3>1. n \notin ClaimsIn(h, x) /\ ClaimsIn(g, x) = ClaimsIn(h, x) \cup {n}
      BY <1>1, <1>3, <2>1 DEF ClaimsIn, x
    <3>2. Amounts(g)[n] = amount BY <1>1 DEF Amounts, amount
    <3>3. \A j \in ClaimsIn(h, x) : Amounts(g)[j] = Amounts(h)[j] BY <1>1 DEF Amounts, ClaimsIn
    <3>4. IsFiniteSet(ClaimsIn(h, x)) /\ \A j \in ClaimsIn(h, x) : Amounts(h)[j] \in Nat
      BY ClaimsCounted
    <3>5. IsFiniteSet(ClaimsIn(g, x)) BY <3>1, <3>4, FS_AddElement
    <3>6. \A j \in ClaimsIn(g, x) : Amounts(g)[j] \in Nat BY <2>1, <3>1, <3>2, <3>3, <3>4
    <3>7. n \in ClaimsIn(g, x) /\ ClaimsIn(g, x) \ {n} = ClaimsIn(h, x) BY <3>1
    <3>8. Total(Amounts(g), ClaimsIn(g, x)) = Total(Amounts(g), ClaimsIn(h, x)) + Amounts(g)[n]
      BY <3>5, <3>6, <3>7, TotalSplit
    <3>9. Total(Amounts(g), ClaimsIn(h, x)) = Total(Amounts(h), ClaimsIn(h, x)) BY <3>3, TotalSame
    <3> QED BY <3>2, <3>8, <3>9 DEF ClaimedIn
  <2>6. ASSUME NEW e \in 1..Len(paidn) PROVE ClaimedIn(g, e) <= paidn[e]
    <3>1. CASE e = x
      <4>1. ClaimedIn(h, x) \in Nat /\ ClaimedIn(h, x) <= paid[x] BY <2>1, ClaimsCounted DEF Accounted
      <4> QED BY <1>2, <2>1, <2>2, <2>5, <3>1, <4>1
    <3>2. CASE e # x BY <1>5, <2>2, <3>2 DEF Accounted, x
    <3> QED BY <3>1, <3>2
  <2>7. Accounted(paidn, g) BY <2>3, <2>4, <2>6 DEF Accounted
  <2>8. \A e \in 1..Len(paid) : paidn[e] >= paid[e] BY <1>2, <2>1, <2>2
  <2> QED BY <1>2, <2>2, <2>7, <2>8
<1> HIDE DEF Goal
<1> QED BY <1>6, <1>7, <1>8 DEF Booked

-----------------------------------------------------------------------------
(* The log counts no claim twice *)

\* Every claim of the log is one of the history, under its ledger, and no
\* ledger has two.
Logged(d, h) ==
  /\ \E S : d.log \in Seq(S)
  /\ \A i \in 1..Len(d.log) : IsClaim(d.log[i].type) =>
       /\ d.log[i].contract = Vault /\ d.log[i].tx = 0 /\ d.log[i].index = 0
       /\ \E j \in 1..Len(h) : /\ h[j].name \in ClaimNames /\ h[j].ledger = d.log[i].ledger
                               /\ d.log[i].data.epoch = EpochOf(h[j])
                               /\ d.log[i].data.amount = h[j].data[1]
  /\ \A i, k \in 1..Len(d.log) :
       /\ IsClaim(d.log[i].type) /\ IsClaim(d.log[k].type)
       /\ d.log[i].ledger = d.log[k].ledger
       => i = k

LEMMA LoggedSame ==
  ASSUME NEW d, NEW e, e.log = d.log, NEW h, Logged(d, h)
  PROVE  Logged(e, h)
BY DEF Logged

LEMMA LoggedMore ==
  ASSUME NEW S, NEW h \in Seq(S), NEW d, Logged(d, h), NEW ev
  PROVE  Logged(d, Append(h, ev))
<1> DEFINE g == Append(h, ev)
<1>1. Len(h) \in Nat /\ Len(g) = Len(h) + 1 /\ \A j \in 1..Len(h) : g[j] = h[j] BY Longer
<1> HIDE DEF g
<1>2. \A j \in 1..Len(h) : j \in 1..Len(g) BY <1>1
<1>3. ASSUME NEW i \in 1..Len(d.log), IsClaim(d.log[i].type)
      PROVE  /\ d.log[i].contract = Vault /\ d.log[i].tx = 0 /\ d.log[i].index = 0
             /\ \E j \in 1..Len(g) : /\ g[j].name \in ClaimNames /\ g[j].ledger = d.log[i].ledger
                                     /\ d.log[i].data.epoch = EpochOf(g[j])
                                     /\ d.log[i].data.amount = g[j].data[1]
  BY <1>1, <1>2, <1>3 DEF Logged
<1> QED BY <1>3 DEF Logged, g

\* What the log holds of an epoch's claims is at most what the history does.
LEMMA LogBounded ==
  ASSUME NEW S, NEW h \in Seq(S), NEW paid, Accounted(paid, h), NEW d, Logged(d, h), NEW e
  PROVE  ClaimedInLog(d, Vault, e) \in Nat /\ ClaimedInLog(d, Vault, e) <= ClaimedIn(h, e)
<1> DEFINE log == d.log
           rows == {i \in DOMAIN log : /\ IsClaim(log[i].type) /\ log[i].contract = Vault
                                       /\ log[i].data.epoch = e}
           amounts == [i \in rows |-> log[i].data.amount]
           Source(i, j) == /\ h[j].name \in ClaimNames /\ h[j].ledger = log[i].ledger
                           /\ log[i].data.epoch = EpochOf(h[j])
                           /\ log[i].data.amount = h[j].data[1]
           source == [i \in rows |-> CHOOSE j \in 1..Len(h) : Source(i, j)]
<1>1. ClaimedInLog(d, Vault, e) = Total(amounts, rows) BY DEF ClaimedInLog
<1>2. DOMAIN log = 1..Len(log) /\ Len(log) \in Nat BY LenProperties DEF Logged
<1>3. \A i \in rows : IsClaim(log[i].type) /\ log[i].data.epoch = e /\ i \in 1..Len(log) BY <1>2
<1>4. IsFiniteSet(rows)
  <2>1. rows \subseteq 1..Len(log) BY <1>2
  <2>2. IsFiniteSet(1..Len(log)) BY <1>2, FS_Interval
  <2> QED BY <2>1, <2>2, FS_Subset
<1>5. \A i \in rows : amounts[i] = log[i].data.amount OBVIOUS
<1>6. \A i \in rows : source[i] = CHOOSE j \in 1..Len(h) : Source(i, j) OBVIOUS
<1>7. \A i \in rows : \E j \in 1..Len(h) : Source(i, j) BY <1>3 DEF Logged
<1>8. \A i, k \in rows : log[i].ledger = log[k].ledger => i = k BY <1>3 DEF Logged
<1> HIDE DEF source, amounts, rows
<1>9. ASSUME NEW i \in rows PROVE source[i] \in 1..Len(h) /\ Source(i, source[i])
  <2> HIDE DEF Source
  <2> QED BY <1>6, <1>7
<1>10. \A i \in rows : source[i] \in ClaimsIn(h, e) BY <1>3, <1>9 DEF ClaimsIn
<1>11. /\ IsFiniteSet(ClaimsIn(h, e)) /\ \A j \in ClaimsIn(h, e) : Amounts(h)[j] \in Nat
  BY ClaimsCounted
<1>12. \A i \in rows : amounts[i] = Amounts(h)[source[i]] BY <1>5, <1>9 DEF Amounts
<1>13. \A i \in rows : amounts[i] \in Nat /\ amounts[i] <= Amounts(h)[source[i]]
  BY <1>10, <1>11, <1>12
<1>14. \A i \in rows, k \in rows : source[i] = source[k] => i = k BY <1>8, <1>9
<1>15. Total(amounts, rows) <= Total(Amounts(h), ClaimsIn(h, e))
  BY <1>4, <1>10, <1>11, <1>13, <1>14, TotalInjected
<1>16. Total(amounts, rows) \in Nat BY <1>4, <1>13, TotalIsNat
<1> QED BY <1>1, <1>15, <1>16 DEF ClaimedIn

\* An event leaves its row unless its ledger has one; a claim has no place in it.
LEMMA RowLogged ==
  ASSUME NEW d, Shaped(d), NEW h, Logged(d, h), NEW ev, NEW p,
         IsClaim(p.type) =>
           /\ ev.contract = Vault
           /\ \E j \in 1..Len(h) : /\ h[j].name \in ClaimNames /\ h[j].ledger = ev.ledger
                                   /\ p.epoch = EpochOf(h[j]) /\ p.amount = h[j].data[1]
  PROVE  Logged(RecordEvent(d, ev, p), h)
<1> DEFINE row == LogRow(d, ev, p)
           Clash == \E i \in DOMAIN d.log : /\ d.log[i].contract = row.contract
                                            /\ d.log[i].ledger = row.ledger
                                            /\ d.log[i].tx = row.tx
                                            /\ d.log[i].index = row.index
           log == Append(d.log, row)
           e == RecordEvent(d, ev, p)
<1>1. e = IF Clash THEN d ELSE [d EXCEPT !.log = log] BY DEF RecordEvent
<1>2. row.type = p.type /\ row.contract = ev.contract /\ row.ledger = ev.ledger BY DEF LogRow
<1>3. IsClaim(p.type) => row.tx = 0 /\ row.index = 0 /\ row.data = p
  BY DEF LogRow, IsClaim, Unpositioned
<1>4. PICK S : d.log \in Seq(S) BY DEF Logged
<1>5. DOMAIN d.log = 1..Len(d.log) /\ Len(d.log) \in Nat BY <1>4, LenProperties
<1> HIDE DEF row
<1>6. /\ log \in Seq(S \cup {row}) /\ Len(log) = Len(d.log) + 1
      /\ \A i \in 1..Len(d.log) : log[i] = d.log[i]
      /\ log[Len(d.log) + 1] = row
  BY <1>4, Longer
<1> HIDE DEF log
<1>7. CASE Clash BY <1>1, <1>7
<1>8. CASE ~Clash
  <2>1. e.log = log BY <1>1, <1>8 DEF Shaped, Tables
  <2> HIDE DEF e
  <2> DEFINE n == Len(d.log) + 1
  <2>2. \A i \in 1..Len(log) : i \in 1..Len(d.log) \/ i = n BY <1>5, <1>6
  <2>3. ASSUME IsClaim(row.type), NEW i \in 1..Len(d.log), IsClaim(d.log[i].type)
        PROVE  d.log[i].ledger # row.ledger
    <3>1. d.log[i].contract = Vault /\ d.log[i].tx = 0 /\ d.log[i].index = 0 BY <2>3 DEF Logged
    <3>2. row.contract = Vault /\ row.tx = 0 /\ row.index = 0 BY <1>2, <1>3, <2>3
    <3> QED BY <1>5, <1>8, <3>1, <3>2
  <2>4. ASSUME NEW i \in 1..Len(log), IsClaim(log[i].type)
        PROVE  /\ log[i].contract = Vault /\ log[i].tx = 0 /\ log[i].index = 0
               /\ \E j \in 1..Len(h) : /\ h[j].name \in ClaimNames /\ h[j].ledger = log[i].ledger
                                       /\ log[i].data.epoch = EpochOf(h[j])
                                       /\ log[i].data.amount = h[j].data[1]
    <3>1. CASE i \in 1..Len(d.log)
      <4>1. log[i] = d.log[i] BY <1>6, <3>1
      <4> QED BY <2>4, <3>1, <4>1 DEF Logged
    <3>2. CASE i = n
      <4>1. log[i] = row /\ IsClaim(p.type) BY <1>2, <1>6, <2>4, <3>2
      <4> QED BY <1>2, <1>3, <4>1
    <3> QED BY <2>2, <3>1, <3>2
  <2>5. ASSUME NEW i \in 1..Len(log), NEW k \in 1..Len(log), IsClaim(log[i].type),
               IsClaim(log[k].type), log[i].ledger = log[k].ledger
        PROVE  i = k
    <3>1. CASE i \in 1..Len(d.log) /\ k \in 1..Len(d.log)
      <4>1. log[i] = d.log[i] /\ log[k] = d.log[k] BY <1>6, <3>1
      <4> QED BY <2>5, <3>1, <4>1 DEF Logged
    <3>2. CASE i \in 1..Len(d.log) /\ k = n BY <1>6, <2>3, <2>5, <3>2
    <3>3. CASE i = n /\ k \in 1..Len(d.log) BY <1>6, <2>3, <2>5, <3>3
    <3> QED BY <2>2, <3>1, <3>2, <3>3
  <2>6. \E T : e.log \in Seq(T) BY <1>6, <2>1
  <2> QED BY <2>1, <2>4, <2>5, <2>6 DEF Logged, e
<1> QED BY <1>7, <1>8

-----------------------------------------------------------------------------
(* What the events do to the epochs, the log and the reports *)

LEMMA NothingRead ==
  ASSUME NEW d, Shaped(d), NEW ev, Parsed(ev) = None
  PROVE  /\ Indexed(d, ev).epochs = d.epochs /\ Indexed(d, ev).reports = d.reports
         /\ Indexed(d, ev).log = d.log
<1> DEFINE here == NotBefore(d, ev.ledger)
           f == Indexed(d, ev)
<1>1. f \in {here, StoreDeadLetter(here, ev)} BY DEF Indexed
<1>2. Framed(Followed \ {"now"}, d, here) BY LedgerNoted
<1> HIDE DEF here, f
<1>3. Shaped(here) BY <1>2 DEF Framed
<1>4. StoreDeadLetter(here, ev)["log"] = here["log"] BY <1>3 DEF StoreDeadLetter, Shaped, Tables
<1>5. here["log"] = d["log"] BY <1>2 DEF Framed, Keeps, Followed
<1>6. f["log"] = d["log"] BY <1>1, <1>4, <1>5
<1>7. Framed(Still, d, f) BY IndexedAround DEF f
<1>8. f["epochs"] = d["epochs"] /\ f["reports"] = d["reports"] BY <1>7 DEF Framed, Keeps, Still, Followed
<1> QED BY <1>6, <1>8 DEF f

\* What is read reaches its handler, and the log after it.
LEMMA SomethingRead ==
  ASSUME NEW d, Shaped(d), NEW ev, Parsed(ev) # None
  PROVE  \E here, e : /\ here = NotBefore(d, ev.ledger) /\ Shaped(here)
                      /\ here.epochs = d.epochs /\ here.log = d.log
                      /\ Known(here, Vault) = Known(d, Vault)
                      /\ e = Handled(here, ev, Parsed(ev)) /\ Shaped(e)
                      /\ Indexed(d, ev) = RecordEvent(e, ev, Parsed(ev))
                      /\ Indexed(d, ev).epochs = e.epochs
                      /\ Indexed(d, ev).reports = d.reports
<1> DEFINE p == Parsed(ev)
           f == Indexed(d, ev)
<1>1. PICK here, e : /\ here = NotBefore(d, ev.ledger) /\ Framed(Still, d, here)
                     /\ e = Handled(here, ev, p) /\ f = RecordEvent(e, ev, p) /\ Shaped(e)
                     /\ Framed(Still, e, f)
  BY LoudIndexed
<1>2. Framed(Followed \ {"now"}, d, here) BY <1>1, LedgerNoted
<1>3. Shaped(here) /\ Known(here, Vault) = Known(d, Vault) BY <1>2 DEF Framed, SameStates, Known
<1>4. here["epochs"] = d["epochs"] /\ here["log"] = d["log"] /\ here["reports"] = d["reports"]
  BY <1>2 DEF Framed, Keeps, Followed
<1>5. f["epochs"] = e["epochs"] /\ f["reports"] = e["reports"] BY <1>1 DEF Framed, Keeps, Still, Followed
<1> HIDE DEF p, f
<1>6. e.reports = here.reports BY <1>1, <1>3, HandledAside
<1> QED BY <1>1, <1>3, <1>4, <1>5, <1>6 DEF p, f

\* Events of neither a distribution nor a claim.
LEMMA OtherIndexed ==
  ASSUME NEW d, Shaped(d), NEW ev,
         ev.name \in (LoudNames \cup QuietNames) \ ({"yield_dis"} \cup ClaimNames),
         NEW h, Logged(d, h)
  PROVE  /\ Indexed(d, ev).epochs = d.epochs /\ Indexed(d, ev).reports = d.reports
         /\ Logged(Indexed(d, ev), h)
<1> DEFINE p == Parsed(ev)
           f == Indexed(d, ev)
<1>1. CASE p = None BY <1>1, NothingRead, LoggedSame
<1>2. CASE p # None
  <2>1. PICK here, e : /\ Shaped(here) /\ here.epochs = d.epochs /\ here.log = d.log
                       /\ e = Handled(here, ev, p) /\ Shaped(e) /\ f = RecordEvent(e, ev, p)
                       /\ f.epochs = e.epochs /\ f.reports = d.reports
    BY <1>2, SomethingRead
  <2>2. p.type # "yield_distributed" /\ ~IsClaim(p.type)
    <3>1. CASE ev.name \in QuietNames BY <1>2, <3>1, QuietRead DEF Loud, IsClaim
    <3>2. CASE ev.name \in LoudNames
      <4>1. p.type \in {"deposit", "withdraw", "cancel_funding", "vault_state_changed", "vault_created",
                        "operator_added", "operator_removed", "role_granted", "role_revoked",
                        "request_early_redemption", "early_redemption_processed",
                        "early_redemption_cancelled"}
        BY <1>2, <3>2, LoudRead DEF ReadAs, LoudNames, ClaimNames
      <4> HIDE DEF p
      <4> QED BY <4>1 DEF IsClaim
    <3> QED BY <3>1, <3>2
  <2> HIDE DEF p, f
  <2>3. e.log = here.log /\ e.epochs = here.epochs BY <2>1, <2>2, HandledAside
  <2>4. Logged(e, h) BY <2>1, <2>3, LoggedSame
  <2>5. Logged(f, h) BY <2>1, <2>2, <2>4, RowLogged
  <2> QED BY <2>1, <2>3, <2>5 DEF f
<1> QED BY <1>1, <1>2

\* The rows of the epochs, and what a claim may do to them: close its own.
EpochFields == {"yield", "closed", "closedAt", "at", "shares"}
Listed(d) == \A k \in DOMAIN d.epochs : DOMAIN d.epochs[k] = EpochFields /\ d.epochs[k].yield \in Nat
MayClose(d, e, n) ==
  /\ DOMAIN e.epochs = DOMAIN d.epochs
  /\ \A k \in DOMAIN d.epochs :
       /\ DOMAIN e.epochs[k] = EpochFields
       /\ e.epochs[k].yield = d.epochs[k].yield /\ e.epochs[k].at = d.epochs[k].at
       /\ e.epochs[k].closed => \/ d.epochs[k].closed
                                \/ k[2] = n /\ ClaimedInLog(d, Vault, n) >= d.epochs[k].yield

LEMMA ClaimCloses ==
  ASSUME NEW d, Shaped(d), Listed(d), NEW p
  PROVE  MayClose(d, HandleYieldClaimed(d, Vault, p), p.epoch)
<1> DEFINE snap == <<Vault, p.user, p.epoch>>
           key == <<p.user, Vault>>
           row == IF snap \in DOMAIN d.snapshots THEN d.snapshots[snap]
                  ELSE [shares |-> 0, claimed |-> 0]
           snaps == Upsert(d.snapshots, snap, [row EXCEPT !.claimed = @ + p.amount])
           poss == IF key \in DOMAIN d.positions
                   THEN [d.positions EXCEPT ![key].lastClaimed = IF @ > p.epoch THEN @ ELSE p.epoch]
                   ELSE d.positions
           e == [d EXCEPT !.snapshots = snaps, !.positions = poss]
           f == CloseEpochIfFullyClaimed(e, Vault, p.epoch)
           k == <<Vault, p.epoch>>
           new == [[d.epochs[k] EXCEPT !.closed = TRUE] EXCEPT !.closedAt = e.now]
<1>0. MayClose(d, d, p.epoch) BY DEF MayClose, Listed
<1>1. CASE ~Known(d, Vault) BY <1>0, <1>1 DEF HandleYieldClaimed
<1>2. CASE Known(d, Vault)
  <2>1. HandleYieldClaimed(d, Vault, p) = f BY <1>2 DEF HandleYieldClaimed
  <2> HIDE DEF snaps, poss
  <2>2. DOMAIN e = Tables /\ e.epochs = d.epochs /\ e.log = d.log BY DEF Shaped, Tables
  <2>3. ClaimedInLog(e, Vault, p.epoch) = ClaimedInLog(d, Vault, p.epoch) BY <2>2 DEF ClaimedInLog
  <2> HIDE DEF e
  <2>4. CASE /\ k \in DOMAIN e.epochs /\ ~e.epochs[k].closed
             /\ ClaimedInLog(e, Vault, p.epoch) >= e.epochs[k].yield
    <3>1. f = [[e EXCEPT !.epochs[k].closed = TRUE] EXCEPT !.epochs[k].closedAt = e.now]
      BY <2>4 DEF CloseEpochIfFullyClaimed
    <3>2. f.epochs = [[e.epochs EXCEPT ![k].closed = TRUE] EXCEPT ![k].closedAt = e.now]
      BY <2>2, <3>1 DEF Tables
    <3> HIDE DEF f
    <3>3. f.epochs = [d.epochs EXCEPT ![k] = new] BY <2>2, <2>4, <3>2
    <3>4. DOMAIN new = EpochFields /\ new.yield = d.epochs[k].yield /\ new.at = d.epochs[k].at
      BY <2>2, <2>4 DEF Listed, EpochFields
    <3>5. k[2] = p.epoch OBVIOUS
    <3> HIDE DEF new, k
    <3>6. DOMAIN f.epochs = DOMAIN d.epochs BY <3>3
    <3>7. ASSUME NEW x \in DOMAIN d.epochs
          PROVE  /\ DOMAIN f.epochs[x] = EpochFields
                 /\ f.epochs[x].yield = d.epochs[x].yield /\ f.epochs[x].at = d.epochs[x].at
                 /\ f.epochs[x].closed =>
                      \/ d.epochs[x].closed
                      \/ x[2] = p.epoch /\ ClaimedInLog(d, Vault, p.epoch) >= d.epochs[x].yield
      <4>1. CASE x = k
        <5>1. f.epochs[x] = new BY <3>3, <4>1
        <5> QED BY <2>2, <2>3, <2>4, <3>4, <3>5, <4>1, <5>1
      <4>2. CASE x # k
        <5>1. f.epochs[x] = d.epochs[x] BY <3>3, <4>2
        <5>2. DOMAIN f.epochs[x] = EpochFields BY <5>1 DEF Listed
        <5>3. f.epochs[x].yield = d.epochs[x].yield /\ f.epochs[x].at = d.epochs[x].at BY <5>1
        <5>4. f.epochs[x].closed => d.epochs[x].closed BY <5>1
        <5> QED BY <5>2, <5>3, <5>4, Zenon
      <4> QED BY <4>1, <4>2
    <3>8. MayClose(d, f, p.epoch) BY <3>6, <3>7 DEF MayClose
    <3> QED BY <2>1, <3>8
  <2>5. CASE ~(/\ k \in DOMAIN e.epochs /\ ~e.epochs[k].closed
               /\ ClaimedInLog(e, Vault, p.epoch) >= e.epochs[k].yield)
    <3>1. f = e BY <2>5 DEF CloseEpochIfFullyClaimed
    <3> HIDE DEF f
    <3>2. MayClose(d, f, p.epoch) BY <1>0, <2>2, <3>1 DEF MayClose
    <3> QED BY <2>1, <3>2
  <2> QED BY <2>4, <2>5
<1> QED BY <1>1, <1>2

\* A claim of the history is delivered.
LEMMA ClaimDelivered ==
  ASSUME NEW d, Shaped(d), Listed(d), NEW h, NEW j \in 1..Len(h), NEW n, ClaimFormed(h[j], n),
         Logged(d, h)
  PROVE  LET f == Indexed(d, h[j])
         IN  /\ MayClose(d, f, EpochOf(h[j])) /\ f.reports = d.reports /\ Logged(f, h)
<1> DEFINE ev == h[j]
           p == Parsed(ev)
           f == Indexed(d, ev)
<1>1. /\ p # None /\ IsClaim(p.type) /\ p.amount = ev.data[1] /\ p.epoch = EpochOf(ev)
      /\ ev.name \in ClaimNames /\ ev.contract = Vault
  <2>1. PICK u : \/ ev.name = "yield_clm" /\ ev.topics = <<"yield_clm", u>> /\ DOMAIN ev.data = 1..2
                 \/ ev.name = "prt_yld" /\ ev.topics = <<"prt_yld", u>> /\ DOMAIN ev.data = 1..3
    BY DEF ClaimFormed
  <2>2. ev.form = "vec" /\ ev.contract = Vault BY DEF ClaimFormed
  <2> HIDE DEF ev, p
  <2>3. CASE ev.name = "yield_clm" BY <2>1, <2>2, <2>3, ClaimRead DEF p, EpochOf, IsClaim, ClaimNames
  <2>4. CASE ev.name = "prt_yld" BY <2>1, <2>2, <2>4, ClaimRead DEF p, EpochOf, IsClaim, ClaimNames
  <2> QED BY <2>1, <2>3, <2>4
<1>2. PICK here, e : /\ Shaped(here) /\ here.epochs = d.epochs /\ here.log = d.log
                     /\ e = Handled(here, ev, p) /\ Shaped(e) /\ f = RecordEvent(e, ev, p)
                     /\ f.epochs = e.epochs /\ f.reports = d.reports
  BY <1>1, SomethingRead
<1> HIDE DEF p, f
<1>3. e.log = here.log
  <2>1. p.type # "yield_distributed" BY <1>1 DEF IsClaim
  <2> QED BY <1>2, <2>1, HandledAside
<1>4. e = HandleYieldClaimed(here, Vault, p) BY <1>1, <1>2, LoudHandled DEF IsClaim
<1>5. Listed(here) BY <1>2 DEF Listed
<1>6. MayClose(here, e, p.epoch) BY <1>2, <1>4, <1>5, ClaimCloses
<1>7. ClaimedInLog(here, Vault, p.epoch) = ClaimedInLog(d, Vault, p.epoch) BY <1>2 DEF ClaimedInLog
<1>8. MayClose(d, f, EpochOf(ev)) BY <1>1, <1>2, <1>6, <1>7 DEF MayClose
<1>9. Logged(e, h) BY <1>2, <1>3, LoggedSame
<1>10. Logged(f, h) BY <1>1, <1>2, <1>9, RowLogged
<1> QED BY <1>2, <1>8, <1>10 DEF f

\* A distribution as it is read, where its decoders resolve.
LEMMA DistributionRead ==
  ASSUME NEW ev, EpochFormed(ev), Parsed(ev) # None
  PROVE  /\ Parsed(ev).type = "yield_distributed" /\ Parsed(ev).epoch = ev.topics[2]
         /\ Parsed(ev).amount = ev.data[1]
<1> DEFINE p == ParseYieldDistributedEvent(ev)
           reads == Reads(ev, {"yield_dis"}, 2) /\ Decodes(ev, 2)
<1>1. Parsed(ev) = p BY LoudRead DEF ReadAs, EpochFormed
<1>2. reads => /\ p.type = "yield_distributed" /\ p.epoch = Topic(ev, 2)
               /\ p.amount = ev.data[1]
  BY DEF ParseYieldDistributedEvent
<1>3. ~reads => p = None BY DEF ParseYieldDistributedEvent
<1>4. Topic(ev, 2) = At(ev.topics, 2, NoWord) BY Zenon DEF Topic, NoWord
<1>5. At(ev.topics, 2, NoWord) = ev.topics[2] BY DEF At, EpochFormed
<1> HIDE DEF p, reads
<1> QED BY <1>1, <1>2, <1>3, <1>4, <1>5

\* The row of an epoch is there, or opened.
Opens(d, e, n, amount, now) ==
  /\ DOMAIN e.epochs = DOMAIN d.epochs \cup {<<Vault, n>>}
  /\ \A k \in DOMAIN d.epochs : e.epochs[k] = d.epochs[k]
  /\ <<Vault, n>> \notin DOMAIN d.epochs =>
       LET row == e.epochs[<<Vault, n>>]
       IN  /\ DOMAIN row = EpochFields /\ row.yield = amount /\ row.closed = FALSE
           /\ row.at = now

LEMMA DistributionOpens ==
  ASSUME NEW d, Shaped(d), Known(d, Vault), NEW p
  PROVE  LET e == HandleYieldDistributed(d, Vault, p)
         IN  /\ Opens(d, e, p.epoch, p.amount, d.now) /\ e.log = d.log
             /\ Shaped(e) /\ Known(e, Vault)
<1> DEFINE e == RecordTvlSnapshot(d, Vault)
           f == HandleYieldDistributed(d, Vault, p)
           key == <<Vault, p.epoch>>
           epoch == [k \in {key} |-> [yield |-> p.amount, closed |-> FALSE, closedAt |-> 0,
                                      at |-> d.now, shares |-> d.vaults[Vault].totalSupply]]
           taken == Taken(d, p.epoch)
<1>1. f = [e EXCEPT !.epochs = Joined(@, epoch), !.snapshots = Joined(@, taken)]
  BY DEF HandleYieldDistributed, Taken
<1>2. Framed(Followed, d, e) BY TvlRecorded
<1>3. DOMAIN e = Tables /\ e["epochs"] = d["epochs"] BY <1>2 DEF Framed, Keeps, Followed, Shaped
<1>4. /\ DOMAIN epoch = {key} /\ DOMAIN epoch[key] = EpochFields /\ epoch[key].yield = p.amount
      /\ epoch[key].closed = FALSE /\ epoch[key].at = d.now
  BY DEF EpochFields
<1> HIDE DEF e, epoch, taken
<1>5. f.epochs = Joined(d.epochs, epoch) BY <1>1, <1>3 DEF Tables
<1>6. Framed(Followed \ {"snapshots", "epochs"}, d, f) BY YieldDistributed
<1>7. f["log"] = d["log"] BY <1>6 DEF Framed, Keeps, Followed
<1> HIDE DEF f
<1>8. Shaped(f) /\ Known(f, Vault) BY <1>6 DEF Framed, SameStates, Known
<1>9. Opens(d, f, p.epoch, p.amount, d.now)
  <2>1. DOMAIN f.epochs = DOMAIN d.epochs \cup {key} BY <1>4, <1>5 DEF Joined
  <2>2. \A k \in DOMAIN d.epochs : f.epochs[k] = d.epochs[k] BY <1>5 DEF Joined
  <2>3. key \notin DOMAIN d.epochs => f.epochs[key] = epoch[key] BY <1>4, <1>5 DEF Joined
  <2> QED BY <1>4, <2>1, <2>2, <2>3 DEF Opens
<1> QED BY <1>7, <1>8, <1>9 DEF f

\* A distribution of the history is delivered.
LEMMA DistributionDelivered ==
  ASSUME NEW d, Shaped(d), Known(d, Vault), NEW ev, EpochFormed(ev), Parsed(ev) # None,
         NEW h, Logged(d, h)
  PROVE  LET f == Indexed(d, ev)
         IN  /\ Opens(d, f, ev.topics[2], ev.data[1], NotBefore(d, ev.ledger).now)
             /\ f.reports = d.reports /\ Logged(f, h)
<1> DEFINE p == Parsed(ev)
           f == Indexed(d, ev)
<1>1. p.type = "yield_distributed" /\ p.epoch = ev.topics[2] /\ p.amount = ev.data[1]
  BY DistributionRead
<1>2. ~IsClaim(p.type)
  <2> HIDE DEF p
  <2> QED BY <1>1 DEF IsClaim
<1>3. PICK here, e : /\ here = NotBefore(d, ev.ledger) /\ Shaped(here)
                     /\ here.epochs = d.epochs /\ here.log = d.log
                     /\ Known(here, Vault) = Known(d, Vault)
                     /\ e = Handled(here, ev, p) /\ Shaped(e)
                     /\ f = RecordEvent(e, ev, p)
                     /\ f.epochs = e.epochs /\ f.reports = d.reports
  BY SomethingRead
<1> DEFINE first == HandleYieldDistributed(here, Vault, p)
           mid == RecordEvent(first, ev, p)
           now == here.now
<1>4. ev.contract = Vault BY DEF EpochFormed
<1> HIDE DEF p, f
<1>5. e = HandleYieldDistributed(mid, Vault, p) BY <1>1, <1>3, <1>4, LoudHandled
<1>6. /\ Opens(here, first, p.epoch, p.amount, now) /\ first.log = here.log
      /\ Shaped(first) /\ Known(first, Vault)
  BY <1>3, DistributionOpens
<1> HIDE DEF first
<1>7. Logged(first, h) BY <1>3, <1>6, LoggedSame
<1>8. Logged(mid, h) BY <1>2, <1>6, <1>7, RowLogged
<1>9. mid.epochs = first.epochs /\ Shaped(mid) /\ Known(mid, Vault)
  <2>1. Framed(Followed \ {"log"}, first, mid) BY <1>6, EventRecorded
  <2> HIDE DEF mid
  <2>2. mid["epochs"] = first["epochs"] BY <2>1 DEF Framed, Keeps, Followed
  <2> QED BY <1>6, <2>1, <2>2 DEF Framed, SameStates, Known
<1> HIDE DEF mid
<1>10. Opens(mid, e, p.epoch, p.amount, mid.now) /\ e.log = mid.log BY <1>5, <1>9, DistributionOpens
<1>11. e.epochs[<<Vault, p.epoch>>] = first.epochs[<<Vault, p.epoch>>]
       /\ DOMAIN e.epochs = DOMAIN first.epochs
  BY <1>6, <1>9, <1>10 DEF Opens
<1>12. Opens(d, f, p.epoch, p.amount, now)
  <2>1. DOMAIN f.epochs = DOMAIN d.epochs \cup {<<Vault, p.epoch>>} BY <1>3, <1>6, <1>11 DEF Opens
  <2>2. \A k \in DOMAIN d.epochs : f.epochs[k] = d.epochs[k]
    BY <1>3, <1>6, <1>9, <1>10 DEF Opens
  <2> QED BY <1>3, <1>6, <1>11, <2>1, <2>2 DEF Opens
<1>13. Logged(e, h) BY <1>8, <1>10, LoggedSame
<1>14. Logged(f, h) BY <1>2, <1>3, <1>13, RowLogged
<1> HIDE DEF now
<1> QED BY <1>1, <1>3, <1>12, <1>14 DEF f, now

-----------------------------------------------------------------------------
(* An epoch is closed only after its yield was paid *)

BookInv == WordInv /\ Timed /\ Typed(chain) /\ Accounted(chain.paid, history)

LEMMA BooksInitially ==
  ASSUME Init
  PROVE  BookInv
<1>1. chain = NewChain /\ history = <<>> BY DEF Init
<1>2. Len(history) = 0 /\ Timed BY <1>1 DEF Timed
<1>3. Typed(chain)
  <2>1. [u \in Users |-> 0] \in Balances BY DEF Balances
  <2>2. <<>> \in Seq(Balances) /\ <<>> \in Seq(Nat) OBVIOUS
  <2> QED BY <1>1, <2>1, <2>2 DEF Typed, NewChain
<1>4. Accounted(chain.paid, history)
  <2>1. Len(chain.paid) = 0 BY <1>1 DEF NewChain
  <2> QED BY <1>2, <2>1 DEF Accounted
<1> QED BY <1>2, <1>3, <1>4, WordInitially DEF BookInv

\* What is paid grows with the history.
Grown ==
  /\ Len(chain'.paid) >= Len(chain.paid)
  /\ \A e \in 1..Len(chain.paid) : chain'.paid[e] >= chain.paid[e]
LEMMA BooksSpoken ==
  ASSUME BookInv, Emits
  PROVE  /\ BookInv' /\ Grown /\ db' = db /\ at' = at /\ at = Len(history)
         /\ \E ev : history' = Append(history, ev)
<1>1. WordInv' BY WordSpoken DEF BookInv
<1>2. Ordered BY DEF BookInv, WordInv, WellRead, Ordered
<1>3. PICK S : history \in Seq(S) BY <1>2 DEF Ordered
<1>4. Booking BY <1>2, EmitsBook DEF BookInv
<1>5. PICK ev : Books(ev) BY <1>4 DEF Booking
<1>6. Timed' BY <1>3, <1>5, TimedOn DEF BookInv, Books
<1>7. Accounted(chain'.paid, history') /\ Grown
  <2>1. chain.paid \in Seq(Nat) /\ Accounted(chain.paid, history) BY DEF BookInv, Typed
  <2>2. Booked(chain.paid, chain'.paid, ev) /\ history' = Append(history, ev) BY <1>5 DEF Books
  <2> QED BY <1>3, <2>1, <2>2, AccountedOn DEF Grown
<1>8. Typed(chain') BY <1>5 DEF Books
<1>9. BookInv' BY <1>1, <1>6, <1>7, <1>8 DEF BookInv, Typed
<1> QED BY <1>5, <1>7, <1>9, EmitsQuiet DEF Books, StillTables, CaughtUp

LEMMA BooksStill ==
  ASSUME BookInv, [Next]_vars, ~Emits
  PROVE  BookInv' /\ chain' = chain /\ history' = history
<1>1. WordInv' BY WordDelivered, WordUndisturbed DEF BookInv
<1>2. chain' = chain /\ history' = history
  <2>1. CASE Tends BY <2>1, TendsQuiet DEF BookInv, WordInv, Followable
  <2>2. CASE Deliver BY <2>2 DEF Deliver
  <2>3. CASE Rewind BY <2>3 DEF Rewind
  <2>4. CASE Resync BY <2>4 DEF Resync
  <2>5. CASE UNCHANGED vars BY <2>5 DEF vars
  <2> QED BY <2>1, <2>2, <2>3, <2>4, <2>5, StepsOf
<1>3. Timed' BY <1>2 DEF BookInv, Timed
<1> QED BY <1>1, <1>2, <1>3 DEF BookInv, Typed, Accounted

\* What is to be delivered next, and the tables it is delivered to.
LEMMA NextDelivered ==
  ASSUME BookInv, Deliver
  PROVE  /\ at \in Nat /\ at + 1 \in 1..Len(history) /\ db' = Indexed(db, history[at + 1])
         /\ at' = at + 1 /\ Shaped(db)
         /\ history[at + 1].name \in LoudNames \cup QuietNames
         /\ Known(db, Vault) \/ history[at + 1].name = "v_create"
         /\ history[at + 1].ledger \in Nat \ {0}
<1>1. Len(history) \in Nat BY LenProperties DEF BookInv, WordInv, WellRead
<1>2. at \in Nat /\ at + 1 \in 1..Len(history) BY <1>1 DEF Deliver, CaughtUp, BookInv, WordInv, Followable
<1>3. history[at + 1].name \in LoudNames \cup QuietNames
  BY <1>2 DEF BookInv, WordInv, WellRead, Published
<1>4. Known(db, Vault) \/ history[at + 1].name = "v_create"
  BY <1>2 DEF BookInv, WordInv, WellRead, Followable
<1>5. history[at + 1].ledger \in Nat \ {0} BY <1>2 DEF BookInv, Timed
<1>6. Shaped(db) BY DEF BookInv, WordInv, Followable
<1> QED BY <1>2, <1>3, <1>4, <1>5, <1>6 DEF Deliver

\* The steps that are no delivery leave the epochs, the log and the clock.
LEMMA TablesStill ==
  ASSUME BookInv, [Next]_vars, ~Emits, ~Deliver
  PROVE  db'.epochs = db.epochs /\ db'.log = db.log /\ db'.now = db.now
<1>1. Shaped(db) BY DEF BookInv, WordInv, Followable
<1>2. CASE Tends
  <2>1. Framed(Followed \ {"reports"}, db, db') BY <1>1, <1>2, TendsQuiet
  <2>2. db'["epochs"] = db["epochs"] /\ db'["log"] = db["log"] /\ db'["now"] = db["now"]
    BY <2>1 DEF Framed, Keeps, Followed
  <2> QED BY <2>2
<1>3. CASE Resync
  <2> DEFINE new == [Defaults EXCEPT !.totalAssets = Supply, !.totalSupply = Supply]
  <2>1. db' = UpsertVault(db, Vault, new) BY <1>3 DEF Resync
  <2> HIDE DEF new
  <2>2. StateWritten(db, db', Vault, new.state) BY <1>1, <2>1, VaultUpserted
  <2>3. db'["epochs"] = db["epochs"] /\ db'["log"] = db["log"] /\ db'["now"] = db["now"]
    BY <2>2 DEF StateWritten, Keeps, Followed
  <2> QED BY <2>3
<1>4. CASE Rewind \/ UNCHANGED vars
  <2>1. db' = db BY <1>4 DEF Rewind, vars
  <2> QED BY <2>1
<1> QED BY <1>2, <1>3, <1>4, StepsOf

Closing(d, paid) ==
  \A k \in DOMAIN d.epochs : d.epochs[k].closed =>
    k[2] \in 1..Len(paid) /\ paid[k[2]] >= d.epochs[k].yield
ClosedInv == BookInv /\ Logged(db, history) /\ Listed(db) /\ Closing(db, chain.paid)

LEMMA ClosedInitially ==
  ASSUME Init
  PROVE  ClosedInv
<1>1. db \in {Neighbours, EmptyDatabase} BY DEF Init
<1>2. db.log = <<>>
  <2>1. CASE db = EmptyDatabase BY <2>1 DEF EmptyDatabase
  <2>2. CASE db = Neighbours BY <2>2 DEF Neighbours, EmptyDatabase
  <2> QED BY <1>1, <2>1, <2>2
<1>3. Logged(db, history)
  <2>1. Len(db.log) = 0 /\ db.log \in Seq({}) BY <1>2
  <2> QED BY <2>1 DEF Logged
<1>4. \A k \in DOMAIN db.epochs : /\ DOMAIN db.epochs[k] = EpochFields
                                  /\ db.epochs[k].yield \in Nat /\ db.epochs[k].closed = FALSE
  <2>1. CASE db = EmptyDatabase BY <2>1 DEF EmptyDatabase
  <2>2. CASE db = Neighbours
    <3> DEFINE epoch(day) == [yield |-> day + 1, closed |-> FALSE, closedAt |-> 0, at |-> day, shares |-> 1]
    <3>1. db.epochs = [k \in {<<"v1", 1>>, <<"v1", 2>>} |-> epoch(k[2] - 1)]
      BY <2>2 DEF Neighbours, EmptyDatabase
    <3>2. \A day \in 0..1 : DOMAIN epoch(day) = EpochFields /\ epoch(day).yield \in Nat
                           /\ epoch(day).closed = FALSE
      BY DEF EpochFields
    <3>3. \A k \in DOMAIN db.epochs : k[2] - 1 \in 0..1 /\ db.epochs[k] = epoch(k[2] - 1)
      BY <3>1
    <3> HIDE DEF epoch
    <3> QED BY <3>2, <3>3
  <2> QED BY <1>1, <2>1, <2>2
<1>5. Listed(db) /\ Closing(db, chain.paid) BY <1>4 DEF Listed, Closing
<1> QED BY <1>3, <1>5, BooksInitially DEF ClosedInv

LEMMA ClosedSpoken ==
  ASSUME ClosedInv, Emits
  PROVE  ClosedInv'
<1>1. BookInv' /\ Grown /\ db' = db /\ \E ev : history' = Append(history, ev)
  BY BooksSpoken DEF ClosedInv
<1>2. PICK S : history \in Seq(S) BY DEF ClosedInv, BookInv, WordInv, WellRead
<1>3. Logged(db', history') BY <1>1, <1>2, LoggedMore DEF ClosedInv
<1>4. Closing(db', chain'.paid)
  <2> SUFFICES ASSUME NEW k \in DOMAIN db.epochs, db.epochs[k].closed
               PROVE  k[2] \in 1..Len(chain'.paid) /\ chain'.paid[k[2]] >= db.epochs[k].yield
    BY <1>1 DEF Closing
  <2>1. k[2] \in 1..Len(chain.paid) /\ chain.paid[k[2]] >= db.epochs[k].yield
    BY DEF ClosedInv, Closing
  <2>2. db.epochs[k].yield \in Nat BY DEF ClosedInv, Listed
  <2>3. chain.paid \in Seq(Nat) /\ chain'.paid \in Seq(Nat)
    BY <1>1 DEF ClosedInv, BookInv, Typed
  <2>4. Len(chain.paid) \in Nat /\ Len(chain'.paid) \in Nat BY <2>3, LenProperties
  <2>5. Len(chain'.paid) >= Len(chain.paid) /\ chain'.paid[k[2]] >= chain.paid[k[2]]
    BY <1>1, <2>1 DEF Grown
  <2>6. k[2] \in 1..Len(chain'.paid) BY <2>1, <2>4, <2>5
  <2>7. chain.paid[k[2]] \in Nat /\ chain'.paid[k[2]] \in Nat
    <3> DEFINE e == k[2]
    <3>1. e \in 1..Len(chain.paid) /\ e \in 1..Len(chain'.paid) BY <2>1, <2>6
    <3> HIDE DEF e
    <3>2. chain.paid[e] \in Nat /\ chain'.paid[e] \in Nat BY <2>3, <3>1, ElementOfSeq
    <3> QED BY <3>2 DEF e
  <2> QED BY <2>1, <2>2, <2>5, <2>6, <2>7
<1>5. Listed(db') BY <1>1 DEF ClosedInv, Listed
<1> QED BY <1>1, <1>3, <1>4, <1>5 DEF ClosedInv, Logged, Listed, Closing

\* A claim closes an epoch once the log holds its whole yield.
LEMMA ClosedDelivered ==
  ASSUME ClosedInv, Deliver
  PROVE  ClosedInv'
<1> DEFINE ev == history[at + 1]
           paid == chain.paid
<1>0. ~Emits /\ [Next]_vars BY EmitsQuiet DEF Deliver, StillTables, Next
<1>1. BookInv' /\ chain' = chain /\ history' = history BY <1>0, BooksStill DEF ClosedInv
<1>2. /\ at \in Nat /\ at + 1 \in 1..Len(history) /\ db' = Indexed(db, ev) /\ Shaped(db)
      /\ ev.name \in LoudNames \cup QuietNames
      /\ Known(db, Vault) \/ ev.name = "v_create"
  BY NextDelivered DEF ClosedInv
<1>3. PICK S : history \in Seq(S) BY DEF ClosedInv, BookInv, WordInv, WellRead
<1>4. Accounted(paid, history) /\ Logged(db, history) /\ Listed(db) /\ Closing(db, paid)
      /\ paid \in Seq(Nat)
  BY DEF ClosedInv, BookInv, Typed
<1> HIDE DEF ev, paid
<1>5. CASE ev.name \notin {"yield_dis"} \cup ClaimNames
  <2>1. db'.epochs = db.epochs /\ Logged(db', history) BY <1>2, <1>4, <1>5, OtherIndexed
  <2>2. Listed(db') /\ Closing(db', paid) BY <1>4, <2>1 DEF Listed, Closing
  <2> QED BY <1>1, <2>1, <2>2 DEF ClosedInv, Logged, Listed, Closing, paid
<1>6. CASE ev.name = "yield_dis"
  <2>1. EpochFormed(ev) /\ Known(db, Vault) BY <1>2, <1>4, <1>6 DEF Accounted, ev
  <2>2. CASE Parsed(ev) = None
    <3>1. db'.epochs = db.epochs /\ db'.log = db.log BY <1>2, <2>2, NothingRead
    <3>2. Logged(db', history) BY <1>4, <3>1, LoggedSame
    <3>3. Listed(db') /\ Closing(db', paid) BY <1>4, <3>1 DEF Listed, Closing
    <3> QED BY <1>1, <3>2, <3>3 DEF ClosedInv, Logged, Listed, Closing, paid
  <2>3. CASE Parsed(ev) # None
    <3> DEFINE n == ev.topics[2]
               amount == ev.data[1]
               now == NotBefore(db, ev.ledger).now
               key == <<Vault, n>>
    <3>1. Opens(db, db', n, amount, now) /\ Logged(db', history)
      BY <1>2, <1>4, <2>1, <2>3, DistributionDelivered
    <3>2. amount \in Nat BY <2>1 DEF EpochFormed
    <3> HIDE DEF n, amount, now, key
    <3>3. ASSUME NEW k \in DOMAIN db'.epochs
          PROVE  \/ k \in DOMAIN db.epochs /\ db'.epochs[k] = db.epochs[k]
                 \/ DOMAIN db'.epochs[k] = EpochFields /\ db'.epochs[k].yield \in Nat
                    /\ db'.epochs[k].closed = FALSE
      BY <3>1, <3>2 DEF Opens
    <3>4. Listed(db') BY <1>4, <3>3 DEF Listed
    <3>5. Closing(db', paid) BY <1>4, <3>3 DEF Closing
    <3> QED BY <1>1, <3>1, <3>4, <3>5 DEF ClosedInv, Logged, Listed, Closing, paid
  <2> QED BY <2>2, <2>3
<1>7. CASE ev.name \in ClaimNames
  <2> DEFINE n == EpochOf(ev)
  <2>1. ClaimFormed(ev, Len(paid)) BY <1>2, <1>4, <1>7 DEF Accounted, ev
  <2>2. MayClose(db, db', n) /\ Logged(db', history)
    BY <1>2, <1>4, <2>1, ClaimDelivered DEF ev
  <2>3. n \in 1..Len(paid) BY <2>1 DEF ClaimFormed
  <2> HIDE DEF n
  <2>4. Listed(db') BY <1>4, <2>2 DEF Listed, MayClose
  <2>5. paid[n] \in Nat BY <1>4, <2>3, ElementOfSeq
  <2>6. ClaimedInLog(db, Vault, n) \in Nat /\ ClaimedInLog(db, Vault, n) <= paid[n]
    <3>1. ClaimedInLog(db, Vault, n) \in Nat /\ ClaimedInLog(db, Vault, n) <= ClaimedIn(history, n)
      BY <1>3, <1>4, LogBounded
    <3>2. ClaimedIn(history, n) \in Nat /\ ClaimedIn(history, n) <= paid[n]
      BY <1>3, <1>4, <2>3, ClaimsCounted DEF Accounted
    <3> QED BY <2>5, <3>1, <3>2
  <2>7. Closing(db', paid)
    <3> SUFFICES ASSUME NEW k \in DOMAIN db'.epochs, db'.epochs[k].closed
                 PROVE  k[2] \in 1..Len(paid) /\ paid[k[2]] >= db'.epochs[k].yield
      BY DEF Closing
    <3>1. k \in DOMAIN db.epochs /\ db'.epochs[k].yield = db.epochs[k].yield
          /\ db.epochs[k].yield \in Nat
      BY <1>4, <2>2 DEF MayClose, Listed
    <3>2. CASE db.epochs[k].closed BY <1>4, <3>1, <3>2 DEF Closing
    <3>3. CASE k[2] = n /\ ClaimedInLog(db, Vault, n) >= db.epochs[k].yield
      BY <2>3, <2>5, <2>6, <3>1, <3>3
    <3> QED BY <2>2, <3>1, <3>2, <3>3 DEF MayClose
  <2> QED BY <1>1, <2>2, <2>4, <2>7 DEF ClosedInv, Logged, Listed, Closing, paid
<1> QED BY <1>5, <1>6, <1>7

LEMMA ClosedUndisturbed ==
  ASSUME ClosedInv, [Next]_vars, ~Emits, ~Deliver
  PROVE  ClosedInv'
<1>1. BookInv' /\ chain' = chain /\ history' = history BY BooksStill DEF ClosedInv
<1>2. db'.epochs = db.epochs /\ db'.log = db.log BY TablesStill DEF ClosedInv
<1> QED BY <1>1, <1>2 DEF ClosedInv, Logged, Listed, Closing

LEMMA ClosedShown ==
  ASSUME ClosedInv
  PROVE  ClosedMeansClaimed
<1>1. PICK S : history \in Seq(S) BY DEF ClosedInv, BookInv, WordInv, WellRead
<1>2. chain.paid \in Seq(Nat) /\ Accounted(chain.paid, history) BY DEF ClosedInv, BookInv, Typed
<1>3. DOMAIN chain.paid = 1..Len(chain.paid) BY <1>2, LenProperties
<1>4. ASSUME NEW e \in DOMAIN chain.paid
      PROVE  ClaimedInLog(db, Vault, e) <= chain.paid[e]
  <2>1. e \in 1..Len(chain.paid) /\ chain.paid[e] \in Nat BY <1>2, <1>3
  <2>2. ClaimedInLog(db, Vault, e) \in Nat /\ ClaimedInLog(db, Vault, e) <= ClaimedIn(history, e)
    BY <1>1, <1>2, LogBounded DEF ClosedInv
  <2>3. ClaimedIn(history, e) \in Nat /\ ClaimedIn(history, e) <= chain.paid[e]
    BY <1>1, <1>2, <2>1, ClaimsCounted DEF Accounted
  <2> QED BY <2>1, <2>2, <2>3
<1>5. \A k \in DOMAIN db.epochs : db.epochs[k].closed => chain.paid[k[2]] >= db.epochs[k].yield
  BY DEF ClosedInv, Closing
<1> QED BY <1>4, <1>5 DEF ClosedMeansClaimed

\* However often claims are delivered again, the log counts none twice, so it
\* never tells more claimed of an epoch than the contract paid, and a row is
\* closed only after its yield was paid in full (handleYieldClaimed,
\* closeEpochIfFullyClaimed, the key of indexed_events).
THEOREM NoEpochClosedEarly == Spec => []ClosedMeansClaimed
<1>1. Init => ClosedInv BY ClosedInitially
<1>2. ClosedInv /\ [Next]_vars => ClosedInv' BY ClosedSpoken, ClosedDelivered, ClosedUndisturbed
<1>3. ClosedInv => ClosedMeansClaimed BY ClosedShown
<1> QED BY <1>1, <1>2, <1>3, PTL DEF Spec

-----------------------------------------------------------------------------
(* A report tells no more than its year *)

\* What was distributed in a year of a history.
ToldIn(h, year) == {j \in 1..Len(h) : h[j].name = "yield_dis" /\ InYear(h[j].ledger, year)}
YieldIn(h, year) == Total(Amounts(h), ToldIn(h, year))
Distributions(h) == \A j \in 1..Len(h) : h[j].name = "yield_dis" => EpochFormed(h[j])

LEMMA YieldCounted ==
  ASSUME NEW S, NEW h \in Seq(S), Distributions(h), NEW year
  PROVE  /\ IsFiniteSet(ToldIn(h, year)) /\ YieldIn(h, year) \in Nat
         /\ \A j \in ToldIn(h, year) : Amounts(h)[j] \in Nat
<1>1. IsFiniteSet(ToldIn(h, year))
  <2>1. IsFiniteSet(1..Len(h)) BY LenProperties, FS_Interval
  <2> QED BY <2>1, FS_Subset DEF ToldIn
<1>2. \A j \in ToldIn(h, year) : Amounts(h)[j] \in Nat
  BY DEF ToldIn, Amounts, Distributions, EpochFormed
<1> QED BY <1>1, <1>2, TotalIsNat DEF YieldIn

LEMMA YieldGrows ==
  ASSUME NEW S, NEW h \in Seq(S), NEW ev, Distributions(h), Distributions(Append(h, ev)), NEW year
  PROVE  YieldIn(h, year) <= YieldIn(Append(h, ev), year)
<1> DEFINE g == Append(h, ev)
           same == [j \in ToldIn(h, year) |-> j]
<1>1. g \in Seq(S \cup {ev}) /\ Len(h) \in Nat /\ Len(g) = Len(h) + 1
      /\ \A j \in 1..Len(h) : g[j] = h[j]
  BY Longer
<1> HIDE DEF g
<1>2. \A j \in ToldIn(h, year) : j \in ToldIn(g, year) /\ Amounts(g)[j] = Amounts(h)[j]
  BY <1>1 DEF ToldIn, Amounts
<1>3. IsFiniteSet(ToldIn(h, year)) /\ \A j \in ToldIn(h, year) : Amounts(h)[j] \in Nat
  BY YieldCounted
<1>4. IsFiniteSet(ToldIn(g, year)) /\ \A j \in ToldIn(g, year) : Amounts(g)[j] \in Nat
  <2>1. Distributions(g) BY DEF g
  <2> QED BY <1>1, <2>1, YieldCounted
<1>5. \A j \in ToldIn(h, year) : same[j] = j OBVIOUS
<1> HIDE DEF same
<1>6. \A j \in ToldIn(h, year) : same[j] \in ToldIn(g, year) /\ Amounts(h)[j] <= Amounts(g)[same[j]]
  BY <1>2, <1>3, <1>5
<1>7. \A i, j \in ToldIn(h, year) : same[i] = same[j] => i = j BY <1>5
<1>8. Total(Amounts(h), ToldIn(h, year)) <= Total(Amounts(g), ToldIn(g, year))
  BY <1>3, <1>4, <1>6, <1>7, TotalInjected
<1> QED BY <1>8 DEF YieldIn, g

\* Every row of the vault's epochs is one distribution of the history.
TellsRow(d, h, k, j) ==
  /\ h[j].name = "yield_dis" /\ h[j].topics[2] = k[2]
  /\ h[j].ledger = d.epochs[k].at /\ h[j].data[1] = d.epochs[k].yield
RowsTold(d, h) ==
  /\ IsFiniteSet(DOMAIN d.epochs)
  /\ \A k \in DOMAIN d.epochs : k[1] = Vault =>
       k = <<Vault, k[2]>> /\ \E j \in 1..Len(h) : TellsRow(d, h, k, j)

LEMMA ReportBounded ==
  ASSUME NEW S, NEW h \in Seq(S), Distributions(h), NEW d, RowsTold(d, h), NEW year
  PROVE  LET total == ComputeAnnualReportData(d, Vault, year).total
         IN  total \in Nat /\ total <= YieldIn(h, year)
<1> DEFINE E == {e \in EpochsOf(d, Vault) : InYear(EpochRow(d, Vault, e).at, year)}
           yields == [e \in E |-> YieldOf(d, Vault, e)]
           source == [e \in E |-> CHOOSE j \in 1..Len(h) : TellsRow(d, h, <<Vault, e>>, j)]
           total == ComputeAnnualReportData(d, Vault, year).total
<1>1. total = Total(yields, E) BY DEF ComputeAnnualReportData, TotalYield
<1>2. IsFiniteSet(E)
  <2> DEFINE T == DOMAIN d.epochs
             key == [e \in E |-> <<Vault, e>>]
  <2>1. \A e \in E : <<Vault, e>> \in T BY DEF EpochsOf, RowsTold
  <2>2. IsFiniteSet(T) BY DEF RowsTold
  <2>3. \A e, x \in E : key[e] = key[x] => e = x OBVIOUS
  <2> HIDE DEF E, T
  <2>4. key \in [E -> T] BY <2>1
  <2>5. key \in Injection(E, T) BY <2>3, <2>4 DEF Injection, IsInjective
  <2> HIDE DEF key
  <2> QED BY <2>2, <2>5, FS_Injection
<1>3. ASSUME NEW e \in E
      PROVE  /\ <<Vault, e>> \in DOMAIN d.epochs /\ yields[e] = d.epochs[<<Vault, e>>].yield
             /\ InYear(d.epochs[<<Vault, e>>].at, year)
             /\ \E j \in 1..Len(h) : TellsRow(d, h, <<Vault, e>>, j)
  <2>1. PICK k \in DOMAIN d.epochs : k[1] = Vault /\ k[2] = e BY DEF EpochsOf
  <2>2. k = <<Vault, e>> /\ \E j \in 1..Len(h) : TellsRow(d, h, k, j) BY <2>1 DEF RowsTold
  <2> QED BY <2>2 DEF EpochRow, YieldOf
<1>4. \A e \in E : source[e] = CHOOSE j \in 1..Len(h) : TellsRow(d, h, <<Vault, e>>, j) OBVIOUS
<1> HIDE DEF E, yields, source, total
<1>5. \A e \in E : source[e] \in 1..Len(h) /\ TellsRow(d, h, <<Vault, e>>, source[e])
  BY <1>3, <1>4
<1>6. ASSUME NEW e \in E
      PROVE  /\ source[e] \in ToldIn(h, year) /\ yields[e] = Amounts(h)[source[e]]
             /\ h[source[e]].topics[2] = e
  <2> DEFINE j == source[e]
             k == <<Vault, e>>
  <2>1. j \in 1..Len(h) /\ TellsRow(d, h, k, j) BY <1>5
  <2>2. yields[e] = d.epochs[k].yield /\ InYear(d.epochs[k].at, year) /\ k[2] = e BY <1>3
  <2> HIDE DEF j, k
  <2>3. j \in ToldIn(h, year) BY <2>1, <2>2 DEF ToldIn, TellsRow
  <2>4. yields[e] = Amounts(h)[j] BY <2>1, <2>2 DEF TellsRow, Amounts
  <2>5. h[j].topics[2] = e BY <2>1, <2>2 DEF TellsRow
  <2> QED BY <2>3, <2>4, <2>5 DEF j
<1>7. IsFiniteSet(ToldIn(h, year)) /\ \A j \in ToldIn(h, year) : Amounts(h)[j] \in Nat
  BY YieldCounted
<1>8. \A e \in E : yields[e] \in Nat /\ yields[e] <= Amounts(h)[source[e]] BY <1>6, <1>7
<1>9. \A e, x \in E : source[e] = source[x] => e = x BY <1>6
<1>10. Total(yields, E) <= Total(Amounts(h), ToldIn(h, year))
  BY <1>2, <1>6, <1>7, <1>8, <1>9, TotalInjected
<1>11. Total(yields, E) \in Nat BY <1>2, <1>8, TotalIsNat
<1> QED BY <1>1, <1>10, <1>11 DEF YieldIn, total

\* What a delivery does to the rows: they keep their yield and their time, and
\* a distribution that is read has its row, dated by the clock if it is new.
KeyOf(ev) == <<Vault, ev.topics[2]>>
Follows(d, e, ev, now) ==
  /\ \A k \in DOMAIN d.epochs : e.epochs[k].yield = d.epochs[k].yield /\ e.epochs[k].at = d.epochs[k].at
  /\ \/ DOMAIN e.epochs = DOMAIN d.epochs
     \/ /\ ev.name = "yield_dis" /\ Parsed(ev) # None
        /\ DOMAIN e.epochs = DOMAIN d.epochs \cup {KeyOf(ev)}
        /\ KeyOf(ev) \notin DOMAIN d.epochs =>
             e.epochs[KeyOf(ev)].at = now /\ e.epochs[KeyOf(ev)].yield = ev.data[1]
  /\ ev.name = "yield_dis" /\ Parsed(ev) # None => KeyOf(ev) \in DOMAIN e.epochs
  /\ e.reports = d.reports

LEMMA EpochsFollow ==
  ASSUME ClosedInv, Deliver
  PROVE  Follows(db, db', history[at + 1], NotBefore(db, history[at + 1].ledger).now)
<1> DEFINE ev == history[at + 1]
           paid == chain.paid
           now == NotBefore(db, ev.ledger).now
<1>1. /\ at + 1 \in 1..Len(history) /\ db' = Indexed(db, ev) /\ Shaped(db)
      /\ ev.name \in LoudNames \cup QuietNames
      /\ Known(db, Vault) \/ ev.name = "v_create"
  BY NextDelivered DEF ClosedInv
<1>2. Accounted(paid, history) /\ Logged(db, history) /\ Listed(db)
  BY DEF ClosedInv, BookInv
<1> HIDE DEF ev, paid
<1>3. CASE ev.name \notin {"yield_dis"} \cup ClaimNames
  <2>1. db'.epochs = db.epochs /\ db'.reports = db.reports BY <1>1, <1>2, <1>3, OtherIndexed
  <2> QED BY <1>3, <2>1 DEF Follows, ev
<1>4. CASE ev.name = "yield_dis"
  <2>1. EpochFormed(ev) /\ Known(db, Vault) BY <1>1, <1>2, <1>4 DEF Accounted, ev
  <2>2. CASE Parsed(ev) = None
    <3>1. db'.epochs = db.epochs /\ db'.reports = db.reports BY <1>1, <2>2, NothingRead
    <3> QED BY <2>2, <3>1 DEF Follows, ev
  <2>3. CASE Parsed(ev) # None
    <3> HIDE DEF now
    <3>1. Opens(db, db', ev.topics[2], ev.data[1], now) /\ db'.reports = db.reports
      BY <1>1, <1>2, <2>1, <2>3, DistributionDelivered DEF now
    <3>2. Follows(db, db', ev, now) BY <1>4, <2>3, <3>1 DEF Follows, Opens, KeyOf
    <3> QED BY <3>2 DEF ev, now
  <2> QED BY <2>2, <2>3
<1>5. CASE ev.name \in ClaimNames
  <2>1. ClaimFormed(ev, Len(paid)) BY <1>1, <1>2, <1>5 DEF Accounted, ev
  <2>2. MayClose(db, db', EpochOf(ev)) /\ db'.reports = db.reports
    BY <1>1, <1>2, <2>1, ClaimDelivered DEF ev
  <2>3. ev.name # "yield_dis" BY <1>5 DEF ClaimNames
  <2> HIDE DEF now
  <2>4. Follows(db, db', ev, now) BY <2>2, <2>3 DEF Follows, MayClose
  <2> QED BY <2>4 DEF ev, now
<1> QED BY <1>3, <1>4, <1>5

\* The deliveries have been as far as event m: the clock is not past it, and
\* what was distributed until then and read has its row.
LedgerAt(h, m) == IF m = 0 THEN 1 ELSE h[m].ledger
Frontier(d, h, i, m) ==
  /\ m \in i..Len(h) /\ d.now <= LedgerAt(h, m)
  /\ \A j \in 1..m : h[j].name = "yield_dis" /\ Parsed(h[j]) # None => KeyOf(h[j]) \in DOMAIN d.epochs
Reported(d, h) ==
  \A k \in DOMAIN d.reports : k[1] = Vault =>
    d.reports[k].total \in Nat /\ d.reports[k].total <= YieldIn(h, k[2])
ReportInv ==
  /\ ClosedInv /\ RowsTold(db, history) /\ db.now \in Nat
  /\ \E m \in Nat : Frontier(db, history, at, m)
  /\ Reported(db, history)

LEMMA ReportInitially ==
  ASSUME Init
  PROVE  ReportInv
<1>1. db \in {Neighbours, EmptyDatabase} /\ history = <<>> /\ at = 0 BY DEF Init
<1>2. /\ db.now \in 0..1 /\ db.reports = <<>> /\ IsFiniteSet(DOMAIN db.epochs)
      /\ \A k \in DOMAIN db.epochs : k[1] # Vault
  <2>1. CASE db = EmptyDatabase
    <3>1. db.now = 0 /\ db.reports = <<>> /\ DOMAIN db.epochs = {} BY <2>1 DEF EmptyDatabase
    <3> QED BY <3>1, FS_EmptySet
  <2>2. CASE db = Neighbours
    <3>1. db.now = 1 /\ db.reports = <<>> /\ DOMAIN db.epochs = {<<"v1", 1>>, <<"v1", 2>>}
      BY <2>2 DEF Neighbours, EmptyDatabase
    <3>2. IsFiniteSet({<<"v1", 1>>, <<"v1", 2>>})
      <4>1. IsFiniteSet({<<"v1", 1>>}) BY FS_Singleton
      <4>2. IsFiniteSet({<<"v1", 1>>} \cup {<<"v1", 2>>}) BY <4>1, FS_AddElement
      <4>3. {<<"v1", 1>>, <<"v1", 2>>} = {<<"v1", 1>>} \cup {<<"v1", 2>>} OBVIOUS
      <4> QED BY <4>2, <4>3, Zenon
    <3> QED BY <3>1, <3>2, VaultAssumption
  <2> QED BY <1>1, <2>1, <2>2
<1>3. Len(history) = 0 BY <1>1
<1>4. Frontier(db, history, at, 0) BY <1>1, <1>2, <1>3 DEF Frontier, LedgerAt
<1>5. Reported(db, history) BY <1>2 DEF Reported
<1>6. RowsTold(db, history) BY <1>2 DEF RowsTold
<1> QED BY <1>2, <1>4, <1>5, <1>6, ClosedInitially DEF ReportInv

LEMMA ReportSpoken ==
  ASSUME ReportInv, Emits
  PROVE  ReportInv'
<1>1. BookInv' /\ db' = db /\ at' = at /\ \E ev : history' = Append(history, ev)
  BY BooksSpoken DEF ReportInv, ClosedInv
<1>2. ClosedInv' BY ClosedSpoken DEF ReportInv
<1>3. PICK ev : history' = Append(history, ev) BY <1>1
<1>4. PICK S : history \in Seq(S) BY DEF ReportInv, ClosedInv, BookInv, WordInv, WellRead
<1>5. /\ Len(history) \in Nat /\ Len(history') = Len(history) + 1
      /\ \A i \in 1..Len(history) : history'[i] = history[i]
  BY <1>3, <1>4, Longer
<1>6. Distributions(history) /\ Distributions(history')
  BY <1>2 DEF ReportInv, ClosedInv, BookInv, Accounted, Distributions
<1>7. RowsTold(db', history')
  <2>1. \A k \in DOMAIN db.epochs : \A j \in 1..Len(history) :
          TellsRow(db, history, k, j) => TellsRow(db, history', k, j) /\ j \in 1..Len(history')
    BY <1>5 DEF TellsRow
  <2> QED BY <1>1, <2>1 DEF ReportInv, RowsTold
<1>8. PICK m \in Nat : Frontier(db, history, at, m) BY DEF ReportInv
<1>9. Frontier(db', history', at', m)
  <2>1. at \in 0..Len(history) BY DEF ReportInv, ClosedInv, BookInv, WordInv, Followable
  <2>2. m \in at..Len(history) /\ m \in at..Len(history') BY <1>5, <1>8, <2>1 DEF Frontier
  <2>3. \A j \in 1..m : history'[j] = history[j] BY <1>5, <2>1, <2>2
  <2>4. LedgerAt(history', m) = LedgerAt(history, m) BY <2>1, <2>2, <2>3 DEF LedgerAt
  <2> QED BY <1>1, <1>8, <2>2, <2>3, <2>4 DEF Frontier
<1>10. Reported(db', history')
  <2> SUFFICES ASSUME NEW k \in DOMAIN db.reports, k[1] = Vault
               PROVE  db.reports[k].total \in Nat /\ db.reports[k].total <= YieldIn(history', k[2])
    BY <1>1 DEF Reported
  <2>1. db.reports[k].total \in Nat /\ db.reports[k].total <= YieldIn(history, k[2])
    BY DEF ReportInv, Reported
  <2>2. YieldIn(history, k[2]) <= YieldIn(history', k[2]) BY <1>3, <1>4, <1>6, YieldGrows
  <2>3. YieldIn(history, k[2]) \in Nat BY <1>4, <1>6, YieldCounted
  <2>4. YieldIn(history', k[2]) \in Nat
    <3>1. history' \in Seq(S \cup {ev}) BY <1>3, <1>4, Longer
    <3> QED BY <1>6, <3>1, YieldCounted
  <2> QED BY <2>1, <2>2, <2>3, <2>4
<1>11. db'.now \in Nat BY <1>1 DEF ReportInv
<1> QED BY <1>2, <1>7, <1>8, <1>9, <1>10, <1>11 DEF ReportInv, RowsTold, Frontier, Reported

LEMMA ReportDelivered ==
  ASSUME ReportInv, Deliver
  PROVE  ReportInv'
<1> DEFINE i == at + 1
           ev == history[i]
           now == NotBefore(db, ev.ledger).now
<1>0. ~Emits /\ [Next]_vars BY EmitsQuiet DEF Deliver, StillTables, Next
<1>1. history' = history BY <1>0, BooksStill DEF ReportInv, ClosedInv
<1>2. ClosedInv' BY ClosedDelivered DEF ReportInv
<1>3. /\ at \in Nat /\ i \in 1..Len(history) /\ db' = Indexed(db, ev) /\ at' = i /\ Shaped(db)
      /\ ev.ledger \in Nat \ {0}
  BY NextDelivered DEF ReportInv, ClosedInv
<1>4. Len(history) \in Nat /\ Timed
  BY LenProperties DEF ReportInv, ClosedInv, BookInv, WordInv, WellRead
<1>5. db.now \in Nat /\ RowsTold(db, history) /\ Reported(db, history) BY DEF ReportInv
<1>6. now = IF db.now > ev.ledger THEN db.now ELSE ev.ledger
  BY <1>3 DEF NotBefore, Shaped, Tables
<1>7. db'.now = now /\ now \in Nat BY <1>3, <1>5, NowIndexed
<1>8. Follows(db, db', ev, now) BY EpochsFollow DEF ReportInv
<1>9. PICK m \in Nat : Frontier(db, history, at, m) BY DEF ReportInv
<1>10. m \in at..Len(history) /\ db.now <= LedgerAt(history, m) BY <1>9 DEF Frontier
<1> DEFINE key == KeyOf(ev)
<1>11. i <= m /\ ev.name = "yield_dis" /\ Parsed(ev) # None => key \in DOMAIN db.epochs
  BY <1>3, <1>9 DEF Frontier
<1>12. i <= m => now <= LedgerAt(history, m)
  <2> SUFFICES ASSUME i <= m PROVE now <= LedgerAt(history, m) OBVIOUS
  <2>1. m \in 1..Len(history) /\ i \in 1..m BY <1>3, <1>10
  <2>2. history[m].ledger \in Nat /\ ev.ledger <= history[m].ledger BY <1>4, <2>1 DEF Timed
  <2>3. LedgerAt(history, m) = history[m].ledger BY <2>1 DEF LedgerAt
  <2> HIDE DEF now, ev
  <2> QED BY <1>3, <1>5, <1>6, <1>10, <2>2, <2>3
<1>13. i > m => now = ev.ledger /\ m = at
  <2> SUFFICES ASSUME i > m PROVE now = ev.ledger /\ m = at OBVIOUS
  <2>1. m = at BY <1>3, <1>10
  <2>2. LedgerAt(history, m) \in Nat /\ LedgerAt(history, m) <= ev.ledger
    <3>1. CASE m = 0
      <4>1. LedgerAt(history, m) = 1 BY <3>1 DEF LedgerAt
      <4> HIDE DEF ev
      <4> QED BY <1>3, <4>1
    <3>2. CASE m # 0
      <4>1. m \in 1..i /\ m \in 1..Len(history) BY <1>3, <1>10, <2>1, <3>2
      <4>2. history[m].ledger \in Nat /\ history[m].ledger <= ev.ledger BY <1>3, <1>4, <4>1 DEF Timed
      <4> QED BY <3>2, <4>2 DEF LedgerAt
    <3> QED BY <3>1, <3>2
  <2> HIDE DEF now, ev
  <2> QED BY <1>3, <1>5, <1>6, <1>10, <2>1, <2>2
<1> HIDE DEF now, key
<1>14. \A k \in DOMAIN db.epochs : k \in DOMAIN db'.epochs BY <1>8 DEF Follows
<1>15. \E n \in Nat : Frontier(db', history, i, n)
  <2>1. CASE i <= m
    <3>1. m \in i..Len(history) BY <1>3, <1>10, <2>1
    <3>2. Frontier(db', history, i, m) BY <1>7, <1>9, <1>12, <1>14, <2>1, <3>1 DEF Frontier
    <3> QED BY <3>2
  <2>2. CASE i > m
    <3>1. i \in i..Len(history) /\ i # 0 /\ i \in Nat BY <1>3
    <3>2. db'.now <= LedgerAt(history, i) BY <1>3, <1>7, <1>13, <2>2, <3>1 DEF LedgerAt
    <3>3. ASSUME NEW j \in 1..i, history[j].name = "yield_dis", Parsed(history[j]) # None
          PROVE  KeyOf(history[j]) \in DOMAIN db'.epochs
      <4>1. CASE j = i BY <1>8, <3>3, <4>1 DEF Follows
      <4>2. CASE j # i
        <5>1. j \in 1..m BY <1>3, <1>13, <2>2, <4>2
        <5> QED BY <1>9, <1>14, <3>3, <5>1 DEF Frontier
      <4> QED BY <4>1, <4>2
    <3> HIDE DEF i
    <3>4. Frontier(db', history, i, i) BY <3>1, <3>2, <3>3 DEF Frontier
    <3> QED BY <3>1, <3>4
  <2> QED BY <1>3, <1>10, <2>1, <2>2
<1>16. RowsTold(db', history)
  <2>1. IsFiniteSet(DOMAIN db'.epochs)
    <3>1. IsFiniteSet(DOMAIN db.epochs) BY <1>5 DEF RowsTold
    <3>2. IsFiniteSet(DOMAIN db.epochs \cup {key}) BY <3>1, FS_AddElement
    <3> QED BY <1>8, <3>1, <3>2 DEF Follows, key
  <2>2. ASSUME NEW k \in DOMAIN db'.epochs, k[1] = Vault
        PROVE  k = <<Vault, k[2]>> /\ \E j \in 1..Len(history) : TellsRow(db', history, k, j)
    <3>1. CASE k \in DOMAIN db.epochs
      <4>1. k = <<Vault, k[2]>> /\ \E j \in 1..Len(history) : TellsRow(db, history, k, j)
        BY <1>5, <2>2, <3>1 DEF RowsTold
      <4>2. db'.epochs[k].yield = db.epochs[k].yield /\ db'.epochs[k].at = db.epochs[k].at
        BY <1>8, <3>1 DEF Follows
      <4> QED BY <4>1, <4>2 DEF TellsRow
    <3>2. CASE k \notin DOMAIN db.epochs
      <4>1. /\ k = key /\ ev.name = "yield_dis" /\ Parsed(ev) # None
            /\ db'.epochs[k].at = now /\ db'.epochs[k].yield = ev.data[1]
        BY <1>8, <2>2, <3>2 DEF Follows, key
      <4>2. now = ev.ledger BY <1>3, <1>10, <1>11, <1>13, <3>2, <4>1
      <4>3. k = <<Vault, ev.topics[2]>> BY <4>1 DEF key, KeyOf
      <4>4. k[2] = ev.topics[2] BY <4>3
      <4>5. TellsRow(db', history, k, i) BY <4>1, <4>2, <4>4 DEF TellsRow
      <4> QED BY <1>3, <4>3, <4>4, <4>5
    <3> QED BY <3>1, <3>2
  <2> QED BY <2>1, <2>2 DEF RowsTold
<1>17. Reported(db', history) BY <1>5, <1>8 DEF Reported, Follows
<1> HIDE DEF ev, i
<1> QED BY <1>1, <1>2, <1>3, <1>7, <1>15, <1>16, <1>17 DEF ReportInv, RowsTold, Frontier, Reported

LEMMA ReportUndisturbed ==
  ASSUME ReportInv, [Next]_vars, ~Emits, ~Deliver
  PROVE  ReportInv'
<1>1. ClosedInv' /\ history' = history
  BY ClosedUndisturbed, BooksStill DEF ReportInv, ClosedInv
<1>2. db'.epochs = db.epochs /\ db'.now = db.now BY TablesStill DEF ReportInv, ClosedInv
<1>3. PICK S : history \in Seq(S) BY DEF ReportInv, ClosedInv, BookInv, WordInv, WellRead
<1>4. Distributions(history) /\ RowsTold(db, history) /\ Reported(db, history)
  BY DEF ReportInv, ClosedInv, BookInv, Accounted, Distributions
<1>5. Shaped(db) /\ at \in 0..Len(history) /\ Len(history) \in Nat
  BY <1>3, LenProperties DEF ReportInv, ClosedInv, BookInv, WordInv, Followable
<1>6. RowsTold(db', history') /\ db'.now \in Nat BY <1>1, <1>2, <1>4 DEF ReportInv, RowsTold, TellsRow
<1>7. \E m \in Nat : Frontier(db', history', at', m)
  <2>1. PICK m \in Nat : Frontier(db, history, at, m) BY DEF ReportInv
  <2>2. at' \in 0..Len(history) /\ at' <= at
    <3>1. CASE Tends BY <1>5, <3>1, TendsQuiet
    <3>2. CASE Rewind
      <4>1. PICK i \in 0..(at - 1) : at' = i BY <3>2 DEF Rewind
      <4> QED BY <1>5, <4>1
    <3>3. CASE Resync BY <1>5, <3>3 DEF Resync
    <3>4. CASE UNCHANGED vars BY <1>5, <3>4 DEF vars
    <3> QED BY <3>1, <3>2, <3>3, <3>4, StepsOf
  <2>3. m \in at'..Len(history) BY <1>5, <2>1, <2>2 DEF Frontier
  <2> QED BY <1>1, <1>2, <2>1, <2>3 DEF Frontier
<1>8. Reported(db', history')
  <2>1. CASE AskForReport
    <3>1. PICK year : db' = CacheAnnualReport(db, Vault, year) BY <2>1 DEF AskForReport
    <3> DEFINE data == ComputeAnnualReportData(db, Vault, year)
               key == <<Vault, year>>
    <3>2. db' = db \/ db' = [db EXCEPT !.reports = Upsert(@, key, data)] BY <3>1 DEF CacheAnnualReport
    <3>3. data.total \in Nat /\ data.total <= YieldIn(history, year) BY <1>3, <1>4, ReportBounded
    <3>4. key[2] = year OBVIOUS
    <3> HIDE DEF data, key
    <3>5. CASE db' = db BY <1>1, <1>4, <3>5
    <3>6. CASE db' = [db EXCEPT !.reports = Upsert(@, key, data)]
      <4>1. db'.reports = Upsert(db.reports, key, data) BY <1>5, <3>6 DEF Shaped, Tables
      <4>2. \A k \in DOMAIN db'.reports :
              \/ k = key /\ db'.reports[k] = data
              \/ k \in DOMAIN db.reports /\ db'.reports[k] = db.reports[k]
        BY <4>1 DEF Upsert
      <4> QED BY <1>1, <1>4, <3>3, <3>4, <4>2 DEF Reported
    <3> QED BY <3>2, <3>5, <3>6
  <2>2. CASE GenerateReports
    <3> DEFINE year == db.now \div YearLength
               live == {c \in DOMAIN db.vaults : ~db.vaults[c].archived}
               new == [k \in {<<c, year>> : c \in live} |-> ComputeAnnualReportData(db, k[1], year)]
    <3>1. db' = [db EXCEPT !.reports = Joined(new, @)] BY <2>2 DEF GenerateReports, GenerateVaultReports
    <3>2. \A k \in DOMAIN new : k[2] = year /\ new[k] = ComputeAnnualReportData(db, k[1], year)
      OBVIOUS
    <3> HIDE DEF year, live, new
    <3>3. db'.reports = Joined(new, db.reports) BY <1>5, <3>1 DEF Shaped, Tables
    <3>4. \A k \in DOMAIN db'.reports :
            \/ k \in DOMAIN new /\ db'.reports[k] = new[k]
            \/ k \in DOMAIN db.reports /\ db'.reports[k] = db.reports[k]
      BY <3>3 DEF Joined
    <3>5. \A k \in DOMAIN new : k[1] = Vault => new[k].total \in Nat /\ new[k].total <= YieldIn(history, k[2])
      BY <1>3, <1>4, <3>2, ReportBounded
    <3> QED BY <1>1, <1>4, <3>4, <3>5 DEF Reported
  <2>3. CASE SwitchListing
    <3>1. Framed(Followed, db, db') BY <1>5, <2>3, ListingQuiet DEF SwitchListing
    <3>2. db'["reports"] = db["reports"] BY <3>1 DEF Framed, Keeps, Followed
    <3> QED BY <1>1, <1>4, <3>2 DEF Reported
  <2>4. CASE Resync
    <3> DEFINE row == [Defaults EXCEPT !.totalAssets = Supply, !.totalSupply = Supply]
    <3>1. db' = UpsertVault(db, Vault, row) BY <2>4 DEF Resync
    <3> HIDE DEF row
    <3>2. StateWritten(db, db', Vault, row.state) BY <1>5, <3>1, VaultUpserted
    <3>3. db'["reports"] = db["reports"] BY <3>2 DEF StateWritten, Keeps, Followed
    <3> QED BY <1>1, <1>4, <3>3 DEF Reported
  <2>5. CASE Rewind \/ UNCHANGED vars
    <3>1. db' = db BY <2>5 DEF Rewind, vars
    <3> QED BY <1>1, <1>4, <3>1 DEF Reported
  <2> QED BY <2>1, <2>2, <2>3, <2>4, <2>5, StepsOf DEF Tends
<1> QED BY <1>1, <1>6, <1>7, <1>8 DEF ReportInv, RowsTold, Frontier, Reported

LEMMA ReportShown ==
  ASSUME ReportInv
  PROVE  ReportNeverAhead
<1> SUFFICES ASSUME NEW k \in DOMAIN db.reports, k[1] = Vault
             PROVE  db.reports[k].total <= YieldOfYear(k[2])
  BY DEF ReportNeverAhead
<1> DEFINE year == k[2]
           told == {j \in DOMAIN history : history[j].name = "yield_dis" /\ InYear(history[j].ledger, year)}
           amounts == [j \in told |-> history[j].data[1]]
<1>1. db.reports[k].total <= YieldIn(history, year) BY DEF ReportInv, Reported
<1>2. DOMAIN history = 1..Len(history)
  BY LenProperties DEF ReportInv, ClosedInv, BookInv, WordInv, WellRead
<1>3. told = ToldIn(history, year) BY <1>2 DEF ToldIn
<1>4. \A j \in told : amounts[j] = Amounts(history)[j] BY <1>2 DEF Amounts
<1>5. YieldOfYear(year) = Total(amounts, told) BY DEF YieldOfYear
<1> HIDE DEF told, amounts
<1>6. Total(amounts, told) = Total(Amounts(history), told) BY <1>4, TotalSame
<1> QED BY <1>1, <1>3, <1>5, <1>6 DEF YieldIn

\* A report of a year, worked out on request or by the monthly job and kept from
\* then on, never names more yield than the contract distributed in that year:
\* however often the distributions are delivered again, each has one row, with
\* the time and the yield it was distributed with (computeAnnualReportData,
\* handleYieldDistributed).
THEOREM NoReportAhead == Spec => []ReportNeverAhead
<1>1. Init => ReportInv BY ReportInitially
<1>2. ReportInv /\ [Next]_vars => ReportInv' BY ReportSpoken, ReportDelivered, ReportUndisturbed
<1>3. ReportInv => ReportNeverAhead BY ReportShown
<1> QED BY <1>1, <1>2, <1>3, PTL DEF Spec
=============================================================================
