-------------------------- MODULE VaultProjection --------------------------
(***************************************************************************)
(* The projection of one vault's history into the tables of the backend:   *)
(* the contracts emit events in the shapes of their events.rs, the indexer *)
(* delivers them in order to its handlers, and may deliver a part of the   *)
(* history again (a backfill of an old range, a replay after a pause, a    *)
(* response that ran past the saved cursor).                               *)
(*                                                                         *)
(* chain is what the contracts hold, as far as the tables claim to follow  *)
(* it.  No handler reads the chain, so nothing is lost by letting it move  *)
(* only when the indexer has caught up.                                    *)
(***************************************************************************)
EXTENDS PlatformEndpoints

CONSTANTS Users, Operator, Vault, Factory,
          Mixes,        \* the kinds of events a run lets happen together, and the
                        \* bound on the length of their history
          MaxPasses,    \* bound on how often delivery starts over
          Deposits, YieldAmount

ASSUME VaultAssumption == Vault \notin {"v1", "v2"}  \* the names of the neighbours
ASSUME DepositsAssumption == Deposits \subseteq Nat \ {0}  \* the contract refuses the others
ASSUME UsersAssumption == IsFiniteSet(Users)
ASSUME YieldAssumption == YieldAmount \in Nat

VARIABLES chain,    \* what the contracts hold
          history,  \* the raw events in the order they were emitted
          at,       \* how many of them the current pass has delivered
          passes,   \* how often delivery went back or the vault was resynchronised
          db,       \* the tables
          mix       \* the event kinds of this behaviour

vars == <<chain, history, at, passes, db, mix>>

Raw(contract, name, topics, form, data) ==
  [contract |-> contract, name |-> name, topics |-> <<name>> \o topics,
   form |-> form, data |-> data]
Vec(name, topics, data) == Raw(Vault, name, topics, "vec", data)
Plain(name, topics, value) == Raw(Vault, name, topics, "scalar", <<value>>)

NewChain ==
  [held |-> [u \in Users |-> 0], state |-> "Funding",
   epochs |-> <<>>, unpaid |-> <<>>, paid |-> <<>>, queue |-> {}, ids |-> 0,
   operators |-> {}, roles |-> {}, created |-> FALSE, silent |-> FALSE]

\* Other vaults of the platform, which this history does not touch: one with
\* two epochs behind it, one that has reached its target.
Neighbours ==
  LET own(id, state, name) == [NewVault(id, Factory, state, 2, "bonds")
                                 EXCEPT !.totalAssets = 2, !.totalSupply = 1, !.name = name]
      epoch(day) == [yield |-> day + 1, closed |-> FALSE, closedAt |-> 0, at |-> day, shares |-> 1]
  IN  [EmptyDatabase EXCEPT
        !.vaults = [c \in {"v1", "v2"} |-> IF c = "v1" THEN own(1, "Active", "name")
                                           ELSE own(2, "Funding", "other")],
        !.epochs = [k \in {<<"v1", 1>>, <<"v1", 2>>} |-> epoch(k[2] - 1)], !.now = 1]

Init ==
  /\ chain = NewChain /\ history = <<>> /\ at = 0 /\ passes = 0
  /\ mix \in Mixes
  /\ db = IF "neighbours" \in mix.kinds THEN Neighbours ELSE EmptyDatabase

CaughtUp == at = Len(history)

\* An event enters a new ledger; a claim may enter the one of the event before.
Emit(kind, ev) ==
  /\ kind \in mix.kinds
  /\ CaughtUp
  /\ Len(history) < mix.events
  /\ \E same \in IF kind = "claim" THEN BOOLEAN ELSE {FALSE} :
       LET last == IF history = <<>> THEN [ledger |-> 1, index |-> 0] ELSE history[Len(history)]
           place == IF same THEN [ledger |-> last.ledger, tx |-> last.ledger, index |-> last.index + 1]
                    ELSE [ledger |-> last.ledger + 1, tx |-> last.ledger + 1, index |-> 0]
       IN  history' = Append(history, Joined(ev, place))
  /\ UNCHANGED <<at, passes, db, mix>>

Supply == Total(chain.held, Users)
Live == chain.created /\ chain.state \in {"Funding", "Active"}
-----------------------------------------------------------------------------
\* The factory publishes the new vault's parameters as a tuple.
Create ==
  /\ ~chain.created
  /\ Emit("create", Raw(Factory, "v_create", <<Vault>>, "vec", <<"type", "name">>))
  /\ chain' = [chain EXCEPT !.created = TRUE]

Deposit(u) ==
  /\ Live
  /\ \E n \in Deposits :
       /\ Emit("deposit", Vec("deposit", <<u, u>>, <<n, n>>))
       /\ chain' = [chain EXCEPT !.held[u] = @ + n]

Withdraw(u) ==
  /\ chain.created
  /\ \E n \in 1..chain.held[u] :
       /\ Emit("withdraw", Vec("withdraw", <<u, u, u>>, <<n, n>>))
       /\ chain' = [chain EXCEPT !.held[u] = @ - n]

\* Shares that move without a deposit or a withdrawal.
Transfer(u, w) ==
  /\ u # w /\ chain.held[u] > 0
  /\ Emit("transfer", Plain("transfer", <<u, w>>, chain.held[u]))
  /\ chain' = [chain EXCEPT !.held[u] = 0, !.held[w] = @ + chain.held[u], !.silent = TRUE]

Distribute ==
  /\ chain.state = "Active" /\ Supply > 0
  /\ LET e == Len(chain.epochs) + 1
     IN  /\ Emit("yield", Vec("yield_dis", <<e>>, <<YieldAmount, 0>>))
         /\ chain' = [chain EXCEPT
              !.epochs = Append(@, chain.held), !.paid = Append(@, 0),
              !.unpaid = Append(@, [u \in Users |->
                (YieldAmount * chain.held[u]) \div Supply])]

\* A claim of the whole entitlement of an epoch, in part when cash is short.
Claim(u) ==
  \E e \in DOMAIN chain.unpaid :
    \/ /\ chain.unpaid[e][u] > 0
       /\ Emit("claim", Vec("yield_clm", <<u>>, <<chain.unpaid[e][u], e>>))
       /\ chain' = [chain EXCEPT !.paid[e] = @ + chain.unpaid[e][u], !.unpaid[e][u] = 0]
    \/ /\ chain.unpaid[e][u] > 1
       /\ Emit("claim", Vec("prt_yld", <<u>>, <<1, chain.unpaid[e][u] - 1, e>>))
       /\ chain' = [chain EXCEPT !.paid[e] = @ + 1, !.unpaid[e][u] = 0]

RequestRedemption(u) ==
  /\ chain.state = "Active" /\ chain.held[u] > 0
  /\ LET id == chain.ids + 1
     IN  /\ Emit("queue", Vec("erq_req", <<u>>, <<id, chain.held[u], Cardinality(chain.queue) + 1>>))
         /\ chain' = [chain EXCEPT !.ids = id, !.held[u] = 0, !.silent = TRUE,
                                   !.queue = @ \cup {<<id, u, chain.held[u]>>}]

ProcessRedemption ==
  \E r \in chain.queue :
    /\ Emit("queue", Vec("erq_done", <<r[2]>>, <<r[1], r[3]>>))
    /\ chain' = [chain EXCEPT !.queue = @ \ {r}]

\* Cancelled by its user or rejected by the operator.
CancelRedemption ==
  \E r \in chain.queue :
    /\ Emit("queue", Vec("erq_can", <<r[2]>>, <<r[1], r[3]>>))
    /\ chain' = [chain EXCEPT !.queue = @ \ {r}, !.held[r[2]] = @ + r[3]]

ChangeState(new) ==
  /\ chain.created /\ chain.state # new
  /\ <<chain.state, new>> \in {<<"Funding", "Active">>, <<"Active", "Matured">>,
                               <<"Matured", "Closed">>}
  /\ Emit("state", Vec("st_chg", <<>>, <<chain.state, new>>))
  /\ chain' = [chain EXCEPT !.state = new]

CancelFunding ==
  /\ chain.created /\ chain.state = "Funding"
  /\ Emit("state", Plain("fund_cxl", <<>>, 0))
  /\ chain' = [chain EXCEPT !.state = "Cancelled"]

SetOperator(on) ==
  /\ chain.created /\ on # (Operator \in chain.operators)
  /\ Emit("settings", IF on THEN Plain("op_add", <<Factory, Operator>>, 0)
                      ELSE Vec("op_rem", <<Factory, Operator>>, <<0, "reason">>))
  /\ chain' = [chain EXCEPT !.operators = IF on THEN {Operator} ELSE {}]

SetRole(on) ==
  /\ chain.created /\ on # (Operator \in chain.roles)
  /\ Emit("settings", Plain(IF on THEN "role_grt" ELSE "role_rvk", <<Operator>>, "Treasury"))
  /\ chain' = [chain EXCEPT !.roles = IF on THEN {Operator} ELSE {}]

\* What the contracts publish of their other operations.
OtherEvents ==
  << Vec("zkme_upd", <<Operator>>, <<"none", "kyc">>),
     Raw(Factory, "adm_xfr", <<>>, "vec", <<"none", Operator>>),
     Raw(Factory, "def_upd", <<>>, "vec", <<"asset", "kyc", "coop">>),
     Raw(Factory, "wasm_upd", <<Operator>>, "vec", <<"old", "new">>),
     Raw(Factory, "v_status", <<Vault>>, "scalar", <<"false">>),
     Vec("rwa_upd", <<>>, <<"name", "symbol", "uri">>),
     Plain("burn", <<"holder">>, 1), Plain("fee_set", <<>>, 1) >>
Other ==
  /\ chain.created
  /\ \E i \in DOMAIN OtherEvents : Emit("other", OtherEvents[i])
  /\ UNCHANGED chain
-----------------------------------------------------------------------------
\* The next event of the pass goes through its handler.
Deliver ==
  /\ ~CaughtUp
  /\ db' = Indexed(db, history[at + 1])
  /\ at' = at + 1
  /\ UNCHANGED <<chain, history, passes, mix>>

\* A backfill, a replay or an overlapping fetch starts at an earlier event.
Rewind ==
  /\ passes < MaxPasses
  /\ \E i \in 0..(at - 1) : at' = i
  /\ passes' = passes + 1
  /\ UNCHANGED <<chain, history, db, mix>>

\* scripts/resync-vault.ts: the totals the contract reports, with every field
\* it leaves out as upsertVault defaults it.
Resync ==
  /\ "resync" \in mix.kinds
  /\ chain.created
  /\ passes < MaxPasses
  /\ passes' = passes + 1
  /\ db' = UpsertVault(db, Vault, [Defaults EXCEPT !.totalAssets = Supply, !.totalSupply = Supply])
  /\ UNCHANGED <<chain, history, at, mix>>

\* A reader asks for the report of a year, which keeps the answer; the monthly
\* job works the reports of the running year out again.
AskForReport ==
  /\ "report" \in mix.kinds
  /\ \E year \in 0..(db.now \div YearLength) : db' = CacheAnnualReport(db, Vault, year)
  /\ UNCHANGED <<chain, history, at, passes, mix>>
GenerateReports ==
  /\ "report" \in mix.kinds
  /\ db' = GenerateVaultReports(db)
  /\ UNCHANGED <<chain, history, at, passes, mix>>

\* An administrator takes the vault off the public lists, or features it.
SwitchListing ==
  /\ "admin" \in mix.kinds
  /\ \E answered \in {ToggleVaultUnlisted(db, Vault, ~GetVault(db, Vault).unlisted),
                      SetVaultFeaturedRank(db, Vault, 1)} :
       Known(db, Vault) /\ db' = answered.db
  /\ UNCHANGED <<chain, history, at, passes, mix>>

Next ==
  \/ AskForReport \/ GenerateReports \/ SwitchListing
  \/ Create \/ Distribute \/ ProcessRedemption \/ CancelRedemption
  \/ \E u \in Users : Deposit(u) \/ Withdraw(u) \/ Claim(u) \/ RequestRedemption(u)
  \/ \E u, w \in Users : Transfer(u, w)
  \/ \E s \in {"Active", "Matured", "Closed"} : ChangeState(s)
  \/ CancelFunding \/ Other
  \/ \E on \in BOOLEAN : SetOperator(on) \/ SetRole(on)
  \/ Deliver \/ Rewind \/ Resync

Spec == Init /\ [][Next]_vars
-----------------------------------------------------------------------------
Settled == CaughtUp /\ passes = 0 /\ Known(db, Vault)

\* A deposit "upserts user_vault_positions (shares/deposited +=)", a withdrawal
\* decrements it (docs/events.md): after a history delivered once, in which
\* shares move by deposits and withdrawals only, the holders the API lists are
\* the holders of the contract, with their shares.
HoldersFollowChain ==
  Settled /\ ~chain.silent =>
    /\ Holders(db, Vault) = {u \in Users : chain.held[u] > 0}
    /\ \A k \in PositionsOf(db, Vault) : /\ db.positions[k].shares = chain.held[k[1]]
                                         /\ (db.positions[k].exited > 0) = (chain.held[k[1]] = 0)
    /\ ListVaultHolders(db, Vault, 1, Cardinality(Users), "shares").total = DepositorCount(db, Vault)

\* A distribution "inserts epochs row, ... and one share_balance_snapshots row
\* per active shareholder" (docs/events.md).
SnapshotsMatchEpochs ==
  Settled /\ ~chain.silent =>
    \A e \in DOMAIN chain.epochs :
      SnapshotHolders(db, Vault, e) = {u \in Users : chain.epochs[e][u] > 0}

\* However often a part of the history is delivered again, a snapshot once
\* taken keeps its shares (ON CONFLICT DO NOTHING in handleYieldDistributed).
SnapshotsFixed ==
  [][\A s \in DOMAIN db.snapshots :
       s \in DOMAIN db'.snapshots /\ db'.snapshots[s].shares = db.snapshots[s].shares]_vars

\* After any number of deliveries the state and the staff the API shows are
\* the ones of the contract: the last word of the history wins.
SettingsFollowChain ==
  CaughtUp /\ Known(db, Vault) /\ "resync" \notin mix.kinds =>
    /\ GetVault(db, Vault).state = chain.state
    /\ ListVaultOperators(db, Vault) = chain.operators
    /\ ListVaultRoles(db, Vault) = chain.roles \X {"Treasury"}

\* A request the queue of the API shows is waiting in the contract, for the
\* user it is shown for: a request delivered again does not come back to life.
QueueShowsOpenRequests ==
  CaughtUp => \A k \in WaitingRequests(db, Vault) :
    \E r \in chain.queue : r[1] = db.requests[k].id /\ r[2] = k[2]

\* The log counts no claim twice (the key of indexed_events), so an epoch is
\* closed only after the contract credited its yield (closeEpochIfFullyClaimed).
ClosedMeansClaimed ==
  /\ \A e \in DOMAIN chain.paid : ClaimedInLog(db, Vault, e) <= chain.paid[e]
  /\ \A k \in DOMAIN db.epochs : db.epochs[k].closed => chain.paid[k[2]] >= db.epochs[k].yield

\* Three endpoints report the claims of the log, by epoch, by vault and by
\* user: what the users are said to have claimed is what the epochs are said
\* to have paid (getEpochDetail, getClaimStatsForVault, getUserYieldHistory).
StatementsAgree ==
  LET detail(e) == GetEpochDetail(db, Vault, e)
      stats == GetClaimStatsForVault(db, Vault)
      byEpoch == SumOver(DOMAIN stats, LAMBDA e : stats[e].claimed)
  IN  /\ SumOver(Users, LAMBDA u : GetUserYieldSummary(db, u).claimed) = byEpoch
      /\ \A u \in Users :
           LET all == GetUserYieldHistory(db, u, 1, Len(db.log))
           IN  /\ Len(all.data) = all.total
               /\ FoldSeq(LAMBDA e, n : n + e.data.amount, 0, all.data) = ClaimedBy(db, u)
      /\ \A e \in EpochsOf(db, Vault) :
           /\ detail(e).claimed + detail(e).unclaimed >= YieldOf(db, Vault, e)
           /\ DeriveEpochStatus(detail(e).yield, detail(e).claimed) = "fully_claimed"
                <=> detail(e).unclaimed = 0
           /\ GetEpochYieldPerShare(db, Vault, e) # None => detail(e).unclaimed = 0

\* A reader that follows the cursors sees every epoch once, in order, however
\* small its pages (getEpochsInRange).
EpochPagesComplete ==
  \A limit \in 1..2 :
    LET all == GetVaultEpochs(db, Vault)
        turn(walk, i) ==
          LET page == GetEpochsInRange(db, Vault, <<>>, limit, walk.cursor)
          IN  IF walk.done THEN walk
              ELSE [seen |-> walk.seen \o page.epochs, cursor |-> page.next,
                    done |-> page.next = None]
    IN  FoldLeft(turn, [seen |-> <<>>, cursor |-> None, done |-> FALSE], all \o <<0>>)
          = [seen |-> all, cursor |-> None, done |-> TRUE]

\* A year's report names no yield the contract did not distribute in that year,
\* whenever it was worked out and kept (computeAnnualReportData).
YieldOfYear(year) ==
  LET told == {j \in DOMAIN history :
                 history[j].name = "yield_dis" /\ InYear(history[j].ledger, year)}
  IN  Total([j \in told |-> history[j].data[1]], told)
ReportNeverAhead ==
  \A k \in DOMAIN db.reports :
    k[1] = Vault => db.reports[k].total <= YieldOfYear(k[2])

\* The report of a year that is over tells its whole yield: "a year-over-year
\* summary of a vault's performance for tax and reporting purposes"
\* (controllers/vaults.ts, getVaultAnnualReport).
ReportComplete ==
  Settled => \A year \in 0..(db.now \div YearLength) :
    YearStart(year + 1) <= db.now =>
      GetVaultAnnualReport(db, Vault, year).body.total = YieldOfYear(year)

\* The cumulative claims of a holder are the ones the contract paid: "the
\* duplicate replay guard in #1174 prevents the same claim from being added
\* twice" (indexer.ts, handleYieldClaimed).
ClaimCountedOnce ==
  \A e \in DOMAIN chain.paid :
    SumOver({s \in DOMAIN db.snapshots : s[3] = e}, LAMBDA s : db.snapshots[s].claimed)
      <= chain.paid[e]

\* "Check if epoch is now fully claimed and fire webhook (#819)" (indexer.ts,
\* handleYieldClaimed): an epoch whose claims are all in the log is closed.
FullyClaimedIsClosed ==
  \A e \in EpochsOf(db, Vault) :
    DeriveEpochStatus(YieldOf(db, Vault, e), ClaimedInLog(db, Vault, e)) = "fully_claimed"
      => EpochRow(db, Vault, e).closed

\* resync-vault.ts "resynchronises a single vault's on-chain fields
\* (total_assets, total_supply)": it is to leave the state alone.
ResyncKeepsState ==
  [][Resync /\ Known(db, Vault) => db'.vaults[Vault].state = db.vaults[Vault].state]_vars
=============================================================================
